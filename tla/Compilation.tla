---------------------------- MODULE Compilation ----------------------------
(***************************************************************************)
(* Module::compile (loom.rs): the verified artifact cache on disk, the     *)
(* lock file of a key, the index a module shares between specializations,  *)
(* the pool of exclusive compiler workspaces (loom/native.rs), and the     *)
(* sweep that removes unused artifacts (bundle::collect).  Threads belong  *)
(* to processes; a process may be killed at any step, which releases its   *)
(* file locks and leaves a half removed directory behind.                  *)
(*                                                                         *)
(* A file is the number of the compilation that wrote it; 0 is absent and  *)
(* a negative number is a damaged file.  Two files have matching digests   *)
(* exactly when one compilation wrote them.                                *)
(***************************************************************************)
EXTENDS Integers, FiniteSets, TLAPS

CONSTANTS Threads, Keys, Processes, Collectors,
          ProcessOf,     \* the process of a thread or collector
          ModuleOf,      \* the source module of a key
          CxxModules,    \* modules with a C++ input: indexing imports it
          Limit,         \* CompilerOptions::workers
          Nobody

VARIABLES work, disk, built, flock, mutex, indexed, pool, sweep,
          used,          \* collector -> files of the entry it is at that, as of its
                         \* look, were accessed since the cutoff of its sweep
          damaged

vars == <<work, disk, built, flock, mutex, indexed, pool, sweep, used, damaged>>

Modules == {ModuleOf[k] : k \in Keys}
Files == {"meta", "sum", "bin", "aux"}
Absent == [f \in Files |-> 0]
Written(g) == [f \in Files |-> g]
Present(k) == {f \in Files : disk[k][f] # 0}
Idle == [at |-> "idle", key |-> Nobody, traced |-> FALSE, locked |-> FALSE,
         lease |-> FALSE, parts |-> Absent]
Ended == {"idle", "done", "failed", "dead"}

\* An action steps a thread's program counter and changes what it names.
Goto(t, at) == [work EXCEPT ![t] = [@ EXCEPT !.at = at]]
Unlocked(t) == [k \in Keys |-> IF flock[k] = t THEN Nobody ELSE flock[k]]
Process(t) == ProcessOf[t]

Init ==
    /\ work = [t \in Threads |-> Idle]
    /\ disk = [k \in Keys |-> Absent]
    /\ built = [k \in Keys |-> 0]
    /\ flock = [k \in Keys |-> Nobody]
    /\ mutex = [p \in Processes, m \in Modules |-> Nobody]
    /\ indexed = [p \in Processes, m \in Modules |-> FALSE]
    /\ pool = [p \in Processes |-> [count |-> 0, idle |-> 0, asleep |-> {}]]
    /\ sweep = [c \in Collectors |-> [at |-> "idle", key |-> Nobody, looked |-> Absent]]
    /\ used = [c \in Collectors |-> {}]
    /\ damaged = 0

-----------------------------------------------------------------------------
(* The lookup of a cached artifact: four reads, any of which may find the   *)
(* files of another compilation or none.                                    *)

Start(t, k, traced) ==
    /\ work[t].at \in Ended \ {"dead"}
    /\ work' = [work EXCEPT ![t] = [Idle EXCEPT !.at = IF traced THEN "lock" ELSE "meta",
                                                !.key = k, !.traced = traced]]
    /\ UNCHANGED <<disk, built, flock, mutex, indexed, pool, sweep, used, damaged>>

AfterMiss(t) == IF work[t].locked THEN "index" ELSE "lock"

Matches_Unchecked(t, f) == disk[work[t].key][f] # 0

\* The digest recorded for a file is that of the file read.
Matches(t, f) == disk[work[t].key][f] = work[t].parts["meta"]
ReadMeta(t) ==
    /\ work[t].at = "meta"
    /\ LET g == disk[work[t].key]["meta"] IN
       work' = [work EXCEPT ![t] = [@ EXCEPT !.at = IF g = 0 THEN AfterMiss(t) ELSE "sum",
                                             !.parts = [Absent EXCEPT !["meta"] = g]]]
    /\ UNCHANGED <<disk, built, flock, mutex, indexed, pool, sweep, used, damaged>>

\* Access times of a key's files, as the sweeps yet to look at them will see.
Accessed(k, files) ==
    [c \in Collectors |-> IF sweep[c].key = k /\ sweep[c].at \in {"lock", "look"}
                          THEN used[c] \union files ELSE used[c]]

\* A match of the metadata also refreshes its access time, under no lock.
ReadSum(t) ==
    /\ work[t].at = "sum"
    /\ LET hit == Matches(t, "sum") IN
       /\ work' = [work EXCEPT ![t] = [@ EXCEPT !.at = IF hit THEN "bin" ELSE AfterMiss(t),
                                                !.parts = [work[t].parts EXCEPT !["sum"] = disk[work[t].key]["sum"]]]]
       /\ used' = IF hit /\ "meta" \in Present(work[t].key)
                  THEN Accessed(work[t].key, {"meta"}) ELSE used
    /\ UNCHANGED <<disk, built, flock, mutex, indexed, pool, sweep, damaged>>

ReadBin(t) ==
    /\ work[t].at = "bin"
    /\ work' = [work EXCEPT ![t] = [@ EXCEPT
                    !.at = IF Matches(t, "bin") THEN "aux" ELSE AfterMiss(t),
                    !.parts = [work[t].parts EXCEPT !["bin"] = disk[work[t].key]["bin"]]]]
    /\ UNCHANGED <<disk, built, flock, mutex, indexed, pool, sweep, used, damaged>>

ReadAux(t) ==
    /\ work[t].at = "aux"
    /\ LET hit == Matches(t, "aux") IN
       /\ work' = [work EXCEPT ![t] = [@ EXCEPT !.at = IF hit THEN "done" ELSE AfterMiss(t),
                                                !.locked = work[t].locked /\ ~hit,
                                                !.parts = [work[t].parts EXCEPT !["aux"] = disk[work[t].key]["aux"]]]]
       /\ flock' = IF hit THEN Unlocked(t) ELSE flock
    /\ UNCHANGED <<disk, built, mutex, indexed, pool, sweep, used, damaged>>

TakeLock(t) ==
    /\ work[t].at = "lock"
    /\ flock[work[t].key] = Nobody
    /\ flock' = [flock EXCEPT ![work[t].key] = t]
    /\ work' = [work EXCEPT ![t] = [@ EXCEPT !.at = IF work[t].traced THEN "index" ELSE "meta",
                                             !.locked = TRUE]]
    /\ UNCHANGED <<disk, built, mutex, indexed, pool, sweep, used, damaged>>

-----------------------------------------------------------------------------
(* Prepared::workspace and Lease::drop.  A waiter sleeps on the condition   *)
(* variable; a returned lease wakes one of them, which looks again.         *)

DropLease_Silent(t, woken) ==
    IF work[t].lease THEN [pool EXCEPT ![Process(t)].idle = @ + 1] ELSE pool

\* The pool after the lease of t is dropped, and the threads it may wake.
DropLease(t, woken) ==
    LET p == Process(t) IN
    IF work[t].lease
    THEN [pool EXCEPT ![p].idle = @ + 1, ![p].asleep = @ \ {woken}]
    ELSE pool
Wakes(t) ==
    IF work[t].lease /\ pool[Process(t)].asleep # {} THEN pool[Process(t)].asleep ELSE {Nobody}
\* A workspace for the indexing of a C++ input or for the compilation.
Lease(t) ==
    LET p == Process(t) IN
    /\ work[t].at \in {"index_pool", "pool"}
    /\ t \notin pool[p].asleep
    /\ LET next == IF work[t].at = "pool" THEN "compile" ELSE "indexing" IN
       \/ /\ pool[p].idle > 0
          /\ pool' = [pool EXCEPT ![p].idle = @ - 1]
          /\ work' = [work EXCEPT ![t] = [@ EXCEPT !.at = next, !.lease = TRUE]]
       \/ /\ pool[p].idle = 0
          /\ pool[p].count < Limit
          /\ pool' = [pool EXCEPT ![p].count = @ + 1]
          /\ work' = [work EXCEPT ![t] = [@ EXCEPT !.at = next, !.lease = TRUE]]
       \/ /\ pool[p].idle = 0
          /\ pool[p].count >= Limit
          /\ pool' = [pool EXCEPT ![p].asleep = @ \union {t}]
          /\ UNCHANGED work
    /\ UNCHANGED <<disk, built, flock, mutex, indexed, sweep, used, damaged>>

\* An error returned while holding what `work` says: every guard is dropped.
Fails(t, woken) ==
    /\ woken \in Wakes(t)
    /\ work' = [work EXCEPT ![t] = [@ EXCEPT !.at = "failed", !.locked = FALSE,
                                             !.lease = FALSE]]
    /\ pool' = DropLease(t, woken)
    /\ flock' = Unlocked(t)
    /\ mutex' = [x \in DOMAIN mutex |-> IF mutex[x] = t THEN Nobody ELSE mutex[x]]
    /\ UNCHANGED <<disk, built, indexed, sweep, used, damaged>>

\* An I/O error taking the lock, or a workspace that cannot be created.
LockFails(t) == work[t].at = "lock" /\ Fails(t, Nobody)
LeaseFails(t) ==
    /\ work[t].at \in {"index_pool", "pool"}
    /\ t \notin pool[Process(t)].asleep
    /\ pool[Process(t)].idle = 0
    /\ pool[Process(t)].count < Limit
    /\ Fails(t, Nobody)

-----------------------------------------------------------------------------
(* The index of a module is built once, under its mutex.                    *)

\* Indexing with the workspace leased before the module's index is locked.
Index_Leasing(t) ==
    LET x == <<Process(t), ModuleOf[work[t].key]>> IN
    /\ work[t].at = "index"
    /\ IF work[t].lease
       THEN /\ mutex[x] = Nobody
            /\ IF indexed[x]
               THEN work' = Goto(t, "compile") /\ UNCHANGED mutex
               ELSE /\ mutex' = [mutex EXCEPT ![x] = t]
                    /\ work' = Goto(t, "index_pool")
            /\ UNCHANGED pool
       ELSE /\ pool[x[1]].idle > 0 \/ pool[x[1]].count < Limit
            /\ pool' = IF pool[x[1]].idle > 0 THEN [pool EXCEPT ![x[1]].idle = @ - 1]
                                              ELSE [pool EXCEPT ![x[1]].count = @ + 1]
            /\ work' = [work EXCEPT ![t].lease = TRUE]
            /\ UNCHANGED mutex
    /\ UNCHANGED <<disk, built, flock, indexed, sweep, used, damaged>>

Index(t) ==
    LET x == <<Process(t), ModuleOf[work[t].key]>> IN
    /\ work[t].at = "index"
    /\ mutex[x] = Nobody
    /\ IF indexed[x]
       THEN work' = Goto(t, "pool") /\ UNCHANGED mutex
       ELSE /\ mutex' = [mutex EXCEPT ![x] = t]
            /\ work' = Goto(t, IF x[2] \in CxxModules THEN "index_pool" ELSE "indexing")
    /\ UNCHANGED <<disk, built, flock, indexed, pool, sweep, used, damaged>>

Indexed(t) ==
    LET x == <<Process(t), ModuleOf[work[t].key]>> IN
    /\ work[t].at = "indexing"
    /\ \E woken \in Wakes(t) :
         /\ indexed' = [indexed EXCEPT ![x] = TRUE]
         /\ mutex' = [mutex EXCEPT ![x] = Nobody]
         /\ pool' = DropLease(t, woken)
         /\ work' = [work EXCEPT ![t] = [@ EXCEPT !.at = "pool", !.lease = FALSE]]
    /\ UNCHANGED <<disk, built, flock, sweep, used, damaged>>

IndexFails(t) == work[t].at = "indexing" /\ \E woken \in Wakes(t) : Fails(t, woken)

\* The compiled bytes, staged in a private directory and synchronized.  The
\* trace writer of a traced compilation can abort it: CompileFails.
Compile(t) ==
    LET k == work[t].key
        g == built[k] + 1 IN
    /\ work[t].at = "compile"
    /\ \E woken \in Wakes(t) :
         /\ pool' = DropLease(t, woken)
         /\ work' = [work EXCEPT ![t] = [@ EXCEPT !.lease = FALSE, !.parts = Written(g),
                         !.at = IF Present(k) # {} THEN "remove" ELSE "publish"]]
    /\ built' = [built EXCEPT ![k] = g]
    /\ UNCHANGED <<disk, flock, mutex, indexed, sweep, used, damaged>>

CompileFails(t) == work[t].at = "compile" /\ \E woken \in Wakes(t) : Fails(t, woken)

\* remove_dir_all unlinks the files of the old entry one by one.
RemoveFile(t, f) ==
    LET k == work[t].key IN
    /\ work[t].at = "remove"
    /\ f \in Present(k)
    /\ disk' = [disk EXCEPT ![k][f] = 0]
    /\ work' = IF Present(k) = {f} THEN Goto(t, "publish") ELSE work
    /\ UNCHANGED <<built, flock, mutex, indexed, pool, sweep, used, damaged>>

RemoveFails(t) == work[t].at = "remove" /\ Fails(t, Nobody)

\* bundle::publish renames the staging directory, which needs the name free.
Publish(t) ==
    LET k == work[t].key IN
    /\ work[t].at = "publish"
    /\ Present(k) = {}
    /\ disk' = [disk EXCEPT ![k] = work[t].parts]
    /\ used' = Accessed(k, Files)
    /\ flock' = Unlocked(t)
    /\ work' = [work EXCEPT ![t] = [@ EXCEPT !.at = "done", !.locked = FALSE]]
    /\ UNCHANGED <<built, mutex, indexed, pool, sweep, damaged>>

PublishFails(t) == work[t].at = "publish" /\ Fails(t, Nobody)

-----------------------------------------------------------------------------
(* bundle::collect, one entry of the kernel cache.                          *)

\* Mutant: an entry is collected whenever it was last accessed.
Kept_Never(c) == Present(sweep[c].key) = {}

\* last_access: the latest of the files that are there.
Kept(c) == Present(sweep[c].key) = {} \/ used[c] \cap Present(sweep[c].key) # {}

\* The cutoff lies in the past by the time asked for, none included: any of
\* the files may be newer.
CollectStart(c, k) ==
    /\ sweep[c].at = "idle"
    /\ Present(k) # {}
    /\ sweep' = [sweep EXCEPT ![c] = [at |-> "lock", key |-> k, looked |-> Absent]]
    /\ \E files \in {{}, {"meta"}, Files} : used' = [used EXCEPT ![c] = files]
    /\ UNCHANGED <<work, disk, built, flock, mutex, indexed, pool, damaged>>

CollectLock_None(c) ==
    /\ sweep[c].at = "lock"
    /\ sweep' = [sweep EXCEPT ![c] = [@ EXCEPT !.at = "look"]]
    /\ UNCHANGED <<work, disk, built, flock, mutex, indexed, pool, used, damaged>>

CollectLock(c) ==
    /\ sweep[c].at = "lock"
    /\ flock[sweep[c].key] = Nobody
    /\ flock' = [flock EXCEPT ![sweep[c].key] = c]
    /\ sweep' = [sweep EXCEPT ![c] = [@ EXCEPT !.at = "look"]]
    /\ UNCHANGED <<work, disk, built, mutex, indexed, pool, used, damaged>>

CollectLook(c) ==
    LET k == sweep[c].key IN
    /\ sweep[c].at = "look"
    /\ IF Kept(c)
       THEN /\ sweep' = [sweep EXCEPT ![c] = [@ EXCEPT !.at = "idle"]]
            /\ flock' = Unlocked(c)
       ELSE /\ sweep' = [sweep EXCEPT ![c] = [@ EXCEPT !.at = "remove", !.looked = disk[k]]]
            /\ UNCHANGED flock
    /\ UNCHANGED <<work, disk, built, mutex, indexed, pool, used, damaged>>
CollectRemove(c, f) ==
    LET k == sweep[c].key IN
    /\ sweep[c].at = "remove"
    /\ f \in Present(k)
    /\ disk' = [disk EXCEPT ![k][f] = 0]
    /\ IF Present(k) = {f}
       THEN /\ sweep' = [sweep EXCEPT ![c] = [@ EXCEPT !.at = "idle"]]
            /\ flock' = Unlocked(c)
       ELSE UNCHANGED <<sweep, flock>>
    /\ UNCHANGED <<work, built, mutex, indexed, pool, used, damaged>>

-----------------------------------------------------------------------------
(* The environment: a file is damaged, a process is killed.                 *)

Damage(k, f) ==
    /\ disk[k][f] > 0
    /\ disk' = [disk EXCEPT ![k][f] = CASE f = "meta" -> -1 [] f = "sum" -> -2
                                        [] f = "bin" -> -3 [] OTHER -> -4]
    /\ damaged' = damaged + 1
    /\ UNCHANGED <<work, built, flock, mutex, indexed, pool, sweep, used>>

Kill(p) ==
    /\ \E t \in Threads : Process(t) = p /\ work[t].at \notin Ended
    /\ work' = [t \in Threads |-> IF Process(t) = p
                                  THEN [work[t] EXCEPT !.at = "dead"] ELSE work[t]]
    /\ sweep' = [c \in Collectors |-> IF Process(c) = p
                                      THEN [sweep[c] EXCEPT !.at = "dead"] ELSE sweep[c]]
    /\ flock' = [k \in Keys |-> IF flock[k] # Nobody /\ Process(flock[k]) = p
                                THEN Nobody ELSE flock[k]]
    /\ UNCHANGED <<disk, built, mutex, indexed, pool, used, damaged>>

Step(t) ==
    \/ ReadMeta(t) \/ ReadSum(t) \/ ReadBin(t) \/ ReadAux(t)
    \/ TakeLock(t) \/ LockFails(t) \/ Lease(t) \/ LeaseFails(t)
    \/ Index(t) \/ Indexed(t) \/ IndexFails(t)
    \/ Compile(t) \/ CompileFails(t)
    \/ \E f \in Files : RemoveFile(t, f)
    \/ RemoveFails(t) \/ Publish(t) \/ PublishFails(t)

Collect(c) == CollectLock(c) \/ CollectLook(c) \/ \E f \in Files : CollectRemove(c, f)

Next ==
    \/ \E t \in Threads : Step(t) \/ \E k \in Keys, traced \in BOOLEAN : Start(t, k, traced)
    \/ \E c \in Collectors : Collect(c) \/ \E k \in Keys : CollectStart(c, k)
    \/ \E k \in Keys, f \in Files : Damage(k, f)
    \/ \E p \in Processes : Kill(p)

Spec == Init /\ [][Next]_vars

-----------------------------------------------------------------------------
(* "Compile in process or return verified cached bytes" (loom.rs:859): the  *)
(* metadata, executable, launch program and listing of a returned artifact  *)
(* come from one compilation, whatever was being replaced, collected, half  *)
(* removed or damaged while they were read.                                 *)
ArtifactsWhole ==
    \A t \in Threads : work[t].at = "done" =>
        \E g \in 1 .. built[work[t].key] : work[t].parts = Written(g)

(* An entry is deleted only by the holder of its lock, and a whole entry    *)
(* only by a compilation that has the bytes to replace it ("leaves any      *)
(* existing cached artifact intact", loom.rs:866) or by a sweep that, after *)
(* any waiting writer finished, found these very files and none of them     *)
(* accessed since its cutoff (bundle.rs:321-331).  A lookup takes no lock:  *)
(* an access after the sweep has looked does not stop it, and ends in a     *)
(* miss.                                                                    *)
CachedKept ==
    \A k \in Keys : Present(k)' \subseteq Present(k) /\ Present(k)' # Present(k) =>
      \/ \E t \in Threads :
           flock[k] = t /\ work[t].key = k /\ work[t].parts = Written(built[k])
      \/ \E c \in Collectors :
           /\ flock[k] = c /\ used[c] \cap Present(k) = {}
           /\ \A f \in Files : disk[k][f] \in {0, sweep[c].looked[f]} \union (-4 .. -1)

-----------------------------------------------------------------------------
(* Proofs, for every set of threads, collectors, keys and generations.  The *)
(* four reads of a lookup are not atomic: what carries the proof is that a  *)
(* file says which compilation wrote it, that a digest of a damaged file    *)
(* matches no other file, and that only the holder of a key's lock compiles *)
(* that key.                                                                *)

\* Threads, collectors and Nobody are different things, so a lock has one holder.
Sized == Threads \cap Collectors = {} /\ Nobody \notin Threads \union Collectors

Reading == {"meta", "sum", "bin", "aux"}
Writing == {"index", "index_pool", "indexing", "pool", "compile", "remove", "publish"}
Damaged(f) == CASE f = "meta" -> -1 [] f = "sum" -> -2 [] f = "bin" -> -3 [] OTHER -> -4

Stages == Ended \union Reading \union Writing \union {"lock"}
Jobs == [at : Stages, key : Keys \union {Nobody}, traced : BOOLEAN, locked : BOOLEAN,
         lease : BOOLEAN, parts : [Files -> Int]]
Sweeps == [at : {"idle", "lock", "look", "remove", "dead"}, key : Keys \union {Nobody},
           looked : [Files -> Int]]
Holders == Threads \union Collectors \union {Nobody}

Typed ==
  /\ work \in [Threads -> Jobs] /\ sweep \in [Collectors -> Sweeps]
  /\ disk \in [Keys -> [Files -> Int]] /\ built \in [Keys -> Nat]
  /\ flock \in [Keys -> Holders]

\* A file is absent, damaged or written by a compilation of its key.
DiskSound == \A k \in Keys, f \in Files : disk[k][f] \in {0, Damaged(f)} \union 1 .. built[k]

\* What a lookup has read so far is of one compilation; what is about to be
\* published is of the latest one.
ReadSound(w) ==
  LET g == w.parts["meta"]  n == built[w.key] IN
  /\ w.at \notin {"idle", "dead"} => w.key \in Keys
  /\ w.at = "sum" => g \in {-1} \union 1 .. n
  /\ w.at \in {"bin", "aux"} => g \in 1 .. n /\ w.parts["sum"] = g
  /\ w.at = "aux" => w.parts["bin"] = g
  /\ w.at = "done" => g \in 1 .. n /\ w.parts = Written(g)
  /\ w.at \in {"remove", "publish"} => n > 0 /\ w.parts = Written(n)

\* Who compiles, replaces or sweeps an entry holds its lock, and a sweep removes
\* only what it has looked at.
LockSound(t) ==
  work[t].at \in Writing \/ (work[t].at \in Reading /\ work[t].locked) => flock[work[t].key] = t

SweepSound(c) ==
  /\ sweep[c].at \notin {"idle", "dead"} => sweep[c].key \in Keys
  /\ sweep[c].at \in {"look", "remove"} => flock[sweep[c].key] = c
  /\ sweep[c].at = "remove" =>
       \A f \in Files : disk[sweep[c].key][f] \in {0, sweep[c].looked[f]} \union (-4 .. -1)

Inv ==
  /\ Typed /\ DiskSound
  /\ \A t \in Threads : ReadSound(work[t]) /\ LockSound(t)
  /\ \A c \in Collectors : SweepSound(c)

LEMMA InvInit == Sized /\ Init => Inv
<1> SUFFICES ASSUME Sized, Init PROVE Inv
  OBVIOUS
<1>1. Typed
  BY DEF Init, Typed, Jobs, Sweeps, Holders, Stages, Ended, Idle, Absent, Files
<1>2. DiskSound
  BY DEF Init, DiskSound, Absent
<1>3. \A t \in Threads : ReadSound(work[t]) /\ LockSound(t)
  BY DEF Init, ReadSound, LockSound, Idle, Reading, Writing
<1>4. \A c \in Collectors : SweepSound(c)
  BY DEF Init, SweepSound
<1> QED
  BY <1>1, <1>2, <1>3, <1>4 DEF Inv

\* Files change only by being lost or damaged.
FilesLost ==
  /\ disk' \in [Keys -> [Files -> Int]]
  /\ \A k \in Keys, f \in Files : disk'[k][f] \in {disk[k][f], 0, Damaged(f)}

LEMMA FilesSame == ASSUME Inv, UNCHANGED disk PROVE FilesLost
  BY Zenon DEF Inv, Typed, FilesLost

LEMMA OneFileLost ==
  ASSUME Inv, NEW k \in Keys, NEW f \in Files, NEW v \in {0, Damaged(f)},
         disk' = [disk EXCEPT ![k][f] = v]
  PROVE  FilesLost
<1>1. v \in Int /\ disk \in [Keys -> [Files -> Int]]
  BY DEF Damaged, Inv, Typed
<1>2. disk' \in [Keys -> [Files -> Int]]
  BY <1>1
<1>3. ASSUME NEW j \in Keys, NEW g \in Files PROVE disk'[j][g] \in {disk[j][g], 0, Damaged(g)}
  <2>1. disk'[j][g] = IF j = k /\ g = f THEN v ELSE disk[j][g]
    BY <1>1
  <2> QED
    BY <2>1, Zenon
<1> QED
  BY <1>2, <1>3, Zenon DEF FilesLost

\* Losing files breaks neither the disk nor what a sweep removes.
LEMMA FilesInv ==
  ASSUME Sized, Inv, FilesLost, UNCHANGED built
  PROVE  /\ DiskSound'
         /\ \A k \in Keys : \A l \in [Files -> Int] :
              (\A f \in Files : disk[k][f] \in {0, l[f]} \union (-4 .. -1))
                => \A f \in Files : disk'[k][f] \in {0, l[f]} \union (-4 .. -1)
<1>1. DiskSound'
  BY Zenon DEF FilesLost, Inv, DiskSound
<1>2. \A f \in Files : Damaged(f) \in -4 .. -1
  BY DEF Files, Damaged
<1> QED
  BY <1>1, <1>2, Zenon DEF FilesLost

\* A step of one thread that writes no file and changes no lock but its own.
LEMMA MoveInv ==
  ASSUME Sized, Inv, NEW t \in Threads, NEW r \in Jobs,
         work' = [work EXCEPT ![t] = r], FilesLost, UNCHANGED <<sweep, built>>,
         flock' \in [Keys -> Holders],
         \A k \in Keys : flock'[k] = flock[k] \/ flock[k] \in {t, Nobody},
         ReadSound(r),
         r.at \in Writing \/ (r.at \in Reading /\ r.locked) => flock'[r.key] = t
  PROVE  Inv'
<1>1. /\ work' \in [Threads -> Jobs] /\ work'[t] = r
      /\ \A u \in Threads \ {t} : work'[u] = work[u]
  BY DEF Inv, Typed
<1>2. Typed' /\ DiskSound'
  BY <1>1, FilesInv, Zenon DEF Inv, Typed, FilesLost
<1>3. ASSUME NEW u \in Threads PROVE ReadSound(work[u])' /\ LockSound(u)'
  <2>1. CASE u = t
    BY <1>1, <2>1, Zenon DEF ReadSound, LockSound
  <2>2. CASE u # t
    <3>1. work'[u] = work[u] /\ ReadSound(work[u]) /\ LockSound(u)
      BY <1>1, <2>2, Zenon DEF Inv
    <3>2. ReadSound(work[u])'
      BY <3>1, Zenon DEF ReadSound
    <3>3. LockSound(u)'
      <4> SUFFICES ASSUME work[u].at \in Writing \/ (work[u].at \in Reading /\ work[u].locked)
                   PROVE  flock'[work[u].key] = u
        BY <3>1, Zenon DEF LockSound
      <4>1. work[u].key \in Keys
        BY <3>1 DEF ReadSound, Reading, Writing
      <4>2. flock[work[u].key] = u
        BY <3>1, Zenon DEF LockSound
      <4> QED
        BY <4>1, <4>2, <2>2, Zenon DEF Sized
    <3> QED
      BY <3>2, <3>3
  <2> QED
    BY <2>1, <2>2
<1>4. ASSUME NEW c \in Collectors PROVE SweepSound(c)'
  <2>1. SweepSound(c) /\ c # t /\ c # Nobody /\ sweep[c] \in Sweeps
    BY Zenon DEF Inv, Typed, Sized
  <2>2. sweep[c].looked \in [Files -> Int]
    BY <2>1 DEF Sweeps
  <2>3. sweep[c].at = "remove" => sweep[c].key \in Keys
    BY <2>1 DEF SweepSound
  <2>4. sweep[c].at = "remove" =>
          \A f \in Files : disk'[sweep[c].key][f] \in {0, sweep[c].looked[f]} \union (-4 .. -1)
    BY <2>1, <2>2, <2>3, FilesInv, Zenon DEF SweepSound
  <2>5. sweep[c].at \in {"look", "remove"} => flock'[sweep[c].key] = c
    BY <2>1 DEF SweepSound
  <2> QED
    BY <2>1, <2>4, <2>5, Zenon DEF SweepSound
<1> QED
  BY <1>2, <1>3, <1>4, Zenon DEF Inv

LEMMA ThreadInv ==
  ASSUME Sized, Inv, NEW t \in Threads, NEW r \in Jobs,
         work' = [work EXCEPT ![t] = r], UNCHANGED <<disk, sweep, built>>,
         flock' \in [Keys -> Holders],
         \A k \in Keys : flock'[k] = flock[k] \/ flock[k] \in {t, Nobody},
         ReadSound(r),
         r.at \in Writing \/ (r.at \in Reading /\ r.locked) => flock'[r.key] = t
  PROVE  Inv'
  BY MoveInv, FilesSame, Zenon

LEMMA Busy ==
  ASSUME Inv, NEW t \in Threads, work[t].at \notin {"idle", "dead"}
  PROVE  /\ work[t] \in Jobs /\ ReadSound(work[t]) /\ LockSound(t) /\ work[t].key \in Keys
         /\ disk[work[t].key] \in [Files -> Int] /\ built[work[t].key] \in Nat
         /\ \A f \in Files : disk[work[t].key][f] \in {0, Damaged(f)} \union 1 .. built[work[t].key]
<1>1. work[t] \in Jobs /\ ReadSound(work[t]) /\ LockSound(t) /\ Typed /\ DiskSound
  BY DEF Inv, Typed
<1>2. work[t].key \in Keys
  BY <1>1 DEF ReadSound
<1> QED
  BY <1>1, <1>2, Zenon DEF Typed, DiskSound

LEMMA StartInv ==
  ASSUME Sized, Inv, NEW t \in Threads, NEW k \in Keys, NEW traced \in BOOLEAN, Start(t, k, traced)
  PROVE  Inv'
<1> DEFINE r == [Idle EXCEPT !.at = IF traced THEN "lock" ELSE "meta", !.key = k, !.traced = traced]
<1>1. r \in Jobs /\ r.at \in {"lock", "meta"} /\ r.key = k /\ r.locked = FALSE
  <2>1. Idle \in [at : {"idle"}, key : {Nobody}, traced : BOOLEAN, locked : {FALSE},
                  lease : BOOLEAN, parts : [Files -> Int]]
    BY DEF Idle, Absent
  <2>2. PICK a \in {"lock", "meta"} : a = IF traced THEN "lock" ELSE "meta"
    BY Zenon
  <2>3. r = [Idle EXCEPT !.at = a, !.key = k, !.traced = traced]
    BY <2>2, Zenon
  <2>4. a \in Stages
    BY DEF Stages, Reading
  <2> HIDE DEF r
  <2> QED
    BY Zenon, <2>1, <2>3, <2>4 DEF Jobs
<1>2. work' = [work EXCEPT ![t] = r] /\ UNCHANGED <<disk, sweep, built, flock>>
  BY DEF Start
<1> HIDE DEF r
<1>3. ReadSound(r)
  BY <1>1 DEF ReadSound
<1> QED
  BY <1>1, <1>2, <1>3, ThreadInv, Zenon DEF Inv, Typed, Writing

LEMMA ReadInv ==
  ASSUME Sized, Inv, NEW t \in Threads, ReadMeta(t) \/ ReadSum(t) \/ ReadBin(t) \/ ReadAux(t)
  PROVE  Inv'
<1>1. work[t].at \notin {"idle", "dead"} /\ UNCHANGED <<disk, sweep, built>>
  BY Zenon DEF ReadMeta, ReadSum, ReadBin, ReadAux
<1>2. /\ work[t] \in Jobs /\ ReadSound(work[t]) /\ LockSound(t) /\ work[t].key \in Keys
      /\ disk[work[t].key] \in [Files -> Int] /\ built[work[t].key] \in Nat
  BY <1>1, Busy, Zenon
<1>3. \A f \in Files : disk[work[t].key][f] \in {0, Damaged(f)} \union 1 .. built[work[t].key]
  BY <1>1, Busy, Zenon
<1>4. AfterMiss(t) \in {"index", "lock"} /\ (AfterMiss(t) = "index" => work[t].locked)
  BY Zenon DEF AfterMiss
<1>5. /\ work[t] \in Jobs /\ work[t].parts \in [Files -> Int] /\ work[t].locked \in BOOLEAN
      /\ Absent \in [Files -> Int]
  BY <1>2 DEF Jobs, Absent
<1>6. work[t].at \in Reading /\ work[t].locked => flock[work[t].key] = t
  BY <1>2, Zenon DEF LockSound
<1>7. flock \in [Keys -> Holders]
  BY Zenon DEF Inv, Typed
<1>8. CASE ReadMeta(t)
  <2>1. disk[work[t].key]["meta"] \in {0, Damaged("meta")} \union 1 .. built[work[t].key]
    BY <1>3, Zenon DEF Files
  <2>2. PICK g \in Int : g = disk[work[t].key]["meta"]
    BY <1>2, Zenon DEF Files
  <2>3. PICK p \in [Files -> Int] : p = [Absent EXCEPT !["meta"] = g]
    BY <1>5, <2>2, Zenon
  <2>4. PICK a \in Stages : a = IF g = 0 THEN AfterMiss(t) ELSE "sum"
    BY <1>4, Zenon DEF Stages, Ended, Reading, Writing
  <2>5. PICK r : r = [work[t] EXCEPT !.at = a, !.parts = p]
    BY Zenon
  <2>6. r \in Jobs /\ r.at = a /\ r.locked = work[t].locked /\ r.parts = p /\ r.key = work[t].key
    BY Zenon, <1>5, <2>3, <2>4, <2>5 DEF Jobs
  <2>7. work' = [work EXCEPT ![t] = r] /\ UNCHANGED flock
    BY <1>8, <2>2, <2>3, <2>4, <2>5, Zenon DEF ReadMeta
  <2>8. p["meta"] = g /\ g \in {0, -1} \union 1 .. built[work[t].key]
    BY <2>1, <2>2, <2>3 DEF Files, Absent, Damaged
  <2>9. ReadSound(r)
    BY <1>2, <1>4, <2>4, <2>6, <2>8 DEF ReadSound
  <2>10. r.at \in Writing \/ (r.at \in Reading /\ r.locked) => flock'[r.key] = t
    BY <1>4, <1>6, <1>8, <2>4, <2>6, <2>7 DEF ReadMeta, Reading, Writing
  <2> QED
    BY <1>1, <1>7, <2>6, <2>7, <2>9, <2>10, ThreadInv, Zenon
<1>9. CASE ReadSum(t)
  <2>1. disk[work[t].key]["sum"] \in {0, Damaged("sum")} \union 1 .. built[work[t].key]
    BY <1>3, Zenon DEF Files
  <2>2. PICK g \in Int : g = disk[work[t].key]["sum"]
    BY <1>2, Zenon DEF Files
  <2>3. PICK p \in [Files -> Int] : p = [work[t].parts EXCEPT !["sum"] = g]
    BY <1>5, <2>2, Zenon
  <2>4. PICK a \in Stages : a = IF Matches(t, "sum") THEN "bin" ELSE AfterMiss(t)
    BY <1>4, Zenon DEF Stages, Ended, Reading, Writing
  <2>5. PICK r : r = [work[t] EXCEPT !.at = a, !.parts = p]
    BY Zenon
  <2>6. r \in Jobs /\ r.at = a /\ r.locked = work[t].locked /\ r.parts = p /\ r.key = work[t].key
    BY Zenon, <1>5, <2>3, <2>4, <2>5 DEF Jobs
  <2>7. work' = [work EXCEPT ![t] = r] /\ UNCHANGED flock
    BY <1>9, <2>2, <2>3, <2>4, <2>5, Zenon DEF ReadSum
  <2>8. /\ p["meta"] = work[t].parts["meta"] /\ p["sum"] = g /\ g # -1
        /\ work[t].parts["meta"] \in {-1} \union 1 .. built[work[t].key]
        /\ a = "bin" => g = work[t].parts["meta"]
    <3>1. work[t].parts["meta"] \in {-1} \union 1 .. built[work[t].key]
      BY <1>2, <1>9, Zenon DEF ReadSound, ReadSum
    <3>2. a = "bin" => g = work[t].parts["meta"]
      BY <1>4, <2>2, <2>4 DEF Matches
    <3>3. g # -1
      BY <1>2, <2>1, <2>2 DEF Damaged
    <3> QED
      BY <1>5, <2>3, <3>1, <3>2, <3>3 DEF Files
  <2>9. ReadSound(r)
    BY <1>2, <1>4, <2>4, <2>6, <2>8 DEF ReadSound
  <2>10. r.at \in Writing \/ (r.at \in Reading /\ r.locked) => flock'[r.key] = t
    BY <1>4, <1>6, <1>9, <2>4, <2>6, <2>7 DEF ReadSum, Reading, Writing
  <2> QED
    BY <1>1, <1>7, <2>6, <2>7, <2>9, <2>10, ThreadInv, Zenon
<1>10. CASE ReadBin(t)
  <2>1. disk[work[t].key]["bin"] \in {0, Damaged("bin")} \union 1 .. built[work[t].key]
    BY <1>3, Zenon DEF Files
  <2>2. PICK g \in Int : g = disk[work[t].key]["bin"]
    BY <1>2, Zenon DEF Files
  <2>3. PICK p \in [Files -> Int] : p = [work[t].parts EXCEPT !["bin"] = g]
    BY <1>5, <2>2, Zenon
  <2>4. PICK a \in Stages : a = IF Matches(t, "bin") THEN "aux" ELSE AfterMiss(t)
    BY <1>4, Zenon DEF Stages, Ended, Reading, Writing
  <2>5. PICK r : r = [work[t] EXCEPT !.at = a, !.parts = p]
    BY Zenon
  <2>6. r \in Jobs /\ r.at = a /\ r.locked = work[t].locked /\ r.parts = p /\ r.key = work[t].key
    BY Zenon, <1>5, <2>3, <2>4, <2>5 DEF Jobs
  <2>7. work' = [work EXCEPT ![t] = r] /\ UNCHANGED flock
    BY <1>10, <2>2, <2>3, <2>4, <2>5, Zenon DEF ReadBin
  <2>8. /\ p["meta"] = work[t].parts["meta"] /\ p["sum"] = work[t].parts["meta"] /\ p["bin"] = g
        /\ work[t].parts["meta"] \in 1 .. built[work[t].key]
        /\ a = "aux" => g = work[t].parts["meta"]
    <3>1. /\ work[t].parts["meta"] \in 1 .. built[work[t].key]
          /\ work[t].parts["sum"] = work[t].parts["meta"]
      BY <1>2, <1>10, Zenon DEF ReadSound, ReadBin
    <3>2. a = "aux" => g = work[t].parts["meta"]
      BY <1>4, <2>2, <2>4 DEF Matches
    <3> QED
      BY <1>5, <2>3, <3>1, <3>2 DEF Files
  <2>9. ReadSound(r)
    BY <1>2, <1>4, <2>4, <2>6, <2>8 DEF ReadSound
  <2>10. r.at \in Writing \/ (r.at \in Reading /\ r.locked) => flock'[r.key] = t
    BY <1>4, <1>6, <1>10, <2>4, <2>6, <2>7 DEF ReadBin, Reading, Writing
  <2> QED
    BY <1>1, <1>7, <2>6, <2>7, <2>9, <2>10, ThreadInv, Zenon
<1>11. CASE ReadAux(t)
  <2>1. disk[work[t].key]["aux"] \in {0, Damaged("aux")} \union 1 .. built[work[t].key]
    BY <1>3, Zenon DEF Files
  <2>2. PICK g \in Int : g = disk[work[t].key]["aux"]
    BY <1>2, Zenon DEF Files
  <2>3. PICK p \in [Files -> Int] : p = [work[t].parts EXCEPT !["aux"] = g]
    BY <1>5, <2>2, Zenon
  <2>4. PICK a \in Stages : a = IF Matches(t, "aux") THEN "done" ELSE AfterMiss(t)
    BY <1>4, Zenon DEF Stages, Ended, Reading, Writing
  <2>12. PICK l \in BOOLEAN : l = (work[t].locked /\ ~Matches(t, "aux"))
    BY Zenon
  <2>5. PICK r : r = [work[t] EXCEPT !.at = a, !.locked = l, !.parts = p]
    BY Zenon
  <2>6. r \in Jobs /\ r.at = a /\ r.locked = l /\ r.parts = p /\ r.key = work[t].key
    BY Zenon, <1>5, <2>3, <2>4, <2>12, <2>5 DEF Jobs
  <2>7. work' = [work EXCEPT ![t] = r] /\ flock' = IF Matches(t, "aux") THEN Unlocked(t) ELSE flock
    BY <1>11, <2>2, <2>3, <2>4, <2>12, <2>5, Zenon DEF ReadAux
  <2>8. /\ p["meta"] = work[t].parts["meta"] /\ work[t].parts["meta"] \in 1 .. built[work[t].key]
        /\ a = "done" => p = Written(work[t].parts["meta"])
    <3>1. /\ work[t].parts["meta"] \in 1 .. built[work[t].key]
          /\ work[t].parts["sum"] = work[t].parts["meta"]
          /\ work[t].parts["bin"] = work[t].parts["meta"]
      BY <1>2, <1>11, Zenon DEF ReadSound, ReadAux
    <3>2. a = "done" => g = work[t].parts["meta"]
      BY <1>4, <2>2, <2>4 DEF Matches
    <3> QED
      BY <1>5, <2>3, <3>1, <3>2 DEF Files, Written
  <2>9. ReadSound(r)
    BY <1>2, <1>4, <2>4, <2>6, <2>8 DEF ReadSound
  <2>11. /\ flock' \in [Keys -> Holders]
         /\ \A k \in Keys : flock'[k] = flock[k] \/ flock[k] \in {t, Nobody}
    BY <1>7, <2>7 DEF Unlocked, Holders
  <2>10. r.at \in Writing \/ (r.at \in Reading /\ r.locked) => flock'[r.key] = t
    BY <1>4, <1>6, <1>11, <2>4, <2>12, <2>6, <2>7 DEF ReadAux, Reading, Writing
  <2> QED
    BY <1>1, <2>6, <2>7, <2>9, <2>10, <2>11, ThreadInv, Zenon
<1> QED
  BY <1>8, <1>9, <1>10, <1>11

\* Waiting for the lock, for the index and for a workspace.
LEMMA WaitInv ==
  ASSUME Sized, Inv, NEW t \in Threads, TakeLock(t) \/ Lease(t) \/ Index(t) \/ Indexed(t)
  PROVE  Inv'
<1>1. /\ work[t].at \in {"lock", "index_pool", "pool", "index", "indexing"}
      /\ UNCHANGED <<disk, sweep, built>>
  BY Zenon DEF TakeLock, Lease, Index, Indexed
<1>2. work[t] \in Jobs /\ ReadSound(work[t]) /\ LockSound(t) /\ work[t].key \in Keys
  BY <1>1, Busy, Zenon
<1>3. work[t] \in Jobs
  BY <1>2
<1>4. \E r \in Jobs : /\ work' = [work EXCEPT ![t] = r] /\ r.key = work[t].key
                      /\ r.at \in {"meta", "index", "index_pool", "indexing", "pool", "compile"}
  <2>1. CASE TakeLock(t)
    <3>1. PICK a \in {"index", "meta"} : a = IF work[t].traced THEN "index" ELSE "meta"
      BY Zenon
    <3>2. PICK r : r = [work[t] EXCEPT !.at = a, !.locked = TRUE]
      BY Zenon
    <3>3. r \in Jobs /\ r.at = a /\ r.key = work[t].key
      BY Zenon, <1>3, <3>2 DEF Jobs, Stages, Reading, Writing
    <3>4. work' = [work EXCEPT ![t] = r]
      BY <2>1, <3>1, <3>2, Zenon DEF TakeLock
    <3> QED
      BY <3>3, <3>4, Zenon
  <2>2. CASE Lease(t)
    <3>1. PICK a \in {"compile", "indexing"} : a = IF work[t].at = "pool" THEN "compile" ELSE "indexing"
      BY Zenon
    <3>2. PICK r : r = [work[t] EXCEPT !.at = a, !.lease = TRUE]
      BY Zenon
    <3>3. r \in Jobs /\ r.at = a /\ r.key = work[t].key
      BY Zenon, <1>3, <3>2 DEF Jobs, Stages, Writing
    <3>4. work' = [work EXCEPT ![t] = r] \/ work' = work
      BY <2>2, <3>1, <3>2, Zenon DEF Lease
    <3>5. work = [work EXCEPT ![t] = work[t]] /\ work[t].at \in {"index_pool", "pool"}
      BY <2>2 DEF Lease, Inv, Typed
    <3> QED
      BY <1>3, <3>3, <3>4, <3>5, Zenon
  <2>3. CASE Index(t)
    <3>1. PICK a \in {"pool", "index_pool", "indexing"} : work' = Goto(t, a)
      BY <2>3, Zenon DEF Index
    <3>2. PICK r : r = [work[t] EXCEPT !.at = a]
      BY Zenon
    <3>3. r \in Jobs /\ r.at = a /\ r.key = work[t].key
      BY <1>3, <3>2 DEF Jobs, Stages, Writing
    <3>4. work' = [work EXCEPT ![t] = r]
      BY <3>1, <3>2, Zenon DEF Goto
    <3> QED
      BY <3>3, <3>4, Zenon
  <2>4. CASE Indexed(t)
    <3>2. PICK r : r = [work[t] EXCEPT !.at = "pool", !.lease = FALSE]
      BY Zenon
    <3>3. r \in Jobs /\ r.at = "pool" /\ r.key = work[t].key
      BY Zenon, <1>3, <3>2 DEF Jobs, Stages, Writing
    <3>4. work' = [work EXCEPT ![t] = r]
      BY <2>4, <3>2, Zenon DEF Indexed
    <3> QED
      BY <3>3, <3>4, Zenon
  <2> QED
    BY <2>1, <2>2, <2>3, <2>4
<1>5. PICK r \in Jobs : /\ work' = [work EXCEPT ![t] = r] /\ r.key = work[t].key
                       /\ r.at \in {"meta", "index", "index_pool", "indexing", "pool", "compile"}
  BY Zenon, <1>4
<1>6. /\ flock' \in [Keys -> Holders]
      /\ \A k \in Keys : flock'[k] = flock[k] \/ flock[k] \in {t, Nobody}
      /\ flock'[work[t].key] = t
  <2>1. flock \in [Keys -> Holders]
    BY Zenon DEF Inv, Typed
  <2>2. CASE TakeLock(t)
    BY <1>2, <2>1, <2>2 DEF TakeLock, Holders
  <2>3. CASE ~TakeLock(t)
    <3>1. flock' = flock /\ work[t].at \in Writing
      BY <2>3, Zenon DEF Lease, Index, Indexed, Writing
    <3> QED
      BY <1>2, <2>1, <3>1, Zenon DEF LockSound
  <2> QED
    BY <2>2, <2>3
<1>7. ReadSound(r)
  BY <1>2, <1>5 DEF ReadSound
<1> QED
  BY <1>1, <1>5, <1>6, <1>7, ThreadInv, Zenon

\* Every error returned on the way.
LEMMA FailInv ==
  ASSUME Sized, Inv, NEW t \in Threads, NEW woken, Fails(t, woken),
         work[t].at \notin {"idle", "dead"}
  PROVE  Inv'
<1>1. work[t] \in Jobs /\ work[t].key \in Keys
  BY Busy, Zenon
<1>2. PICK r : r = [work[t] EXCEPT !.at = "failed", !.locked = FALSE, !.lease = FALSE]
  BY Zenon
<1>3. r \in Jobs /\ r.at = "failed" /\ r.key = work[t].key
  BY Zenon, <1>1, <1>2 DEF Jobs, Stages, Ended
<1>4. /\ work' = [work EXCEPT ![t] = r] /\ flock' = Unlocked(t)
      /\ UNCHANGED <<disk, sweep, built>>
  BY <1>2, Zenon DEF Fails
<1>5. /\ flock' \in [Keys -> Holders]
      /\ \A k \in Keys : flock'[k] = flock[k] \/ flock[k] \in {t, Nobody}
  BY <1>4 DEF Unlocked, Inv, Typed, Holders
<1>6. ReadSound(r) /\ r.at \notin Writing /\ r.at \notin Reading
  BY <1>1, <1>3 DEF ReadSound, Writing, Reading
<1> QED
  BY <1>3, <1>4, <1>5, <1>6, ThreadInv, Zenon

\* The entry that a compilation replaces goes file by file.
LEMMA RemoveInv ==
  ASSUME Sized, Inv, NEW t \in Threads, NEW f \in Files, RemoveFile(t, f)
  PROVE  Inv'
<1>1. /\ work[t].at = "remove" /\ UNCHANGED <<built, flock, sweep>>
      /\ disk' = [disk EXCEPT ![work[t].key][f] = 0]
      /\ work' = Goto(t, "publish") \/ work' = work
  BY Zenon DEF RemoveFile
<1>2. work[t] \in Jobs /\ ReadSound(work[t]) /\ LockSound(t) /\ work[t].key \in Keys
  BY <1>1, Busy, Zenon
<1>3. FilesLost
  BY <1>1, <1>2, OneFileLost, Zenon
<1>4. PICK r : r = [work[t] EXCEPT !.at = "publish"]
  BY Zenon
<1>5. r \in Jobs /\ r.at = "publish" /\ r.key = work[t].key /\ r.parts = work[t].parts
  BY <1>2, <1>4 DEF Jobs, Stages, Writing
<1>6. work' = [work EXCEPT ![t] = r] \/ work' = [work EXCEPT ![t] = work[t]]
  <2>1. work = [work EXCEPT ![t] = work[t]]
    BY DEF Inv, Typed
  <2> QED
    BY <1>1, <1>4, <2>1, Zenon DEF Goto
<1>7. flock' \in [Keys -> Holders] /\ flock'[work[t].key] = t
  BY <1>1, <1>2 DEF Inv, Typed, LockSound, Writing
<1>8. ReadSound(r)
  BY <1>1, <1>2, <1>5 DEF ReadSound
<1> QED
  BY <1>1, <1>2, <1>3, <1>5, <1>6, <1>7, <1>8, MoveInv, Zenon

\* A compilation writes the next generation of its key, which nobody else can be
\* about to publish.
LEMMA CompileInv ==
  ASSUME Sized, Inv, NEW t \in Threads, Compile(t)
  PROVE  Inv'
<1>1. work[t].at = "compile" /\ UNCHANGED <<disk, flock, sweep>>
  BY Zenon DEF Compile
<1>2. /\ work[t] \in Jobs /\ ReadSound(work[t]) /\ LockSound(t) /\ work[t].key \in Keys
      /\ built[work[t].key] \in Nat
  BY <1>1, Busy, Zenon
<1>3. PICK k \in Keys, g \in Nat : k = work[t].key /\ g = built[k] + 1
  BY <1>2
<1>4. PICK a \in {"remove", "publish"} : a = IF Present(k) # {} THEN "remove" ELSE "publish"
  BY Zenon
<1>5. PICK r : r = [work[t] EXCEPT !.lease = FALSE, !.parts = Written(g), !.at = a]
  BY Zenon
<1>6. r \in Jobs /\ r.at = a /\ r.key = k /\ r.parts = Written(g)
  <2>0. Written(g) \in [Files -> Int]
    BY DEF Written
  <2>1. PICK p \in [Files -> Int] : p = Written(g)
    BY <2>0, Zenon
  <2>2. r = [work[t] EXCEPT !.lease = FALSE, !.parts = p, !.at = a] /\ work[t] \in Jobs
    BY <1>2, <1>5, <2>1, Zenon
  <2> QED
    BY Zenon, <1>3, <2>1, <2>2 DEF Jobs, Stages, Writing
<1>7. work' = [work EXCEPT ![t] = r] /\ built' = [built EXCEPT ![k] = g]
  BY <1>3, <1>4, <1>5, Zenon DEF Compile
<1>8. /\ work' \in [Threads -> Jobs] /\ work'[t] = r
      /\ \A u \in Threads \ {t} : work'[u] = work[u]
  BY <1>6, <1>7 DEF Inv, Typed
<1>9. /\ built' \in [Keys -> Nat] /\ built'[k] = g /\ g > 0
      /\ \A j \in Keys : built[j] \in Nat /\ built'[j] \in Nat /\ built[j] <= built'[j]
      /\ \A j \in Keys \ {k} : built'[j] = built[j]
  BY <1>3, <1>7 DEF Inv, Typed
<1>10. Typed'
  BY <1>1, <1>8, <1>9, Zenon DEF Inv, Typed
<1>11. DiskSound'
  <2> SUFFICES ASSUME NEW j \in Keys, NEW f \in Files
               PROVE  disk[j][f] \in {0, Damaged(f)} \union 1 .. built'[j]
    BY <1>1, Zenon DEF DiskSound
  <2>1. disk[j][f] \in {0, Damaged(f)} \union 1 .. built[j]
    BY Zenon DEF Inv, DiskSound
  <2> QED
    BY <1>9, <2>1
<1>12. ASSUME NEW u \in Threads PROVE ReadSound(work[u])' /\ LockSound(u)'
  <2>1. CASE u = t
    <3>1. LockSound(u)'
      BY <1>1, <1>2, <1>3, <1>6, <1>8, <2>1 DEF LockSound, Writing
    <3>2. ReadSound(work[u])'
      BY <1>6, <1>8, <1>9, <2>1 DEF ReadSound
    <3> QED
      BY <3>1, <3>2
  <2>2. CASE u # t
    <3>1. work'[u] = work[u] /\ ReadSound(work[u]) /\ LockSound(u)
      BY <1>8, <2>2, Zenon DEF Inv
    <3>2. LockSound(u)'
      BY <1>1, <3>1, Zenon DEF LockSound
    <3>3. work[u].at \in {"remove", "publish"} => work[u].key # k
      BY <1>1, <1>2, <1>3, <2>2, <3>1 DEF LockSound, Writing
    <3>4. ReadSound(work[u])'
      BY <1>9, <3>1, <3>3 DEF ReadSound
    <3> QED
      BY <3>2, <3>4
  <2> QED
    BY <2>1, <2>2
<1>13. \A c \in Collectors : SweepSound(c)'
  BY <1>1, Zenon DEF Inv, SweepSound
<1> QED
  BY <1>10, <1>11, <1>12, <1>13, Zenon DEF Inv

\* The rename puts the latest generation in place, under the lock.
LEMMA PublishInv ==
  ASSUME Sized, Inv, NEW t \in Threads, Publish(t)
  PROVE  Inv'
<1>1. work[t].at = "publish" /\ UNCHANGED <<built, sweep>> /\ flock' = Unlocked(t)
  BY Zenon DEF Publish
<1>2. /\ work[t] \in Jobs /\ ReadSound(work[t]) /\ LockSound(t) /\ work[t].key \in Keys
      /\ built[work[t].key] \in Nat
  BY <1>1, Busy, Zenon
<1>3. PICK k \in Keys, n \in Nat : k = work[t].key /\ n = built[k]
  BY <1>2
<1>4. n > 0 /\ work[t].parts = Written(n) /\ flock[k] = t /\ Written(n) \in [Files -> Int]
  BY <1>1, <1>2, <1>3 DEF ReadSound, LockSound, Writing, Written
<1>5. disk' = [disk EXCEPT ![k] = Written(n)]
  BY <1>3, <1>4, Zenon DEF Publish
<1>6. PICK r : r = [work[t] EXCEPT !.at = "done", !.locked = FALSE]
  BY Zenon
<1>7. r \in Jobs /\ r.at = "done" /\ r.key = k /\ r.parts = Written(n)
  BY Zenon, <1>2, <1>3, <1>4, <1>6 DEF Jobs, Stages, Ended
<1>8. work' = [work EXCEPT ![t] = r]
  BY <1>6, Zenon DEF Publish
<1>9. /\ work' \in [Threads -> Jobs] /\ work'[t] = r
      /\ \A u \in Threads \ {t} : work'[u] = work[u]
  BY <1>7, <1>8 DEF Inv, Typed
<1>10. /\ disk' \in [Keys -> [Files -> Int]] /\ disk'[k] = Written(n)
       /\ \A j \in Keys \ {k} : disk'[j] = disk[j]
  BY <1>4, <1>5 DEF Inv, Typed
<1>11. /\ flock' \in [Keys -> Holders]
       /\ \A j \in Keys : flock[j] # t => flock'[j] = flock[j]
  BY <1>1 DEF Unlocked, Inv, Typed, Holders
<1>12. Typed'
  BY <1>1, <1>9, <1>10, <1>11, Zenon DEF Inv, Typed
<1>13. DiskSound'
  <2> SUFFICES ASSUME NEW j \in Keys, NEW f \in Files
               PROVE  disk'[j][f] \in {0, Damaged(f)} \union 1 .. built[j]
    BY <1>1, Zenon DEF DiskSound
  <2>1. disk[j][f] \in {0, Damaged(f)} \union 1 .. built[j]
    BY Zenon DEF Inv, DiskSound
  <2>2. Written(n)[f] = n /\ n \in 1 .. n
    BY <1>4 DEF Written
  <2> QED
    BY <1>3, <1>10, <2>1, <2>2, Zenon
<1>14. ASSUME NEW u \in Threads PROVE ReadSound(work[u])' /\ LockSound(u)'
  <2>1. CASE u = t
    <3>1. LockSound(u)'
      BY <1>7, <1>9, <2>1 DEF LockSound, Writing, Reading
    <3>2. Written(n)["meta"] = n
      BY DEF Written, Files
    <3>3. ReadSound(work[u])'
      BY <1>1, <1>3, <1>4, <1>7, <1>9, <2>1, <3>2 DEF ReadSound
    <3> QED
      BY <3>1, <3>3
  <2>2. CASE u # t
    <3>1. work'[u] = work[u] /\ ReadSound(work[u]) /\ LockSound(u)
      BY <1>9, <2>2, Zenon DEF Inv
    <3>2. ReadSound(work[u])'
      BY <1>1, <3>1, Zenon DEF ReadSound
    <3>3. work[u].at \in Writing \/ work[u].at \in Reading => work[u].key \in Keys
      BY <3>1 DEF ReadSound, Reading, Writing
    <3>4. LockSound(u)'
      BY <1>11, <2>2, <3>1, <3>3, Zenon DEF LockSound
    <3> QED
      BY <3>2, <3>4
  <2> QED
    BY <2>1, <2>2
<1>15. ASSUME NEW c \in Collectors PROVE SweepSound(c)'
  <2>1. SweepSound(c) /\ c # t /\ c # Nobody
    BY Zenon DEF Inv, Sized
  <2>2. sweep[c].at \in {"look", "remove"} => sweep[c].key \in Keys \ {k}
    BY <1>4, <2>1 DEF SweepSound
  <2> QED
    BY <1>1, <1>10, <1>11, <2>1, <2>2 DEF SweepSound
<1> QED
  BY <1>12, <1>13, <1>14, <1>15, Zenon DEF Inv

-----------------------------------------------------------------------------
\* A step of one collector, which writes no file and changes no lock but its own.
LEMMA SweepInv ==
  ASSUME Sized, Inv, NEW c \in Collectors, NEW r \in Sweeps,
         sweep' = [sweep EXCEPT ![c] = r], FilesLost, UNCHANGED <<work, built>>,
         flock' \in [Keys -> Holders],
         \A k \in Keys : flock'[k] = flock[k] \/ flock[k] \in {c, Nobody},
         r.at \notin {"idle", "dead"} => r.key \in Keys,
         r.at \in {"look", "remove"} => flock'[r.key] = c,
         r.at = "remove" =>
           \A f \in Files : disk'[r.key][f] \in {0, r.looked[f]} \union (-4 .. -1)
  PROVE  Inv'
<1>1. /\ sweep' \in [Collectors -> Sweeps] /\ sweep'[c] = r
      /\ \A d \in Collectors \ {c} : sweep'[d] = sweep[d]
  BY DEF Inv, Typed
<1>2. Typed' /\ DiskSound'
  BY <1>1, FilesInv, Zenon DEF Inv, Typed, FilesLost
<1>3. ASSUME NEW t \in Threads PROVE ReadSound(work[t])' /\ LockSound(t)'
  <2>1. ReadSound(work[t]) /\ LockSound(t) /\ t # c /\ t # Nobody
    BY Zenon DEF Inv, Sized
  <2>2. ReadSound(work[t])'
    BY <2>1, Zenon DEF ReadSound
  <2>3. work[t].at \in Writing \/ work[t].at \in Reading => work[t].key \in Keys
    BY <2>1 DEF ReadSound, Reading, Writing
  <2>4. LockSound(t)'
    BY <2>1, <2>3, Zenon DEF LockSound
  <2> QED
    BY <2>2, <2>4
<1>4. ASSUME NEW d \in Collectors PROVE SweepSound(d)'
  <2>1. CASE d = c
    BY <1>1, <2>1, Zenon DEF SweepSound
  <2>2. CASE d # c
    <3>1. SweepSound(d) /\ d # Nobody /\ sweep[d] \in Sweeps /\ sweep'[d] = sweep[d]
      BY <1>1, <2>2, Zenon DEF Inv, Typed, Sized
    <3>2. sweep[d].looked \in [Files -> Int]
      BY <3>1 DEF Sweeps
    <3>3. sweep[d].at = "remove" => sweep[d].key \in Keys
      BY <3>1 DEF SweepSound
    <3>4. sweep[d].at = "remove" =>
            \A f \in Files : disk'[sweep[d].key][f] \in {0, sweep[d].looked[f]} \union (-4 .. -1)
      BY <3>1, <3>2, <3>3, FilesInv, Zenon DEF SweepSound
    <3>5. sweep[d].at \in {"look", "remove"} => flock'[sweep[d].key] = d
      BY <2>2, <3>1 DEF SweepSound
    <3> QED
      BY <3>1, <3>4, <3>5, Zenon DEF SweepSound
  <2> QED
    BY <2>1, <2>2
<1> QED
  BY <1>2, <1>3, <1>4, Zenon DEF Inv

LEMMA CollectInv ==
  ASSUME Sized, Inv, NEW c \in Collectors,
         \/ \E k \in Keys : CollectStart(c, k)
         \/ CollectLock(c) \/ CollectLook(c) \/ \E f \in Files : CollectRemove(c, f)
  PROVE  Inv'
<1>1. /\ sweep[c] \in Sweeps /\ SweepSound(c) /\ flock \in [Keys -> Holders]
      /\ sweep = [sweep EXCEPT ![c] = sweep[c]] /\ disk \in [Keys -> [Files -> Int]]
  BY DEF Inv, Typed
<1>2. UNCHANGED <<work, built>>
  BY Zenon DEF CollectStart, CollectLock, CollectLook, CollectRemove
<1>3. CASE \E k \in Keys : CollectStart(c, k)
  <2>1. PICK k \in Keys : CollectStart(c, k)
    BY <1>3
  <2>0. [at |-> "lock", key |-> k, looked |-> Absent] \in Sweeps
    BY DEF Sweeps, Absent
  <2>2. PICK r \in Sweeps : r = [at |-> "lock", key |-> k, looked |-> Absent]
    BY <2>0, Zenon
  <2>3. sweep' = [sweep EXCEPT ![c] = r] /\ UNCHANGED <<disk, flock>>
    BY <2>1, <2>2, Zenon DEF CollectStart
  <2>4. r.at = "lock" /\ r.key = k
    BY <2>2
  <2> QED
    BY <1>1, <1>2, <2>3, <2>4, FilesSame, SweepInv, Zenon
<1>4. CASE CollectLock(c)
  <2>1. PICK r : r = [sweep[c] EXCEPT !.at = "look"]
    BY Zenon
  <2>2. r \in Sweeps /\ r.at = "look" /\ r.key = sweep[c].key
    BY <1>1, <2>1 DEF Sweeps
  <2>3. /\ sweep' = [sweep EXCEPT ![c] = r] /\ UNCHANGED disk /\ flock[r.key] = Nobody
        /\ flock' = [flock EXCEPT ![r.key] = c] /\ sweep[c].at = "lock"
    BY <1>4, <2>1, <2>2, Zenon DEF CollectLock
  <2>4. r.key \in Keys
    BY <1>1, <2>2, <2>3 DEF SweepSound
  <2>5. /\ flock' \in [Keys -> Holders] /\ flock'[r.key] = c
        /\ \A k \in Keys : flock'[k] = flock[k] \/ flock[k] \in {c, Nobody}
    BY <1>1, <2>3, <2>4 DEF Holders
  <2> QED
    BY <1>2, <2>2, <2>3, <2>4, <2>5, FilesSame, SweepInv, Zenon
<1>5. CASE CollectLook(c)
  <2>1. /\ sweep[c].at = "look" /\ sweep[c].key \in Keys /\ flock[sweep[c].key] = c
        /\ UNCHANGED disk
    BY <1>1, <1>5 DEF CollectLook, SweepSound
  <2>2. CASE Kept(c)
    <3>1. PICK r : r = [sweep[c] EXCEPT !.at = "idle"]
      BY Zenon
    <3>2. r \in Sweeps /\ r.at = "idle"
      BY <1>1, <3>1 DEF Sweeps
    <3>3. sweep' = [sweep EXCEPT ![c] = r] /\ flock' = Unlocked(c)
      BY <1>5, <2>2, <3>1, Zenon DEF CollectLook
    <3>4. /\ flock' \in [Keys -> Holders]
          /\ \A k \in Keys : flock'[k] = flock[k] \/ flock[k] \in {c, Nobody}
      BY <1>1, <3>3 DEF Unlocked, Holders
    <3> QED
      BY <1>2, <2>1, <3>2, <3>3, <3>4, FilesSame, SweepInv, Zenon
  <2>3. CASE ~Kept(c)
    <3>1. PICK l \in [Files -> Int] : l = disk[sweep[c].key]
      BY <1>1, <2>1
    <3>2. PICK r : r = [sweep[c] EXCEPT !.at = "remove", !.looked = l]
      BY Zenon
    <3>3. r \in Sweeps /\ r.at = "remove" /\ r.key = sweep[c].key /\ r.looked = l
      BY Zenon, <1>1, <3>2 DEF Sweeps
    <3>4. sweep' = [sweep EXCEPT ![c] = r] /\ UNCHANGED flock
      BY <1>5, <2>3, <3>1, <3>2, Zenon DEF CollectLook
    <3>5. \A f \in Files : disk'[r.key][f] \in {0, r.looked[f]} \union (-4 .. -1)
      BY <2>1, <3>1, <3>3, Zenon
    <3> QED
      BY <1>1, <1>2, <2>1, <3>3, <3>4, <3>5, FilesSame, SweepInv, Zenon
  <2> QED
    BY <2>2, <2>3
<1>6. CASE \E f \in Files : CollectRemove(c, f)
  <2>1. PICK f \in Files : CollectRemove(c, f)
    BY <1>6
  <2>2. PICK k \in Keys : k = sweep[c].key
    BY <1>1, <2>1 DEF CollectRemove, SweepSound
  <2>3. /\ sweep[c].at = "remove" /\ flock[k] = c /\ disk' = [disk EXCEPT ![k][f] = 0]
        /\ \A g \in Files : disk[k][g] \in {0, sweep[c].looked[g]} \union (-4 .. -1)
    BY <1>1, <2>1, <2>2 DEF CollectRemove, SweepSound
  <2>4. FilesLost
    BY <2>3, OneFileLost, Zenon
  <2>5. sweep[c].looked \in [Files -> Int]
    BY <1>1 DEF Sweeps
  <2>6. \A g \in Files : disk'[k][g] \in {0, sweep[c].looked[g]} \union (-4 .. -1)
    BY <1>2, <2>3, <2>4, <2>5, FilesInv, Zenon
  <2>7. CASE sweep' = sweep /\ flock' = flock
    BY <1>1, <1>2, <2>2, <2>3, <2>4, <2>6, <2>7, SweepInv, Zenon
  <2>8. CASE sweep' # sweep \/ flock' # flock
    <3>1. PICK r : r = [sweep[c] EXCEPT !.at = "idle"]
      BY Zenon
    <3>2. r \in Sweeps /\ r.at = "idle"
      BY <1>1, <3>1 DEF Sweeps
    <3>3. sweep' = [sweep EXCEPT ![c] = r] /\ flock' = Unlocked(c)
      BY <2>1, <2>8, <3>1, Zenon DEF CollectRemove
    <3>4. /\ flock' \in [Keys -> Holders]
          /\ \A j \in Keys : flock'[j] = flock[j] \/ flock[j] \in {c, Nobody}
      BY <1>1, <3>3 DEF Unlocked, Holders
    <3> QED
      BY <1>2, <2>4, <3>2, <3>3, <3>4, SweepInv, Zenon
  <2> QED
    BY <2>7, <2>8
<1> QED
  BY <1>3, <1>4, <1>5, <1>6

-----------------------------------------------------------------------------
LEMMA DamageInv ==
  ASSUME Sized, Inv, NEW k \in Keys, NEW f \in Files, Damage(k, f)
  PROVE  Inv'
<1>1. UNCHANGED <<work, built, flock, sweep>> /\ disk' = [disk EXCEPT ![k][f] = Damaged(f)]
  BY Zenon DEF Damage, Damaged
<1>2. FilesLost
  BY <1>1, OneFileLost, Zenon
<1>3. Typed' /\ DiskSound'
  BY <1>1, <1>2, FilesInv, Zenon DEF Inv, Typed, FilesLost
<1>4. \A t \in Threads : ReadSound(work[t])' /\ LockSound(t)'
  BY <1>1, Zenon DEF Inv, ReadSound, LockSound
<1>5. ASSUME NEW c \in Collectors PROVE SweepSound(c)'
  <2>1. SweepSound(c) /\ sweep[c] \in Sweeps
    BY Zenon DEF Inv, Typed
  <2>2. sweep[c].looked \in [Files -> Int]
    BY <2>1 DEF Sweeps
  <2>3. sweep[c].at = "remove" => sweep[c].key \in Keys
    BY <2>1 DEF SweepSound
  <2> QED
    BY <1>1, <1>2, <2>1, <2>2, <2>3, FilesInv, Zenon DEF SweepSound
<1> QED
  BY <1>3, <1>4, <1>5, Zenon DEF Inv

\* A killed process keeps nothing: its locks are free and nobody of it goes on.
LEMMA KillInv ==
  ASSUME Sized, Inv, NEW p \in Processes, Kill(p)
  PROVE  Inv'
<1>1. UNCHANGED <<disk, built>>
  BY Zenon DEF Kill
<1>2. ASSUME NEW t \in Threads
      PROVE  /\ work'[t] \in Jobs
             /\ \/ Process(t) # p /\ work'[t] = work[t]
                \/ work'[t].at = "dead"
  <2>1. work[t] \in Jobs
    BY Zenon DEF Inv, Typed
  <2>2. PICK r : r = [work[t] EXCEPT !.at = "dead"]
    BY Zenon
  <2>3. r \in Jobs /\ r.at = "dead"
    BY <2>1, <2>2 DEF Jobs, Stages, Ended
  <2>4. work'[t] = IF Process(t) = p THEN r ELSE work[t]
    BY <2>2, Zenon DEF Kill
  <2> QED
    BY <2>1, <2>3, <2>4, Zenon
<1>3. ASSUME NEW c \in Collectors
      PROVE  /\ sweep'[c] \in Sweeps
             /\ \/ Process(c) # p /\ sweep'[c] = sweep[c]
                \/ sweep'[c].at = "dead"
  <2>1. sweep[c] \in Sweeps
    BY Zenon DEF Inv, Typed
  <2>2. PICK r : r = [sweep[c] EXCEPT !.at = "dead"]
    BY Zenon
  <2>3. r \in Sweeps /\ r.at = "dead"
    BY <2>1, <2>2 DEF Sweeps
  <2>4. sweep'[c] = IF Process(c) = p THEN r ELSE sweep[c]
    BY <2>2, Zenon DEF Kill
  <2> QED
    BY <2>1, <2>3, <2>4, Zenon
<1>4. /\ flock' \in [Keys -> Holders]
      /\ \A k \in Keys : flock[k] # Nobody /\ Process(flock[k]) # p => flock'[k] = flock[k]
  BY DEF Kill, Inv, Typed, Holders
<1>5. work' \in [Threads -> Jobs] /\ sweep' \in [Collectors -> Sweeps]
  <2>1. DOMAIN work' = Threads /\ DOMAIN sweep' = Collectors
        /\ work' = [t \in Threads |-> work'[t]] /\ sweep' = [c \in Collectors |-> sweep'[c]]
    BY DEF Kill
  <2> QED
    BY <1>2, <1>3, <2>1, Zenon
<1>6. Typed' /\ DiskSound'
  BY <1>1, <1>4, <1>5, Zenon DEF Inv, Typed, DiskSound
<1>7. ASSUME NEW t \in Threads PROVE ReadSound(work[t])' /\ LockSound(t)'
  <2>1. ReadSound(work[t]) /\ LockSound(t) /\ t # Nobody
    BY Zenon DEF Inv, Sized
  <2>2. CASE work'[t].at = "dead"
    BY <2>2 DEF ReadSound, LockSound, Reading, Writing
  <2>3. CASE Process(t) # p /\ work'[t] = work[t]
    <3>1. ReadSound(work[t])'
      BY <1>1, <2>1, <2>3, Zenon DEF ReadSound
    <3>2. work[t].at \in Writing \/ work[t].at \in Reading => work[t].key \in Keys
      BY <2>1 DEF ReadSound, Reading, Writing
    <3>3. LockSound(t)'
      BY <1>4, <2>1, <2>3, <3>2, Zenon DEF LockSound
    <3> QED
      BY <3>1, <3>3
  <2> QED
    BY <1>2, <2>2, <2>3
<1>8. ASSUME NEW c \in Collectors PROVE SweepSound(c)'
  <2>1. SweepSound(c) /\ c # Nobody
    BY Zenon DEF Inv, Sized
  <2>2. CASE sweep'[c].at = "dead"
    BY <2>2 DEF SweepSound
  <2>3. CASE Process(c) # p /\ sweep'[c] = sweep[c]
    BY <1>1, <1>4, <2>1, <2>3 DEF SweepSound
  <2> QED
    BY <1>3, <2>2, <2>3
<1> QED
  BY <1>6, <1>7, <1>8, Zenon DEF Inv

LEMMA QuietInv == ASSUME Inv, UNCHANGED <<work, disk, built, flock, sweep>> PROVE Inv'
  BY Zenon DEF Inv, Typed, DiskSound, ReadSound, LockSound, SweepSound

LEMMA StepInv == ASSUME Sized, Inv, [Next]_vars PROVE Inv'
<1>1. ASSUME NEW t \in Threads, Step(t) PROVE Inv'
  <2>1. CASE \/ LockFails(t) \/ LeaseFails(t) \/ IndexFails(t) \/ CompileFails(t)
             \/ RemoveFails(t) \/ PublishFails(t)
    <3>1. PICK woken : Fails(t, woken) /\ work[t].at \notin {"idle", "dead"}
      BY <2>1, Zenon DEF LockFails, LeaseFails, IndexFails, CompileFails, RemoveFails, PublishFails
    <3> QED
      BY <3>1, FailInv, Zenon
  <2> QED
    BY <1>1, <2>1, ReadInv, WaitInv, CompileInv, RemoveInv, PublishInv, Zenon DEF Step
<1>2. CASE UNCHANGED vars
  BY <1>2, QuietInv, Zenon DEF vars
<1> QED
  BY <1>1, <1>2, StartInv, CollectInv, DamageInv, KillInv, Zenon DEF Next, Collect

\* "Compile in process or return verified cached bytes" (loom.rs:859): whatever is
\* replaced, collected, half removed, damaged or killed during the four reads, a
\* returned artifact is that of one compilation of its key.
THEOREM CompilesWhole == ASSUME Sized PROVE Spec => []ArtifactsWhole
<1>1. Sized /\ Init => Inv
  BY InvInit
<1>2. Sized /\ Inv /\ [Next]_vars => Inv'
  BY StepInv
<1>3. Inv => ArtifactsWhole
  <2> SUFFICES ASSUME Inv, NEW t \in Threads, work[t].at = "done"
               PROVE  \E g \in 1 .. built[work[t].key] : work[t].parts = Written(g)
    BY Zenon DEF ArtifactsWhole
  <2> QED
    BY Zenon DEF Inv, ReadSound
<1> QED
  BY <1>1, <1>2, <1>3, PTL DEF Spec

\* The four steps that change a file.
LEMMA FileSteps ==
  ASSUME [Next]_vars, disk' # disk
  PROVE  \/ \E t \in Threads : Publish(t) \/ \E f \in Files : RemoveFile(t, f)
         \/ \E c \in Collectors, f \in Files : CollectRemove(c, f)
         \/ \E k \in Keys, f \in Files : Damage(k, f)
<1>1. ASSUME NEW t \in Threads, Step(t)
      PROVE  Publish(t) \/ \E f \in Files : RemoveFile(t, f)
  <2>1. ~(\E woken : Fails(t, woken))
    BY Zenon DEF Fails
  <2>2. ~(\/ LockFails(t) \/ LeaseFails(t) \/ IndexFails(t) \/ CompileFails(t)
          \/ RemoveFails(t) \/ PublishFails(t))
    BY <2>1, Zenon DEF LockFails, LeaseFails, IndexFails, CompileFails, RemoveFails, PublishFails
  <2>3. ~(\/ ReadMeta(t) \/ ReadSum(t) \/ ReadBin(t) \/ ReadAux(t) \/ TakeLock(t) \/ Lease(t)
          \/ Index(t) \/ Indexed(t) \/ Compile(t))
    BY Zenon DEF ReadMeta, ReadSum, ReadBin, ReadAux, TakeLock, Lease, Index, Indexed, Compile
  <2> QED
    BY <1>1, <2>2, <2>3, Zenon DEF Step
<1>2. ~UNCHANGED vars
  BY Zenon DEF vars
<1>3. \A t \in Threads, k \in Keys, traced \in BOOLEAN : ~Start(t, k, traced)
  BY Zenon DEF Start
<1>4. \A c \in Collectors : ~CollectLock(c) /\ ~CollectLook(c) /\ \A k \in Keys : ~CollectStart(c, k)
  BY Zenon DEF CollectLock, CollectLook, CollectStart
<1>5. \A p \in Processes : ~Kill(p)
  BY Zenon DEF Kill
<1> QED
  BY <1>1, <1>2, <1>3, <1>4, <1>5, Zenon DEF Next, Collect

\* A sweep that removes has found no file accessed since its cutoff.
UsedSound ==
  /\ used \in [Collectors -> SUBSET Files]
  /\ \A c \in Collectors : sweep[c].at = "remove" => used[c] \cap Present(sweep[c].key) = {}

\* A sweep starts to remove by its look, and goes on with what it has seen.
LEMMA SweepSteps ==
  ASSUME Inv, UsedSound, [Next]_vars, NEW c \in Collectors, sweep'[c].at = "remove"
  PROVE  \/ /\ sweep[c].at = "remove" /\ sweep'[c] = sweep[c] /\ used'[c] = used[c]
         \/ /\ sweep'[c].key = sweep[c].key /\ ~Kept(c) /\ UNCHANGED <<used, disk>>
<1>0. sweep \in [Collectors -> Sweeps] /\ used \in [Collectors -> SUBSET Files]
  BY Zenon DEF Inv, Typed, UsedSound
<1>1. ASSUME NEW t \in Threads, Step(t) PROVE sweep' = sweep /\ (used' = used \/ \E k, x : used' = Accessed(k, x))
  BY <1>1, Zenon DEF Step, ReadMeta, ReadSum, ReadBin, ReadAux, TakeLock, Lease, Index, Indexed,
     Compile, RemoveFile, Publish, Fails, LockFails, LeaseFails, IndexFails, CompileFails,
     RemoveFails, PublishFails
<1>2. ASSUME sweep' = sweep, used' = used \/ \E k, x : used' = Accessed(k, x)
      PROVE  sweep[c].at = "remove" /\ sweep'[c] = sweep[c] /\ used'[c] = used[c]
  BY <1>2 DEF Accessed
<1>3. ASSUME NEW p \in Processes, Kill(p)
      PROVE  sweep[c].at = "remove" /\ sweep'[c] = sweep[c] /\ used'[c] = used[c]
  <2>1. sweep'[c] = IF Process(c) = p THEN [sweep[c] EXCEPT !.at = "dead"] ELSE sweep[c]
    BY <1>3, Zenon DEF Kill
  <2>2. [sweep[c] EXCEPT !.at = "dead"].at = "dead"
    BY <1>0 DEF Sweeps
  <2> QED
    BY <1>3, <2>1, <2>2 DEF Kill
<1>4. ASSUME NEW d \in Collectors, Collect(d) \/ \E k \in Keys : CollectStart(d, k)
      PROVE  \/ sweep[c].at = "remove" /\ sweep'[c] = sweep[c] /\ used'[c] = used[c]
             \/ sweep'[c].key = sweep[c].key /\ ~Kept(c) /\ UNCHANGED <<used, disk>>
  <2>1. CASE d # c
    BY <1>0, <1>4, <2>1 DEF Collect, CollectStart, CollectLock, CollectLook, CollectRemove
  <2>2. CASE d = c /\ \E k \in Keys : CollectStart(d, k)
    BY <1>0, <2>2 DEF CollectStart
  <2>3. CASE d = c /\ CollectLock(d)
    BY <1>0, <2>3 DEF CollectLock, Sweeps
  <2>4. CASE d = c /\ CollectLook(d)
    BY <1>0, <2>4 DEF CollectLook, Sweeps
  <2>5. CASE d = c /\ \E f \in Files : CollectRemove(d, f)
    BY <1>0, <2>5 DEF CollectRemove, Sweeps
  <2> QED
    BY <1>4, <2>1, <2>2, <2>3, <2>4, <2>5, Zenon DEF Collect
<1>5. ASSUME NEW t \in Threads, NEW k \in Keys, NEW traced \in BOOLEAN, Start(t, k, traced)
      PROVE  sweep' = sweep /\ used' = used
  BY <1>5, Zenon DEF Start
<1>6. ASSUME NEW k \in Keys, NEW f \in Files, Damage(k, f) PROVE sweep' = sweep /\ used' = used
  BY <1>6, Zenon DEF Damage
<1>7. CASE UNCHANGED vars
  BY <1>2, <1>7, Zenon DEF vars
<1> QED
  BY <1>1, <1>2, <1>3, <1>4, <1>5, <1>6, <1>7, Zenon DEF Next

\* While a sweep removes an entry nobody adds a file to it.
LEMMA SweptShrinks ==
  ASSUME Sized, Inv, [Next]_vars, NEW c \in Collectors, sweep[c].at = "remove",
         NEW f \in Files, disk[sweep[c].key][f] = 0
  PROVE  disk'[sweep[c].key][f] = 0
<1>1. PICK k \in Keys : k = sweep[c].key /\ flock[k] = c
  BY DEF Inv, SweepSound
<1>2. disk \in [Keys -> [Files -> Int]] /\ disk[k][f] = 0
  BY <1>1, Zenon DEF Inv, Typed
<1>3. ASSUME NEW t \in Threads, Publish(t) PROVE disk'[k][f] = 0
  <2>1. work[t].at = "publish" /\ disk' = [disk EXCEPT ![work[t].key] = work[t].parts]
    BY <1>3, Zenon DEF Publish
  <2>2. work[t].key # k
    BY <1>1, <2>1, Busy DEF LockSound, Writing, Sized
  <2> QED
    BY <1>2, <2>1, <2>2
<1>4. ASSUME NEW j, NEW g, disk' = [disk EXCEPT ![j][g] = 0] PROVE disk'[k][f] = 0
  BY <1>2, <1>4
<1>5. ASSUME NEW j \in Keys, NEW g \in Files, Damage(j, g) PROVE disk'[k][f] = 0
  <2>1. disk[j][g] # 0 /\ disk' = [disk EXCEPT ![j][g] = Damaged(g)]
    BY <1>5 DEF Damage, Damaged
  <2> QED
    BY <1>2, <2>1
<1>6. disk' = disk => disk'[k][f] = 0
  BY <1>2
<1>7. ASSUME disk' # disk PROVE disk'[k][f] = 0
  <2>1. ASSUME NEW t \in Threads, NEW g \in Files, RemoveFile(t, g) PROVE disk'[k][f] = 0
    BY <1>4, <2>1, Zenon DEF RemoveFile
  <2>2. ASSUME NEW d \in Collectors, NEW g \in Files, CollectRemove(d, g) PROVE disk'[k][f] = 0
    BY <1>4, <2>2, Zenon DEF CollectRemove
  <2> QED
    BY <1>3, <1>5, <1>7, <2>1, <2>2, FileSteps, Zenon
<1> QED
  BY <1>1, <1>6, <1>7, Zenon

LEMMA UsedStep == ASSUME Sized, Inv, UsedSound, [Next]_vars PROVE UsedSound'
<1>1. used' \in [Collectors -> SUBSET Files]
  <2>1. used \in [Collectors -> SUBSET Files]
    BY Zenon DEF UsedSound
  <2>2. used' = used => used' \in [Collectors -> SUBSET Files]
    BY <2>1, Zenon
  <2>3. ASSUME NEW k, NEW x \in SUBSET Files, used' = Accessed(k, x)
        PROVE  used' \in [Collectors -> SUBSET Files]
    BY <2>1, <2>3 DEF Accessed
  <2>4. ASSUME NEW t \in Threads, Step(t) PROVE used' \in [Collectors -> SUBSET Files]
    <3>1. {"meta"} \in SUBSET Files /\ Files \in SUBSET Files
      BY DEF Files
    <3>2. used' = used \/ \E k : \E x \in SUBSET Files : used' = Accessed(k, x)
      <4>1. CASE ReadSum(t)
        BY <3>1, <4>1, Zenon DEF ReadSum
      <4>2. CASE Publish(t)
        BY <3>1, <4>2, Zenon DEF Publish
      <4> QED
        BY <2>4, <4>1, <4>2, Zenon DEF Step, ReadMeta, ReadBin, ReadAux, TakeLock, Lease, Index,
           Indexed, Compile, RemoveFile, Fails, LockFails, LeaseFails, IndexFails, CompileFails,
           RemoveFails, PublishFails
    <3> QED
      BY <2>2, <2>3, <3>2, Zenon
  <2>5. ASSUME NEW c \in Collectors, NEW k \in Keys, CollectStart(c, k)
        PROVE  used' \in [Collectors -> SUBSET Files]
    <3>1. PICK x \in SUBSET Files : used' = [used EXCEPT ![c] = x]
      BY <2>5 DEF CollectStart, Files
    <3> QED
      BY <2>1, <3>1
  <2> QED
    BY <2>2, <2>4, <2>5, Zenon DEF Next, vars, Start, Collect, CollectLock, CollectLook,
       CollectRemove, Damage, Kill
<1>2. ASSUME NEW c \in Collectors, sweep'[c].at = "remove", NEW f \in Files, f \in used'[c]
      PROVE  disk'[sweep'[c].key][f] = 0
  <2>1. CASE sweep[c].at = "remove" /\ sweep'[c] = sweep[c] /\ used'[c] = used[c]
    <3>1. disk[sweep[c].key][f] = 0
      BY <1>2, <2>1, Zenon DEF UsedSound, Present
    <3> QED
      BY <2>1, <3>1, SweptShrinks, Zenon
  <2>2. CASE sweep'[c].key = sweep[c].key /\ ~Kept(c) /\ UNCHANGED <<used, disk>>
    BY <1>2, <2>2, Zenon DEF Kept, Present
  <2> QED
    BY <1>2, <2>1, <2>2, SweepSteps, Zenon
<1> QED
  BY <1>1, <1>2, Zenon DEF UsedSound, Present

LEMMA KeptStep == ASSUME Sized, Inv, UsedSound, [Next]_vars PROVE CachedKept
<1> SUFFICES ASSUME NEW k \in Keys, NEW f \in Files, disk[k][f] # 0, disk'[k][f] = 0,
                    \A g \in Files : disk[k][g] = 0 => disk'[k][g] = 0
             PROVE  \/ \E t \in Threads :
                         flock[k] = t /\ work[t].key = k /\ work[t].parts = Written(built[k])
                    \/ \E c \in Collectors :
                         /\ flock[k] = c /\ used[c] \cap Present(k) = {}
                         /\ \A g \in Files : disk[k][g] \in {0, sweep[c].looked[g]} \union (-4 .. -1)
  BY Zenon DEF CachedKept, Present
<1>1. disk' # disk /\ disk \in [Keys -> [Files -> Int]]
  BY Zenon DEF Inv, Typed
<1>3. ASSUME NEW t \in Threads, NEW g \in Files, RemoveFile(t, g)
      PROVE  flock[k] = t /\ work[t].key = k /\ work[t].parts = Written(built[k])
  <2>1. work[t].at = "remove" /\ disk' = [disk EXCEPT ![work[t].key][g] = 0]
    BY <1>3, Zenon DEF RemoveFile
  <2>2. ReadSound(work[t]) /\ LockSound(t) /\ work[t].key \in Keys
    BY <2>1, Busy, Zenon
  <2>3. work[t].key = k
    BY <1>1, <2>1, <2>2
  <2> QED
    BY <2>1, <2>2, <2>3 DEF ReadSound, LockSound, Writing
<1>4. ASSUME NEW t \in Threads, Publish(t) PROVE FALSE
  <2>1. /\ work[t].at = "publish" /\ disk' = [disk EXCEPT ![work[t].key] = work[t].parts]
        /\ Present(work[t].key) = {}
    BY <1>4, Zenon DEF Publish
  <2>2. work[t].key # k
    BY <2>1, Zenon DEF Present
  <2> QED
    BY <1>1, <2>1, <2>2
<1>5. ASSUME NEW c \in Collectors, NEW g \in Files, CollectRemove(c, g)
      PROVE  /\ flock[k] = c /\ used[c] \cap Present(k) = {}
             /\ \A h \in Files : disk[k][h] \in {0, sweep[c].looked[h]} \union (-4 .. -1)
  <2>1. sweep[c].at = "remove" /\ disk' = [disk EXCEPT ![sweep[c].key][g] = 0]
    BY <1>5, Zenon DEF CollectRemove
  <2>2. SweepSound(c)
    BY Zenon DEF Inv
  <2>3. sweep[c].key = k
    BY <1>1, <2>1
  <2>4. used[c] \cap Present(k) = {}
    BY <2>1, <2>3, Zenon DEF UsedSound
  <2> QED
    BY <2>1, <2>2, <2>3, <2>4 DEF SweepSound
<1>6. ASSUME NEW j \in Keys, NEW g \in Files, Damage(j, g) PROVE FALSE
  <2>1. disk' = [disk EXCEPT ![j][g] = Damaged(g)]
    BY <1>6, Zenon DEF Damage, Damaged
  <2>2. Damaged(g) # 0
    BY DEF Damaged
  <2> QED
    BY <1>1, <2>1, <2>2
<1> QED
  BY <1>1, <1>3, <1>4, <1>5, <1>6, FileSteps, Zenon

\* An entry of the cache is deleted only under its lock: by a compilation that has
\* the bytes to replace it, or by a sweep that found these very files and none of
\* them accessed since its cutoff (loom.rs:866, bundle.rs:321-331).
THEOREM CacheKept == ASSUME Sized PROVE Spec => [][CachedKept]_vars
<1>1. Sized /\ Init => Inv /\ UsedSound
  <2>1. Init => UsedSound
    BY DEF Init, UsedSound
  <2> QED
    BY <2>1, InvInit
<1>2. Sized /\ Inv /\ UsedSound /\ [Next]_vars => Inv' /\ UsedSound'
  BY StepInv, UsedStep
<1>3. Sized /\ Inv /\ UsedSound /\ [Next]_vars => [CachedKept]_vars
  BY KeptStep
<1> QED
  BY <1>1, <1>2, <1>3, PTL DEF Spec
=============================================================================
