---------------------------- MODULE DeviceMemory ----------------------------
(***************************************************************************)
(* One host-mapped allocation of src/fabric/memory.rs and an alias of it   *)
(* imported for a non-coherent device.  The model has one cache line: the  *)
(* host may hold it (clean or dirty) at any time, a coherent GPU snoops    *)
(* it, an NPU reads and writes memory only.  Host calls and device leases  *)
(* exclude each other through `uses`; needs_cache decides whether a host   *)
(* call maintains the cache and flips when the alias is created.           *)
(* The second part, with its own variables, is reservations of device      *)
(* addresses whose backing is replaced.                                    *)
(***************************************************************************)
EXTENDS Naturals, FiniteSets, Sequences, SequencesExt

CONSTANTS
  HostThreads, Offsets, \* the bytes of the line
  Versions,             \* 0 .. n: contents a byte may take; 0 is the initial zero
  Empty

Objects == {"source", "alias"}

VARIABLES
  life,       \* "none", "reserved", "created", "mapped", "ready", "destroyed", "quarantined"
  handles,    \* whether user code still holds the Buffer of an object
  charged,    \* the MemoryReservation is held
  coherent,   \* the source was created for coherent GPUs only
  needsCache, \* shared by source and alias
  uses, lock, \* device leases and the holder of the uses mutex
  cache,      \* the host's copy of the line, or Empty
  dirty, memory, latest, \* latest: what the last access wrote to each byte
  host,       \* what each host thread is doing
  device      \* device -> "idle" or the object it has leased

memVars == <<life, handles, charged, coherent, needsCache, uses, lock, cache, dirty, memory,
             latest, host, device>>

Devices == {"gpu", "npu"}
Calm == [pc |-> "idle"]

MemInit ==
  /\ life = [o \in Objects |-> "none"] /\ handles = [o \in Objects |-> FALSE]
  /\ charged = FALSE /\ coherent \in BOOLEAN /\ needsCache = FALSE
  /\ uses = 0 /\ lock = Empty
  /\ cache = Empty /\ dirty = FALSE
  /\ memory = [i \in Offsets |-> 0] /\ latest = [i \in Offsets |-> 0]
  /\ host = [t \in HostThreads |-> Calm] /\ device = [d \in Devices |-> "idle"]

Do(t, state) == host' = [host EXCEPT ![t] = state]

-----------------------------------------------------------------------------
(* create_memory: the budget is charged first; every later failure drops    *)
(* what exists by then, and a failed native detach keeps all of its owners. *)

\* Mutant: the charge is returned whether or not the native memory is gone.
Detach_Early(o) ==
  /\ \E failed \in BOOLEAN :
       life' = [life EXCEPT ![o] = IF failed THEN "quarantined" ELSE "destroyed"]
  /\ charged' = (charged /\ o # "source")

Detach(o) ==
  \/ life' = [life EXCEPT ![o] = "destroyed"] /\ charged' = (charged /\ o # "source")
  \/ life' = [life EXCEPT ![o] = "quarantined"] /\ UNCHANGED charged

Free(t) == host[t].pc = "idle"
Held == \E t \in HostThreads : ~Free(t)

Reserve(t) ==
  /\ Free(t) /\ life["source"] = "none" /\ ~charged
  /\ charged' = TRUE /\ life' = [life EXCEPT !["source"] = "reserved"]
  /\ Do(t, [pc |-> "create", object |-> "source"])
  /\ UNCHANGED <<handles, coherent, needsCache, uses, lock, cache, dirty, memory, latest, device>>

\* share_owned exports the whole source to the devices that lack access.
Share(t) ==
  /\ Free(t) /\ handles["source"] /\ life["alias"] = "none"
  /\ \A u \in HostThreads : host[u].pc # "create" \* one alias
  /\ Do(t, [pc |-> "create", object |-> "alias"])
  /\ UNCHANGED <<life, handles, charged, coherent, needsCache, uses, lock, cache, dirty, memory,
                 latest, device>>

\* No admitting profile, or the native create or import fails.
CreateFails(t) ==
  /\ host[t].pc = "create"
  /\ life' = [life EXCEPT ![host[t].object] = "none"]
  /\ charged' = (charged /\ host[t].object # "source")
  /\ Do(t, Calm)
  /\ UNCHANGED <<handles, coherent, needsCache, uses, lock, cache, dirty, memory, latest, device>>

\* Mutant: importing does not switch the source to explicit maintenance.
Create_Coherent(t) ==
  /\ host[t].pc = "create"
  /\ life' = [life EXCEPT ![host[t].object] = "created"]
  /\ needsCache' = (needsCache \/ (~coherent /\ host[t].object = "source"))
  /\ Do(t, [host[t] EXCEPT !.pc = "map"])
  /\ UNCHANGED <<handles, charged, coherent, uses, lock, cache, dirty, memory, latest, device>>

Create(t) ==
  /\ host[t].pc = "create"
  /\ life' = [life EXCEPT ![host[t].object] = "created"]
  /\ needsCache' = (needsCache \/ ~coherent \/ host[t].object = "alias")
  /\ Do(t, [host[t] EXCEPT !.pc = "map"])
  /\ UNCHANGED <<handles, charged, coherent, uses, lock, cache, dirty, memory, latest, device>>

\* Mapping or querying it fails: Memory::drop runs.
MapFails(t) ==
  /\ host[t].pc = "map"
  /\ Detach(host[t].object)
  /\ Do(t, Calm)
  /\ UNCHANGED <<handles, coherent, needsCache, uses, lock, cache, dirty, memory, latest, device>>

\* Fresh backing is zeroed through the mapping; an import is left as it is.
Map(t) ==
  /\ host[t].pc = "map"
  /\ life' = [life EXCEPT ![host[t].object] = "mapped"]
  /\ IF host[t].object = "source"
       THEN cache' = [i \in Offsets |-> 0] /\ dirty' = TRUE
       ELSE UNCHANGED <<cache, dirty>>
  /\ Do(t, [host[t] EXCEPT !.pc = "flush"])
  /\ UNCHANGED <<handles, charged, coherent, needsCache, uses, lock, memory, latest, device>>

WriteBack == memory' = IF dirty THEN cache ELSE memory

\* cache_control: skipped while only coherent GPUs have access.
Flush ==
  IF needsCache THEN WriteBack /\ dirty' = FALSE /\ UNCHANGED cache
  ELSE UNCHANGED <<memory, dirty, cache>>
Invalidate ==
  IF needsCache THEN WriteBack /\ dirty' = FALSE /\ cache' = Empty
  ELSE UNCHANGED <<memory, dirty, cache>>

\* Mutant: an import publishes nothing, since it did not write.
FinishCreate_Clean(t) ==
  /\ host[t].pc = "flush"
  /\ IF host[t].object = "alias" THEN UNCHANGED <<memory, dirty, cache>> ELSE Flush
  /\ life' = [life EXCEPT ![host[t].object] = "ready"]
  /\ handles' = [handles EXCEPT ![host[t].object] = TRUE]
  /\ Do(t, Calm)
  /\ UNCHANGED <<charged, coherent, needsCache, uses, lock, latest, device>>

FinishCreate(t) ==
  /\ host[t].pc = "flush"
  /\ Flush
  /\ life' = [life EXCEPT ![host[t].object] = "ready"]
  /\ handles' = [handles EXCEPT ![host[t].object] = TRUE]
  /\ Do(t, Calm)
  /\ UNCHANGED <<charged, coherent, needsCache, uses, lock, latest, device>>

-----------------------------------------------------------------------------
(* Host calls: write, write_from_file, zero, with_host_bytes (kind "write") *)
(* and read, all under the uses lock and only without device leases.        *)

Call(t, kind, i, v) ==
  /\ Free(t) /\ lock = Empty /\ uses = 0
  /\ \E o \in Objects : handles[o]
  /\ lock' = t
  /\ Do(t, [pc |-> "acquire", kind |-> kind, at |-> i, value |-> v])
  /\ UNCHANGED <<life, handles, charged, coherent, needsCache, uses, cache, dirty, memory,
                 latest, device>>

\* Mutant: a write does not acquire the rest of its line.
Acquire_WriteOnly(t) ==
  /\ host[t].pc = "acquire"
  /\ IF host[t].kind = "write" THEN UNCHANGED <<memory, dirty, cache>> ELSE Invalidate
  /\ Do(t, [host[t] EXCEPT !.pc = "copy"])
  /\ UNCHANGED <<life, handles, charged, coherent, needsCache, uses, lock, latest, device>>

Acquire(t) ==
  /\ host[t].pc = "acquire"
  /\ Invalidate
  /\ Do(t, [host[t] EXCEPT !.pc = "copy"])
  /\ UNCHANGED <<life, handles, charged, coherent, needsCache, uses, lock, latest, device>>

Line == IF cache = Empty THEN memory ELSE cache

Copy(t) ==
  /\ host[t].pc = "copy"
  /\ IF host[t].kind = "write"
       THEN /\ cache' = [Line EXCEPT ![host[t].at] = host[t].value]
            /\ latest' = [latest EXCEPT ![host[t].at] = host[t].value]
            /\ dirty' = TRUE
            /\ Do(t, [host[t] EXCEPT !.pc = "publish"])
       ELSE /\ cache' = Line
            /\ Do(t, [host[t] EXCEPT !.pc = "release", !.value = Line[host[t].at]])
            /\ UNCHANGED <<latest, dirty>>
  /\ UNCHANGED <<life, handles, charged, coherent, needsCache, uses, lock, memory, device>>

Publish(t) ==
  /\ host[t].pc = "publish"
  /\ Flush
  /\ Do(t, [host[t] EXCEPT !.pc = "release"])
  /\ UNCHANGED <<life, handles, charged, coherent, needsCache, uses, lock, latest, device>>

Release(t) ==
  /\ host[t].pc = "release"
  /\ lock' = Empty /\ Do(t, Calm)
  /\ UNCHANGED <<life, handles, charged, coherent, needsCache, uses, cache, dirty, memory,
                 latest, device>>

-----------------------------------------------------------------------------
(* Devices (external) between retain_use and the drop of their lease.       *)

\* The source serves the GPU, the alias the NPU; both share one use count.
ObjectFor(d) == IF d = "gpu" THEN "source" ELSE "alias"

Lease(d) ==
  /\ device[d] = "idle" /\ handles[ObjectFor(d)] /\ lock = Empty
  /\ uses' = uses + 1
  /\ device' = [device EXCEPT ![d] = "leased"]
  /\ UNCHANGED <<life, handles, charged, coherent, needsCache, lock, cache, dirty, memory,
                 latest, host>>

\* What a coherent GPU finds: a dirty host line is snooped.
Snooped == IF dirty THEN cache ELSE memory

\* A coherent write invalidates the host's line; any other reaches memory only.
DeviceWrite(d, i, v) ==
  /\ device[d] = "leased"
  /\ IF d = "gpu" /\ coherent
       THEN /\ memory' = [Snooped EXCEPT ![i] = v]
            /\ cache' = Empty /\ dirty' = FALSE
       ELSE memory' = [memory EXCEPT ![i] = v] /\ UNCHANGED <<cache, dirty>>
  /\ latest' = [latest EXCEPT ![i] = v]
  /\ UNCHANGED <<life, handles, charged, coherent, needsCache, uses, lock, host, device>>

EndLease(d) ==
  /\ device[d] = "leased" /\ lock = Empty
  /\ uses' = uses - 1
  /\ device' = [device EXCEPT ![d] = "idle"]
  /\ UNCHANGED <<life, handles, charged, coherent, needsCache, lock, cache, dirty, memory,
                 latest, host>>

\* The host's hardware loads a line, or evicts one, whenever it likes.
Prefetch ==
  /\ cache = Empty /\ life["source"] = "ready" /\ cache' = memory
  /\ UNCHANGED <<life, handles, charged, coherent, needsCache, uses, lock, dirty, memory,
                 latest, host, device>>

Evict ==
  /\ cache # Empty /\ WriteBack /\ cache' = Empty /\ dirty' = FALSE
  /\ UNCHANGED <<life, handles, charged, coherent, needsCache, uses, lock, latest, host, device>>

\* The last owner goes: user handle, leases, and for the source its alias.
Destroy(o) ==
  /\ handles[o] /\ ~Held
  /\ \A d \in Devices : ObjectFor(d) = o => device[d] = "idle"
  /\ o = "source" => life["alias"] \in {"none", "destroyed"}
  /\ handles' = [handles EXCEPT ![o] = FALSE]
  /\ Detach(o)
  /\ UNCHANGED <<coherent, needsCache, uses, lock, cache, dirty, memory, latest, host, device>>

MemNext ==
  \/ \E t \in HostThreads :
       \/ Reserve(t) \/ Share(t) \/ CreateFails(t) \/ Create(t) \/ MapFails(t) \/ Map(t)
       \/ FinishCreate(t) \/ Acquire(t) \/ Copy(t) \/ Publish(t) \/ Release(t)
       \/ \E kind \in {"read", "write"}, i \in Offsets, v \in Versions \ {0} : Call(t, kind, i, v)
  \/ \E d \in Devices :
       Lease(d) \/ EndLease(d) \/ \E i \in Offsets, v \in Versions \ {0} : DeviceWrite(d, i, v)
  \/ Prefetch \/ Evict \/ \E o \in Objects : Destroy(o)

MemSpec == MemInit /\ [][MemNext]_memVars

-----------------------------------------------------------------------------
\* Completed accesses are seen whoever comes next: a host read returns the last
\* bytes written by host or device, a device finds the host's bytes in memory,
\* and a partial host write never republishes stale neighbours (memory.rs:273),
\* even when needs_cache flips in the middle of a host call (1017).
Visibility ==
  /\ \A t \in HostThreads : host[t].pc = "release" => Line = latest /\
       (host[t].kind = "read" => host[t].value = latest[host[t].at])
  /\ device["npu"] = "leased" => memory = latest
  /\ device["gpu"] = "leased" => (IF coherent THEN Snooped ELSE memory) = latest

\* Native backing that may still be reachable keeps its charge and the source
\* of an import, through failed creation, failed detach and quarantine
\* (memory.rs:61-77), and host and device never hold the bytes together.
OwnersOutlive ==
  /\ life["source"] \in {"created", "mapped", "ready", "quarantined"} => charged
  /\ life["alias"] \in {"created", "mapped", "ready", "quarantined"} => life["source"] = "ready"
  /\ \A d \in Devices : device[d] = "leased" => life[ObjectFor(d)] = "ready" /\ lock = Empty
  /\ life["source"] \in {"none", "destroyed"} => ~charged

-----------------------------------------------------------------------------
(***************************************************************************)
(* Stable address reservations with replaceable backing                    *)
(* (src/fabric/virtual_memory.rs). Accesses that share page tables form    *)
(* one alias group; the native update may install any prefix of the        *)
(* proposed ranges before it fails.                                        *)
(***************************************************************************)
CONSTANTS
  Ordinals, GroupOf,     \* access ordinals and the alias group of each
  Pages, Sources,        \* target ranges and prepared backing buffers
  Hole,                  \* an update that detaches its range
  UpdateLimit            \* bound: successful and failed updates of a behaviour

VARIABLES
  reservation,           \* "none", "live", "destroyed" or "quarantined"
  opened,                \* the ordinals whose group is known (construction)
  installed,             \* group -> page -> source the native tables may map
  backing,               \* group -> the leases kept for it
  updates

vmVars == <<reservation, opened, installed, backing, updates>>

Groups == {GroupOf[o] : o \in Ordinals}
Unmapped == [g \in Groups |-> [p \in Pages |-> Hole]]

VmInit ==
  /\ reservation = "none" /\ opened = {}
  /\ installed = Unmapped /\ backing = [g \in Groups |-> {}] /\ updates = 0

ReserveVirtualMemory ==
  /\ reservation = "none" /\ reservation' = "live"
  /\ UNCHANGED <<opened, installed, backing, updates>>

\* access_info of the next ordinal; a failed query drops the reservation.
QueryGroup(o) ==
  /\ reservation = "live" /\ o \notin opened
  /\ opened' = opened \union {o}
  /\ UNCHANGED <<reservation, installed, backing, updates>>

Ranges == [page : Pages, source : Sources \union {Hole}]
Proposals == {<<a>> : a \in Ranges} \union {<<a, b>> : a, b \in Ranges}

Install(table, us) ==
  [p \in Pages |->
     LET at == {i \in DOMAIN us : us[i].page = p}
     IN  IF at = {} THEN table[p] ELSE us[CHOOSE i \in at : \A j \in at : j <= i].source]

Leases(us) == {us[i].source : i \in DOMAIN us} \ {Hole}

\* Mutant: proposals are retained once the native call has succeeded.
Update_After(o, us, applied) ==
  /\ reservation = "live" /\ opened = Ordinals /\ updates < UpdateLimit
  /\ LET g == GroupOf[o] IN
     /\ backing' = [backing EXCEPT ![g] = IF applied = Len(us) THEN @ \union Leases(us) ELSE @]
     /\ installed' = [installed EXCEPT ![g] = Install(@, SubSeq(us, 1, applied))]
  /\ updates' = updates + 1
  /\ UNCHANGED <<reservation, opened>>

\* `applied` of the ranges are installed: all of them, or those before a failure.
Update(o, us, applied) ==
  /\ reservation = "live" /\ opened = Ordinals /\ updates < UpdateLimit
  /\ LET g == GroupOf[o] IN
     /\ backing' = [backing EXCEPT ![g] = @ \union Leases(us)]
     /\ installed' = [installed EXCEPT ![g] = Install(@, SubSeq(us, 1, applied))]
  /\ updates' = updates + 1
  /\ UNCHANGED <<reservation, opened>>

\* Whole-group removal; a failed native call leaves every lease.
DetachGroup(o, ok) ==
  /\ reservation = "live" /\ opened = Ordinals
  /\ LET g == GroupOf[o] IN
     /\ \/ ok /\ installed' = [installed EXCEPT ![g] = Unmapped[g]]
        \/ ~ok /\ \E ps \in SUBSET Pages :
             installed' = [installed EXCEPT ![g] = [p \in Pages |-> IF p \in ps THEN Hole ELSE @[p]]]
     /\ backing' = IF ok THEN [backing EXCEPT ![g] = {}] ELSE backing
  /\ UNCHANGED <<reservation, opened, updates>>

\* destroy and drop, also of a reservation whose construction failed.
ReleaseReservation(ok) ==
  /\ reservation = "live"
  /\ IF ok
       THEN /\ reservation' = "destroyed" /\ installed' = Unmapped
            /\ backing' = [g \in Groups |-> {}]
       ELSE /\ reservation' = "quarantined" /\ UNCHANGED <<installed, backing>>
  /\ UNCHANGED <<opened, updates>>

VmNext ==
  \/ ReserveVirtualMemory
  \/ \E o \in Ordinals :
       \/ QueryGroup(o) \/ \E ok \in BOOLEAN : DetachGroup(o, ok)
       \/ \E us \in Proposals : \E applied \in 0 .. Len(us) : Update(o, us, applied)
  \/ \E ok \in BOOLEAN : ReleaseReservation(ok)

VmSpec == VmInit /\ [][VmNext]_vmVars

-----------------------------------------------------------------------------
\* "All old and proposed sources stay leased until a successful whole-group
\* detach or destruction" (virtual_memory.rs:31): whatever a failed update or
\* detach left in the native tables, and through whichever alias it was
\* installed, its source is leased.
PagesLeased ==
  \A g \in Groups : \A p \in Pages : installed[g][p] # Hole => installed[g][p] \in backing[g]
=============================================================================
