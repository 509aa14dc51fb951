---------------------------- MODULE FabricMemory ----------------------------
(***************************************************************************)
(* The ways to allocate (src/fabric/memory.rs): every entry point of Fabric*)
(* with the owners it hands to create_memory, the profiles that            *)
(* allocation_profiles reports, and the budget charged for the result.     *)
(* The second part fills a mapped buffer from a file.                      *)
(***************************************************************************)
EXTENDS Naturals, Sequences, FiniteSets, SequencesExt, FiniteSetsExt

CONSTANTS
  ProfileLists,  \* native profiles in enumeration order: kind of scope, roles,
                 \* flags, numa, serves (set of device sets), maximum, granularity
  DeviceSets,    \* sets of devices; "gpu" and "npu" are the engines
  Sizes, Page, BudgetLimit,
  CallLimit      \* bound: allocations

VARIABLES
  profiles, plans,  \* plans: AllocationProfiles as (ordinal, devices)
  used,             \* bytes of the budget reserved
  calls,            \* allocations made so far, with their outcome
  active            \* the call in progress: <<>> or <<call>>

roleVars == <<profiles, plans, used, calls, active>>

RolesInit ==
  /\ profiles \in ProfileLists /\ plans = {} /\ used = 0 /\ calls = <<>> /\ active = <<>>

-----------------------------------------------------------------------------
\* Mutant: profiles whose backing cannot be mapped are reported too.
Offered_Unmapped == {"create"}

Offered == {"create", "map"}

\* allocation_profiles: host-visible allocating profiles of system scopes that
\* the native query admits for the whole device set.
Query(devices) ==
  /\ active = <<>>
  /\ plans' = plans \union
       {[ordinal |-> i, devices |-> devices] : i \in
          {j \in DOMAIN profiles :
             /\ profiles[j].kind = "system" /\ devices \in profiles[j].serves
             /\ Offered \subseteq profiles[j].roles /\ "visible" \in profiles[j].flags}}
  /\ UNCHANGED <<profiles, used, calls, active>>

-----------------------------------------------------------------------------
(* The entry points: how many bytes they construct, in which role, with     *)
(* which flags, and what they charge.                                       *)

Rounded(bytes) == ((bytes + Page - 1) \div Page) * Page

Call(entry, bytes, devices, role, flags, numa, selected, charge) ==
  [entry |-> entry, bytes |-> bytes, devices |-> devices, role |-> role, flags |-> flags,
   numa |-> numa, selected |-> selected, charge |-> charge,
   stage |-> "select", profile |-> 0, mapped |-> FALSE]

\* allocate_device_local: a GPU, and no CPU aperture.
DeviceLocal(bytes, d) == Call("local", bytes, {d}, "create", {"local"}, FALSE, 0, 0)

\* allocate_with_options: remapping and placement requirements.  Without any it
\* stands for allocate, allocate_shared, allocate_from and allocate_budgeted.
WithOptions(bytes, devices, remapped, numa, charge) ==
  Call("options", bytes, devices, "create",
       {"visible"} \union (IF remapped THEN {"remapped"} ELSE {}), numa, 0, charge)

\* Mutant: the charge is taken before the length is rounded to pages.
RegisteredCharge_Asked(bytes) == bytes

RegisteredCharge(bytes) == Rounded(bytes)

\* allocate_registered: page-rounded anonymous pages of this process.
Registered(bytes, devices, budgeted) ==
  Call("registered", Rounded(bytes), devices, "register", {"visible"}, FALSE, 0,
       IF budgeted THEN RegisteredCharge(bytes) ELSE 0)

\* register_host: pages of the caller.
HostPages(bytes, devices) == Call("host", bytes, devices, "register", {"visible"}, FALSE, 0, 0)

\* AllocationProfile::allocate: exactly the profile that was queried.
FromPlan(plan, bytes, charge) ==
  Call("plan", bytes, plan.devices, "create", {"visible"}, FALSE, plan.ordinal, charge)

\* Reservation comes before anything native; a refusal changes nothing.
Begin(call) ==
  /\ used + call.charge <= BudgetLimit
  /\ used' = used + call.charge /\ active' = <<call>>
  /\ UNCHANGED <<profiles, plans, calls>>

\* A plan checks the size against its limits before it reserves.
PlanAdmits(plan, bytes) ==
  LET limits == profiles[plan.ordinal]
  IN  bytes <= limits.maximum /\ bytes % Max({limits.granularity, 1}) = 0

Allocate ==
  /\ active = <<>> /\ Len(calls) < CallLimit
  /\ \E bytes \in Sizes :
      \/ \E d \in UNION DeviceSets : d = "gpu" /\ Begin(DeviceLocal(bytes, d))
      \/ \E devices \in DeviceSets, remapped, numa, budgeted \in BOOLEAN :
           Begin(WithOptions(bytes, devices, remapped, numa, IF budgeted THEN bytes ELSE 0))
      \/ \E devices \in DeviceSets, budgeted \in BOOLEAN : Begin(Registered(bytes, devices, budgeted))
      \/ \E devices \in DeviceSets : Begin(HostPages(bytes, devices))
      \/ \E plan \in plans, budgeted \in BOOLEAN :
           PlanAdmits(plan, bytes) /\ Begin(FromPlan(plan, bytes, IF budgeted THEN bytes ELSE 0))

-----------------------------------------------------------------------------
(* create_memory.                                                           *)

Finish(call) ==
  /\ calls' = Append(calls, call) /\ active' = <<>>
  /\ used' = IF call.stage = "live" THEN used ELSE used - call.charge
  /\ UNCHANGED <<profiles, plans>>

\* Mutant: an unsupported placement falls back to the provider's policy.
Placeable_Any(call, p) == TRUE

Placeable(call, p) == call.numa => p.numa

Admits(call, i) ==
  LET p == profiles[i] IN
  /\ p.kind = IF call.entry = "local" THEN "local" ELSE "system"
  /\ call.selected # 0 => call.selected = i
  /\ call.devices \in p.serves
  /\ (IF call.entry = "local" THEN {call.role} ELSE {call.role, "map"}) \subseteq p.roles
  /\ call.flags \subseteq p.flags
  /\ Placeable(call, p) /\ call.bytes <= p.maximum

\* The first profile that admits the request; no other is tried if the native
\* construction then fails.
Construct(succeeds) ==
  /\ active # <<>> /\ active[1].stage = "select"
  /\ LET call == active[1]
         admitting == {i \in DOMAIN profiles : Admits(call, i)}
     IN  IF admitting = {} \/ ~succeeds
         THEN Finish([call EXCEPT !.stage = IF admitting = {} THEN "unsupported" ELSE "failed"])
         ELSE LET made == [call EXCEPT !.profile = Min(admitting)] IN
              IF call.entry = "local" THEN Finish([made EXCEPT !.stage = "live"])
              ELSE /\ active' = <<[made EXCEPT !.stage = "map"]>>
                   /\ UNCHANGED <<profiles, plans, used, calls>>

\* Mapping, initialising and publishing; a failure drops the native memory.
MapHost(succeeds) ==
  /\ active # <<>> /\ active[1].stage = "map"
  /\ Finish([active[1] EXCEPT !.stage = IF succeeds THEN "live" ELSE "failed", !.mapped = succeeds])

\* The last owner of the buffer goes.  Backing that cannot be detached is kept.
DropBuffer(i, detached) ==
  /\ active = <<>> /\ calls[i].stage = "live"
  /\ calls' = [calls EXCEPT ![i].stage = IF detached THEN "gone" ELSE "quarantined"]
  /\ used' = IF detached THEN used - calls[i].charge ELSE used
  /\ UNCHANGED <<profiles, plans, active>>

RolesNext ==
  \/ \E devices \in DeviceSets : Query(devices)
  \/ Allocate
  \/ \E succeeds \in BOOLEAN : Construct(succeeds) \/ MapHost(succeeds)
  \/ \E i \in DOMAIN calls, detached \in BOOLEAN : DropBuffer(i, detached)

RolesSpec == RolesInit /\ [][RolesNext]_roleVars

-----------------------------------------------------------------------------
Backing == SelectSeq(calls, LAMBDA c : c.stage \in {"live", "quarantined"})

\* "Queries allocate no backing; allocation uses this exact profile and flags"
\* and "placement never silently falls back to another NUMA node"
\* (memory.rs:1383, 5): a plan that accepts a size is never refused for want of
\* a profile and gets its own, backing asked for on a node is on one, and
\* exactly device-local backing has no host mapping.
ProfilesHonoured ==
  /\ \A c \in ToSet(calls) : c.entry = "plan" => c.stage # "unsupported"
  /\ \A c \in ToSet(Backing) :
       /\ c.selected \in {0, c.profile}
       /\ c.numa => profiles[c.profile].numa
       /\ c.mapped = (profiles[c.profile].kind = "system")

\* Reservations cover the storage: whatever was allocated under the budget is
\* charged with at least the bytes it occupies, in pages where it is pages, and
\* failed or dropped allocations keep no charge (memory.rs:545-556).
BudgetCovers ==
  /\ used = FoldLeft(LAMBDA n, c : n + c.charge, 0, Backing \o active)
  /\ \A c \in ToSet(Backing) : c.charge # 0 => c.charge >= c.bytes

-----------------------------------------------------------------------------
(***************************************************************************)
(* Buffer::write_from_file and write_from_file_parallel                    *)
(* (src/fabric/memory.rs): filling a host-mapped range from a file while   *)
(* devices may ask for the buffer. A byte holds 0 or the number of the     *)
(* file byte it was read from.                                             *)
(***************************************************************************)
CONSTANTS
  Capacity,    \* bytes of the buffer
  Calls,       \* calls: first byte, length, workers
  FileBytes, FileOffset,
  MaximumWorkers,
  FillLimit    \* bound: calls

VARIABLES
  mapping,     \* what the host wrote
  published,   \* what devices see
  uses, locked, \* leases, and whether a call holds the uses mutex
  call,        \* the call in progress
  handles,     \* worker -> "none", "reading", "ok", "error"
  outcomes     \* calls that returned, with their result

fileReadVars == <<mapping, published, uses, locked, call, handles, outcomes>>

Bytes == 0 .. Capacity - 1
Quiet == [w \in 1 .. MaximumWorkers |-> "none"]
NoCall == [first |-> 0, length |-> 0, workers |-> 0, spawning |-> 0]

FileReadInit ==
  /\ mapping = [b \in Bytes |-> 0] /\ published = [b \in Bytes |-> 0]
  /\ uses = 0 /\ locked = FALSE /\ call = NoCall /\ handles = Quiet /\ outcomes = {}

\* retain_use and DeviceUse::drop.
Lease ==
  /\ ~locked /\ uses = 0 /\ uses' = 1
  /\ UNCHANGED <<mapping, published, locked, call, handles, outcomes>>
EndLease ==
  /\ ~locked /\ uses = 1 /\ uses' = 0
  /\ UNCHANGED <<mapping, published, locked, call, handles, outcomes>>

-----------------------------------------------------------------------------
\* A range outside of the buffer and a device's lease refuse the call.
FillCall(c) ==
  /\ ~locked /\ uses = 0 /\ c.first + c.length <= Capacity
  /\ Cardinality(outcomes) < FillLimit
  /\ locked' = TRUE
  /\ call' = [first |-> c.first, length |-> c.length, workers |-> c.workers, spawning |-> 1]
  /\ UNCHANGED <<mapping, published, uses, handles, outcomes>>

ChunkBytes == (call.length + call.workers - 1) \div call.workers
Chunks == IF call.length = 0 THEN 0 ELSE (call.length + ChunkBytes - 1) \div ChunkBytes

\* Mutant: file positions assume equal parts.
ReadAt_Even(w) == (w - 1) * (call.length \div call.workers)

ReadAt(w) == (w - 1) * ChunkBytes

\* A failed spawn ends the loop.  One worker is the calling thread itself.
Spawn(succeeds) ==
  /\ locked /\ call.spawning \in 1 .. Chunks /\ (succeeds \/ call.workers > 1)
  /\ handles' = IF succeeds THEN [handles EXCEPT ![call.spawning] = "reading"] ELSE handles
  /\ call' = [call EXCEPT !.spawning = IF succeeds THEN @ + 1 ELSE MaximumWorkers + 2]
  /\ UNCHANGED <<mapping, published, uses, locked, outcomes>>

\* read_exact_at: all bytes of the part, or an error after some of them.
ReadPart(w, count) ==
  LET start == (w - 1) * ChunkBytes
      whole == IF start + ChunkBytes <= call.length THEN ChunkBytes ELSE call.length - start
      from == FileOffset + ReadAt(w)
  IN  /\ handles[w] = "reading" /\ count <= whole /\ from + count <= FileBytes
      /\ mapping' = [b \in Bytes |->
           IF b >= call.first + start /\ b < call.first + start + count
           THEN from + b - call.first - start + 1 ELSE mapping[b]]
      /\ handles' = [handles EXCEPT ![w] = IF count = whole THEN "ok" ELSE "error"]
      /\ UNCHANGED <<published, uses, locked, call, outcomes>>

\* Mutant: the first error ends the wait for the other workers.
Joined_First == (\E w \in DOMAIN handles : handles[w] = "error")
                \/ \A w \in DOMAIN handles : handles[w] # "reading"

\* The scope joins every worker, whatever they returned.
Joined == \A w \in DOMAIN handles : handles[w] # "reading"

\* The range is published, with or without an error, and the lock released.
Return ==
  /\ locked /\ call.spawning > Chunks /\ Joined
  /\ published' = [b \in Bytes |->
       IF b >= call.first /\ b < call.first + call.length THEN mapping[b] ELSE published[b]]
  /\ outcomes' = outcomes \union
       {[first |-> call.first, length |-> call.length, number |-> Cardinality(outcomes),
         ok |-> /\ call.spawning <= MaximumWorkers + 1
                /\ \A w \in DOMAIN handles : handles[w] # "error"]}
  /\ locked' = FALSE /\ call' = NoCall
  /\ handles' = [w \in DOMAIN handles |-> IF handles[w] = "reading" THEN "reading" ELSE "none"]
  /\ UNCHANGED <<mapping, uses>>

FileReadNext ==
  \/ Lease \/ EndLease \/ Return
  \/ \E c \in Calls : FillCall(c)
  \/ \E succeeds \in BOOLEAN : Spawn(succeeds)
  \/ \E w \in 1 .. MaximumWorkers, count \in 0 .. Capacity : ReadPart(w, count)

FileReadSpec == FileReadInit /\ [][FileReadNext]_fileReadVars

-----------------------------------------------------------------------------
\* "Holds exclusive host/device admission until every worker joins and the entire
\* range is published" (memory.rs:317-318): while a device may have the buffer no
\* worker is at it and the device sees every byte the host wrote, and a call that
\* succeeded left exactly the file's bytes in its range and nothing elsewhere.
FilledTruly ==
  /\ ~locked => published = mapping /\ \A w \in DOMAIN handles : handles[w] # "reading"
  /\ \A o \in outcomes :
       o.ok /\ ~locked /\ (\A p \in outcomes : p.number <= o.number) =>
         \A b \in Bytes : b >= o.first /\ b < o.first + o.length =>
           published[b] = FileOffset + b - o.first + 1
  /\ \A b \in Bytes : mapping[b] # 0 =>
       \E c \in outcomes \union {call} : b >= c.first /\ b < c.first + c.length
=============================================================================
