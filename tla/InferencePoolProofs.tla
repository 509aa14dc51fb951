------------------------- MODULE InferencePoolProofs -------------------------
(***************************************************************************)
(* InferencePool, for every number of slots, callers, leases and jobs,     *)
(* whatever is cancelled, fails or is exported.  First, a slot is reserved *)
(* exactly while one lease refers to it.  Then the jobs of a slot: it is   *)
(* handed out with every earlier job complete unless one was cancelled,    *)
(* and once a live lease's graph has succeeded no other job writes the     *)
(* slot's outputs.                                                         *)
(***************************************************************************)
EXTENDS InferencePool, TLAPS

Asks == {"scan", "classify", "failed", "busy", "find", "drain", "register", "parked", "changed"}
Uses == {"slot", "execute", "inference", "readback", "record_stage", "record_graph",
         "record_download"}
\* Positions behind the submission of the graph.
Began == {"record_graph", "inference", "record_download", "readback"}

Typed ==
  /\ asked \in 0 .. MaxLeases
  /\ leased \in [Slots -> BOOLEAN] /\ completion \in [Slots -> 0 .. MaxJobs]
  /\ lease \in [Callers -> 0 .. MaxLeases] /\ slot \in [Callers -> Slots \union {0}]
  /\ job \in [Callers -> 0 .. MaxJobs]
  /\ at \in [Callers -> Asks \union Uses \union {"idle"}]
  /\ jobs \in [Jobs -> [slot : Slots \union {0}, lease : 0 .. MaxLeases,
                        kind : {"none", "stage", "graph", "download"}, after : 0 .. MaxJobs,
                        status : {"none", "pending", "running"} \union Terminal,
                        cancel : BOOLEAN]]
  /\ exported \subseteq Leases

\* A caller has its own lease from its request to the end of the call, and a
\* slot from the reservation on.  Before that nothing refers to the lease.
Callings ==
  /\ \A c \in Callers :
       /\ at[c] = "idle" => lease[c] = 0
       /\ at[c] # "idle" => lease[c] \in 1 .. asked
       /\ at[c] \in Uses => slot[c] \in Slots
       /\ at[c] \in Asks => lease[c] \notin exported /\ \A j \in Jobs : jobs[j].lease # lease[c]
  /\ \A c, d \in Callers : lease[c] = lease[d] /\ lease[c] # 0 => c = d

\* The jobs of one lease are jobs of one slot, its holder's.
Placed ==
  /\ \A j \in Jobs : jobs[j].lease <= asked /\ (jobs[j].status = "none" => jobs[j].lease = 0)
  /\ \A j, k \in Jobs : jobs[j].lease = jobs[k].lease /\ jobs[j].lease # 0
                          => jobs[j].slot = jobs[k].slot
  /\ \A c \in Callers, j \in Jobs : at[c] \in Uses /\ jobs[j].lease = lease[c]
                                      => jobs[j].slot = slot[c]

\* An exported lease has a job that tells its slot, also after its holder left.
Known ==
  /\ \A l \in exported : l <= asked /\ \E j \in Jobs : jobs[j].lease = l
  /\ \A c \in Callers : at[c] \in Began => \E j \in Jobs : jobs[j].lease = lease[c]

Reserved ==
  /\ \A s \in Slots : leased[s] <=> \E l \in Leases : Live(l, s)
  /\ \A s \in Slots, l, m \in Leases : Live(l, s) /\ Live(m, s) => l = m

Inv == Typed /\ Callings /\ Placed /\ Known /\ Reserved
-----------------------------------------------------------------------------
LEMMA HoldsUses == ASSUME NEW c, NEW l PROVE Holds(c, l) <=> lease[c] = l /\ at[c] \in Uses
  BY Zenon DEF Holds, Uses, Recording

LEMMA HoldsUsesNext ==
  ASSUME NEW c, NEW l PROVE Holds(c, l)' <=> lease'[c] = l /\ at'[c] \in Uses
  BY Zenon DEF Holds, Uses, Recording

\* Steps that move callers within a phase and jobs through their states.
Quiet ==
  /\ UNCHANGED <<leased, lease, slot, exported, asked>>
  /\ \A j \in Jobs : /\ jobs'[j].lease = jobs[j].lease /\ jobs'[j].slot = jobs[j].slot
                     /\ jobs'[j].status = "none" => jobs[j].status = "none"
  /\ \A c \in Callers :
       \/ at'[c] = at[c]
       \/ at[c] \in Asks /\ at'[c] \in Asks
       \/ at[c] \in Uses /\ at'[c] \in Uses /\ (at'[c] \in Began => at[c] \in Began)

LEMMA QuietInv == Inv /\ Typed' /\ Quiet => Inv'
<1> SUFFICES ASSUME Inv, Typed', Quiet PROVE Inv'
  BY Zenon
<1>1. Slots' = Slots
  BY Zenon DEF Slots, Quiet
<1>2. \A c \in Callers : /\ at'[c] \in Uses <=> at[c] \in Uses
                         /\ at'[c] \in Asks <=> at[c] \in Asks
                         /\ at'[c] = "idle" <=> at[c] = "idle"
                         /\ at'[c] \in Began => at[c] \in Began
  BY Zenon DEF Quiet, Uses, Asks, Began
<1>3. Callings'
  BY <1>1, <1>2 DEF Inv, Callings, Quiet
<1>4. Placed'
  BY <1>1, <1>2 DEF Inv, Placed, Quiet
<1>5. Known'
  BY <1>1, <1>2 DEF Inv, Known, Quiet
<1>6. \A l, s : Live(l, s)' <=> Live(l, s)
  BY Zenon, <1>2, HoldsUses, HoldsUsesNext DEF Live, Quiet
<1>7. Reserved'
  BY Zenon, <1>1, <1>6 DEF Inv, Reserved, Quiet
<1> QED
  BY Zenon, <1>3, <1>4, <1>5, <1>7 DEF Inv

\* A request that ends without a slot leaves nothing behind.
LEMMA AnswerInv ==
  ASSUME Inv, NEW c \in Callers, at[c] \in Asks, Go(c, "idle"), Return(c),
         UNCHANGED <<slotVars, jobVars, exported, asked>>
  PROVE  Inv'
<1> USE DEF Go, Return, slotVars, jobVars
<1>1. Slots' = Slots /\ UNCHANGED <<leased, completion, jobs, exported, asked>>
  BY Zenon DEF Slots
<1>2. Typed'
  BY <1>1, PoolAssumption DEF Inv, Typed, Jobs
<1>3. Callings'
  BY Zenon, <1>1 DEF Inv, Typed, Callings, Asks, Uses
<1>4. Placed'
  BY <1>1 DEF Inv, Typed, Placed, Asks, Uses
<1>5. Known'
  BY <1>1 DEF Inv, Typed, Known, Asks, Began
<1>6. \A l, s : Live(l, s)' <=> Live(l, s)
  BY <1>1, HoldsUses, HoldsUsesNext DEF Inv, Typed, Live, Asks, Uses
<1>7. Reserved'
  BY Zenon, <1>1, <1>6 DEF Inv, Reserved
<1> QED
  BY Zenon, <1>2, <1>3, <1>4, <1>5, <1>7 DEF Inv

LEMMA AskInv ==
  ASSUME Inv, NEW c \in Callers, NEW mode \in Modes, Ask(c, mode)
  PROVE  Inv'
<1> USE DEF Ask, Go, slotVars, jobVars
<1>1. Slots' = Slots /\ UNCHANGED <<leased, completion, jobs, exported, slot, job>>
  BY Zenon DEF Slots
<1>2. Typed'
  BY <1>1, PoolAssumption DEF Inv, Typed, Jobs, Asks
<1>3. Callings' /\ Placed' /\ Known'
  BY <1>1, PoolAssumption DEF Inv, Typed, Callings, Placed, Known, Asks, Uses, Began
<1>4. \A l \in Leases, s \in Slots : Live(l, s)' <=> Live(l, s)
  BY Zenon, <1>1, HoldsUses, HoldsUsesNext DEF Inv, Typed, Live, Asks, Uses
<1>5. Reserved'
  BY <1>1, <1>4 DEF Inv, Reserved
<1> QED
  BY Zenon, <1>2, <1>3, <1>5 DEF Inv

\* The caller's lease becomes the only one of a slot that was free.
LEMMA ScanInv ==
  ASSUME Inv, NEW c \in Callers, NEW s \in Slots, at[c] = "scan", ~leased[s],
         leased' = [leased EXCEPT ![s] = TRUE], completion' = [completion EXCEPT ![s] = 0],
         slot' = [slot EXCEPT ![c] = s], Go(c, "slot"),
         UNCHANGED <<lease, job, jobs, exported, asked>>
  PROVE  Inv'
<1> USE DEF Go
<1>1. Slots' = Slots
  BY Zenon DEF Slots
<1>2. Typed'
  BY <1>1, PoolAssumption DEF Inv, Typed, Jobs, Uses
<1>3. Callings'
  BY Zenon, <1>1 DEF Inv, Typed, Callings, Asks, Uses
<1>4. Placed'
  BY <1>1 DEF Inv, Typed, Placed, Callings, Asks, Uses
<1>5. Known'
  BY Zenon, <1>1 DEF Inv, Typed, Known, Began
<1>6. lease[c] \in Leases /\ \A t : ~Live(lease[c], t)
  BY HoldsUses DEF Inv, Typed, Callings, Live, Leases, Asks, Uses
<1>7. \A l \in Leases, t \in Slots : Live(l, t)' <=> Live(l, t) \/ (l = lease[c] /\ t = s)
  BY Zenon, <1>1, <1>6, HoldsUses, HoldsUsesNext DEF Inv, Typed, Live, Asks, Uses
<1>8. \A l \in Leases : ~Live(l, s)
  BY Zenon DEF Inv, Reserved
<1>9. Reserved'
  BY <1>1, <1>6, <1>7, <1>8 DEF Inv, Typed, Reserved
<1> QED
  BY Zenon, <1>2, <1>3, <1>4, <1>5, <1>9 DEF Inv

\* A submission is a job of the caller's lease and slot.
LEMMA EnqueueInv ==
  ASSUME Inv, NEW c \in Callers, at[c] \in Uses, NEW kind \in {"stage", "graph", "download"},
         NEW after \in 0 .. MaxJobs, Enqueue(c, kind, after), NEW where \in Uses, Go(c, where),
         UNCHANGED <<leased, completion, lease, slot, exported, asked>>
  PROVE  Inv'
<1> USE DEF Go
<1>1. PICK j \in Jobs :
        /\ jobs[j].status = "none"
        /\ jobs' = [jobs EXCEPT ![j] = [slot |-> slot[c], lease |-> lease[c], kind |-> kind,
                                        after |-> after, status |-> "pending", cancel |-> FALSE]]
        /\ job' = [job EXCEPT ![c] = j]
  BY Zenon DEF Enqueue, Submitted
<1>2. Slots' = Slots /\ lease[c] \in 1 .. asked /\ slot[c] \in Slots /\ jobs[j].lease = 0
  BY Zenon, <1>1 DEF Slots, Inv, Callings, Placed, Asks, Uses
<1>3. Typed'
  BY SMTT(30), <1>1, <1>2, PoolAssumption DEF Inv, Typed, Jobs, Terminal
<1>4. /\ jobs'[j].lease = lease[c] /\ jobs'[j].slot = slot[c] /\ jobs'[j].status = "pending"
      /\ \A k \in Jobs \ {j} : jobs'[k] = jobs[k]
  BY Zenon, <1>1 DEF Inv, Typed
<1>5. \A d \in Callers : /\ at'[d] \in Uses <=> at[d] \in Uses
                         /\ at'[d] \in Asks <=> at[d] \in Asks
                         /\ at'[d] = "idle" <=> at[d] = "idle"
                         /\ d # c => at'[d] = at[d]
  BY Zenon DEF Inv, Typed, Uses, Asks
<1>6. Callings'
  BY <1>2, <1>4, <1>5, SMTT(30) DEF Inv, Callings, Asks, Uses
<1>7. Placed'
  <2>1. \A k \in Jobs : k # j /\ jobs[k].lease = lease[c] => jobs[k].slot = slot[c]
    BY Zenon DEF Inv, Placed
  <2>2. \A d \in Callers : lease[d] = lease[c] => d = c
    BY <1>2 DEF Inv, Callings
  <2>3. \A k \in Jobs : jobs'[k].lease <= asked /\ (jobs'[k].status = "none" => jobs'[k].lease = 0)
    BY <1>2, <1>4, PoolAssumption DEF Inv, Typed, Placed
  <2>4. \A i, k \in Jobs : jobs'[i].lease = jobs'[k].lease /\ jobs'[i].lease # 0
                             => jobs'[i].slot = jobs'[k].slot
    BY <1>4, <2>1, SMTT(30) DEF Inv, Placed
  <2>5. \A d \in Callers, k \in Jobs : at'[d] \in Uses /\ jobs'[k].lease = lease[d]
                                         => jobs'[k].slot = slot[d]
    BY <1>4, <1>5, <2>2 DEF Inv, Placed
  <2> QED
    BY Zenon, <2>3, <2>4, <2>5 DEF Placed
<1>8. Known'
  <2>1. \A l \in 1 .. asked : (\E k \in Jobs : jobs[k].lease = l) => \E k \in Jobs : jobs'[k].lease = l
    BY <1>2, <1>4
  <2>2. \A l \in exported : l \in 1 .. asked
    BY PoolAssumption DEF Inv, Typed, Known, Leases
  <2>3. \A d \in Callers : d # c /\ at'[d] \in Began => lease[d] \in 1 .. asked
    BY Zenon, <1>5 DEF Inv, Callings, Began
  <2> QED
    BY Zenon, <2>1, <2>2, <2>3, <1>4, <1>5 DEF Inv, Known
<1>9. \A l \in Leases, s \in Slots : Live(l, s)' <=> Live(l, s)
  <2> SUFFICES ASSUME NEW l \in Leases, NEW s \in Slots PROVE Live(l, s)' <=> Live(l, s)
    BY Zenon
  <2>1. (\E d \in Callers : Holds(d, l) /\ slot[d] = s)'
          <=> \E d \in Callers : Holds(d, l) /\ slot[d] = s
    BY Zenon, <1>5, HoldsUses, HoldsUsesNext
  <2>2. (\E k \in Jobs : jobs[k].lease = l /\ jobs[k].slot = s)
          => \E k \in Jobs : jobs'[k].lease = l /\ jobs'[k].slot = s
    BY <1>2, <1>4 DEF Leases
  <2>3. ASSUME NEW k \in Jobs, jobs'[k].lease = l, jobs'[k].slot = s
        PROVE  \/ \E i \in Jobs : jobs[i].lease = l /\ jobs[i].slot = s
               \/ \E d \in Callers : Holds(d, l) /\ slot[d] = s
    BY Zenon, <2>3, <1>4, HoldsUses
  <2> QED
    BY Zenon, <2>1, <2>2, <2>3 DEF Live
<1>10. Reserved'
  BY Zenon, <1>2, <1>9 DEF Inv, Reserved
<1> QED
  BY Zenon, <1>3, <1>6, <1>7, <1>8, <1>10 DEF Inv

LEMMA ExportInv ==
  ASSUME Inv, NEW c \in Callers, Export(c)
  PROVE  Inv'
<1> USE DEF Export, slotVars, jobVars, callerVars
<1>1. /\ Slots' = Slots /\ at[c] \in Uses /\ at[c] \in Began
      /\ UNCHANGED <<leased, completion, lease, slot, job, jobs, at, asked>>
      /\ exported' = exported \union {lease[c]}
  BY Zenon DEF Slots, Uses, Began
<1>2. lease[c] \in Leases /\ lease[c] <= asked /\ slot[c] \in Slots
  BY <1>1 DEF Inv, Typed, Callings, Leases, Uses
<1>3. Typed'
  BY Zenon, <1>1, <1>2 DEF Inv, Typed
<1>4. Callings' /\ Placed'
  BY <1>1, <1>2 DEF Inv, Callings, Placed, Asks, Uses
<1>5. Known'
  BY Zenon, <1>1, <1>2 DEF Inv, Known
<1>6. \A l \in Leases, s \in Slots : Live(l, s)' <=> Live(l, s)
  BY <1>1, HoldsUses, HoldsUsesNext, SMTT(30) DEF Inv, Placed, Live
<1>7. Reserved'
  BY <1>1, <1>6 DEF Inv, Reserved
<1> QED
  BY Zenon, <1>3, <1>4, <1>5, <1>7 DEF Inv

\* A released lease wakes callers that ask for a slot, and nobody else moves.
LEMMA WakeMoves ==
  ASSUME NEW tasks, NEW position, position \in [Callers -> Asks \union Uses \union {"idle"}]
  PROVE  /\ Wake(tasks, position) \in [Callers -> Asks \union Uses \union {"idle"}]
         /\ \A c \in Callers :
              \/ Wake(tasks, position)[c] = position[c]
              \/ position[c] \in Asks /\ Wake(tasks, position)[c] \in Asks
  BY Zenon DEF Wake, Asks

\* What the end of a call leaves of the caller's locals.
Left(c) ==
  /\ lease' = [lease EXCEPT ![c] = 0] /\ slot' = [slot EXCEPT ![c] = 0]
  /\ job' = [job EXCEPT ![c] = 0]
  /\ at' \in [Callers -> Asks \union Uses \union {"idle"}] /\ at'[c] = "idle"
  /\ \A d \in Callers \ {c} : at'[d] = at[d] \/ (at[d] \in Asks /\ at'[d] \in Asks)
  /\ UNCHANGED <<completion, jobs, exported, asked>>

LEMMA LeftInv ==
  ASSUME Inv, NEW c \in Callers, Left(c), Slots' = Slots, leased' \in [Slots -> BOOLEAN]
  PROVE  Typed' /\ Callings' /\ Placed' /\ Known'
<1>1. \A d \in Callers \ {c} : /\ at'[d] \in Uses <=> at[d] \in Uses
                               /\ at'[d] \in Asks <=> at[d] \in Asks
                               /\ at'[d] = "idle" <=> at[d] = "idle"
                               /\ at'[d] \in Began <=> at[d] \in Began
                               /\ lease'[d] = lease[d] /\ slot'[d] = slot[d]
  BY DEF Inv, Typed, Left, Uses, Asks, Began
<1>2. /\ at'[c] \notin Uses /\ at'[c] \notin Asks /\ at'[c] \notin Began /\ at'[c] = "idle"
      /\ lease'[c] = 0
  BY Zenon DEF Inv, Typed, Left, Uses, Asks, Began
<1>3. Typed'
  BY PoolAssumption DEF Inv, Typed, Left
<1>4. Callings'
  BY <1>1, <1>2 DEF Inv, Callings, Left
<1>5. Placed'
  BY <1>1, <1>2 DEF Inv, Placed, Left
<1>6. Known'
  BY <1>1, <1>2 DEF Inv, Known, Left
<1> QED
  BY Zenon, <1>3, <1>4, <1>5, <1>6

LEMMA LeftLive ==
  ASSUME Inv, NEW c \in Callers, at[c] \in Uses, Left(c), NEW l \in Leases, NEW s
  PROVE  Live(l, s)' <=> IF l = lease[c] THEN l \in exported /\ Live(l, s) ELSE Live(l, s)
<1>1. \A d \in Callers : Holds(d, l)' <=> Holds(d, l) /\ d # c
  BY Zenon, HoldsUses, HoldsUsesNext DEF Inv, Typed, Left, Uses, Asks, Leases
<1>2. \A d \in Callers : d # c => slot'[d] = slot[d]
  BY Zenon DEF Inv, Typed, Left
<1>3. CASE l # lease[c]
  BY Zenon, <1>1, <1>2, <1>3, HoldsUses DEF Live, Left
<1>4. CASE l = lease[c]
  <2>1. \A d \in Callers : ~Holds(d, l)'
    BY <1>1, <1>4, HoldsUses DEF Inv, Callings, Leases
  <2>2. Live(l, s)' <=> l \in exported /\ \E j \in Jobs : jobs[j].lease = l /\ jobs[j].slot = s
    BY Zenon, <2>1 DEF Live, Left
  <2>3. ASSUME l \in exported, NEW d \in Callers, Holds(d, l), slot[d] = s
        PROVE  \E j \in Jobs : jobs[j].lease = l /\ jobs[j].slot = s
    <3>1. PICK j \in Jobs : jobs[j].lease = l
      BY Zenon, <2>3 DEF Inv, Known
    <3> QED
      BY Zenon, <3>1, <2>3, HoldsUses DEF Inv, Placed
  <2> QED
    BY Zenon, <2>2, <2>3, <1>4 DEF Live
<1> QED
  BY Zenon, <1>3, <1>4

\* The end of a call frees its slot, unless an output keeps the lease.
LEMMA DropInv ==
  ASSUME Inv, NEW c \in Callers, Drop(c)
  PROVE  Inv'
<1>1. at[c] \in Uses /\ lease[c] \in Leases /\ slot[c] \in Slots
  BY DEF Drop, Inv, Typed, Callings, Uses, Leases
<1>2. [at EXCEPT ![c] = "idle"] \in [Callers -> Asks \union Uses \union {"idle"}]
  BY Zenon DEF Inv, Typed
<1>3. CASE lease[c] \in exported
  <2>1. Left(c) /\ UNCHANGED leased /\ Slots' = Slots /\ leased' \in [Slots -> BOOLEAN]
    BY Zenon, <1>2, <1>3 DEF Drop, Return, Left, Inv, Typed, jobVars, Slots
  <2>2. \A l \in Leases, s \in Slots : Live(l, s)' <=> Live(l, s)
    BY Zenon, <2>1, <1>1, <1>3, LeftLive
  <2>3. Reserved'
    BY Zenon, <2>1, <2>2 DEF Inv, Reserved
  <2> QED
    BY Zenon, <2>1, <2>3, LeftInv DEF Inv
<1>4. CASE lease[c] \notin exported
  <2>1. /\ leased' = [leased EXCEPT ![slot[c]] = FALSE]
        /\ at' = Wake(wakers, [at EXCEPT ![c] = "idle"])
    BY Zenon, <1>4 DEF Drop, LeaseDrop
  <2>2. Slots' = Slots /\ leased' \in [Slots -> BOOLEAN]
    BY Zenon, <2>1 DEF Inv, Typed, Slots
  <2>3. Left(c)
    <3>1. at' \in [Callers -> Asks \union Uses \union {"idle"}]
      BY Zenon, <2>1, <1>2, WakeMoves
    <3>2. \A d \in Callers \ {c} : at'[d] = at[d] \/ (at[d] \in Asks /\ at'[d] \in Asks)
      <4> DEFINE left == [at EXCEPT ![c] = "idle"]
      <4>1. \A d \in Callers : at'[d] = left[d] \/ (left[d] \in Asks /\ at'[d] \in Asks)
        BY Zenon, <2>1, <1>2, WakeMoves
      <4>2. \A d \in Callers \ {c} : left[d] = at[d]
        BY Zenon DEF Inv, Typed
      <4> HIDE DEF left
      <4> QED
        BY Zenon, <4>1, <4>2
    <3>3. at'[c] = "idle"
      BY Zenon, <2>1 DEF Wake, Inv, Typed
    <3> QED
      BY Zenon, <3>1, <3>2, <3>3 DEF Drop, Return, Left, jobVars
  <2>4. \A l \in Leases, s \in Slots : Live(l, s)' <=> l # lease[c] /\ Live(l, s)
    BY Zenon, <2>3, <1>1, <1>4, LeftLive
  <2>5. Live(lease[c], slot[c])
    BY Zenon, <1>1, HoldsUses DEF Live
  <2>6. \A s \in Slots : Live(lease[c], s) => s = slot[c]
    BY <1>1, <1>4, HoldsUses DEF Live, Inv, Callings, Leases
  <2>7. Reserved'
    BY <2>1, <2>2, <2>4, <2>5, <2>6, <1>1 DEF Inv, Typed, Reserved
  <2> QED
    BY Zenon, <2>2, <2>3, <2>7, LeftInv DEF Inv
<1> QED
  BY Zenon, <1>3, <1>4

\* The last clone of an output frees the slot of its lease, unless the lease is
\* still held.
LEMMA DropOutputInv ==
  ASSUME Inv, NEW l \in Leases, NEW s \in Slots, DropOutput(l, s)
  PROVE  Inv'
<1>1. /\ exported' = exported \ {l} /\ l \in exported
      /\ UNCHANGED <<completion, lease, slot, job, jobs, asked>>
  BY Zenon DEF DropOutput, jobVars, callerVars
<1>2. Live(l, s)
  BY Zenon DEF DropOutput, Live
<1>3. ASSUME NEW t, Live(l, t) PROVE t = s
  <2>1. PICK j \in Jobs : jobs[j].lease = l /\ jobs[j].slot = s
    BY Zenon DEF DropOutput
  <2> QED
    BY <2>1, <1>3, HoldsUses DEF Live, Inv, Placed, Leases
<1>4. /\ at' \in [Callers -> Asks \union Uses \union {"idle"}]
      /\ \A c \in Callers : at'[c] = at[c] \/ (at[c] \in Asks /\ at'[c] \in Asks)
  <2>1. at' = at \/ at' = Wake(wakers, at)
    BY Zenon DEF DropOutput, LeaseDrop
  <2> QED
    BY <2>1, WakeMoves DEF Inv, Typed
<1>5. Slots' = Slots /\ leased' \in [Slots -> BOOLEAN]
  BY Zenon DEF DropOutput, LeaseDrop, Inv, Typed, Slots
<1>6. \A c \in Callers : /\ at'[c] \in Uses <=> at[c] \in Uses
                         /\ at'[c] \in Asks <=> at[c] \in Asks
                         /\ at'[c] = "idle" <=> at[c] = "idle"
                         /\ at'[c] \in Began <=> at[c] \in Began
  BY Zenon, <1>4 DEF Inv, Typed, Uses, Asks, Began
<1>7. Typed'
  BY Zenon, <1>1, <1>4, <1>5 DEF Inv, Typed
<1>8. Callings'
  BY Zenon, <1>1, <1>5, <1>6 DEF Inv, Callings
<1>9. Placed' /\ Known'
  BY Zenon, <1>1, <1>5, <1>6 DEF Inv, Placed, Known
<1>10. \A m \in Leases, c \in Callers : Holds(c, m)' <=> Holds(c, m)
  BY Zenon, <1>1, <1>6, HoldsUses, HoldsUsesNext
<1>11. \A m \in Leases, t \in Slots : m # l => (Live(m, t)' <=> Live(m, t))
  BY Zenon, <1>1, <1>10 DEF Live
<1>12. \A t \in Slots : Live(l, t)' <=> \E c \in Callers : Holds(c, l) /\ slot[c] = t
  BY Zenon, <1>1, <1>10 DEF Live
<1>13. Reserved'
  <2>1. CASE \E c \in Callers : Holds(c, l)
    <3>1. PICK c \in Callers : Holds(c, l)
      BY Zenon, <2>1
    <3>2. slot[c] = s /\ leased' = leased
      BY Zenon, <3>1, <1>3 DEF Live, DropOutput
    <3>3. \A t \in Slots : Live(l, t)' <=> Live(l, t)
      BY Zenon, <3>1, <3>2, <1>2, <1>3, <1>12 DEF Live
    <3>4. \A m \in Leases, t \in Slots : Live(m, t)' <=> Live(m, t)
      BY Zenon, <3>3, <1>11
    <3> QED
      BY Zenon, <3>2, <3>4, <1>5 DEF Inv, Reserved
  <2>2. CASE ~\E c \in Callers : Holds(c, l)
    <3>1. leased' = [leased EXCEPT ![s] = FALSE]
      BY Zenon, <2>2 DEF DropOutput, LeaseDrop
    <3>2. \A m \in Leases, t \in Slots : Live(m, t)' <=> m # l /\ Live(m, t)
      BY Zenon, <2>2, <1>11, <1>12
    <3> QED
      BY <3>1, <3>2, <1>2, <1>3, <1>5 DEF Inv, Typed, Reserved
  <2> QED
    BY Zenon, <2>1, <2>2
<1> QED
  BY Zenon, <1>7, <1>8, <1>9, <1>13 DEF Inv
-----------------------------------------------------------------------------
LEMMA InvInit == Init => Inv
<1> SUFFICES ASSUME Init PROVE Inv
  BY Zenon
<1>1. PICK capacity \in Capacities : leased = [s \in 1 .. capacity |-> FALSE]
  BY Zenon DEF Init
<1>2. Slots = 1 .. capacity
  BY Zenon, <1>1 DEF Slots
<1>3. Typed
  BY <1>1, <1>2, PoolAssumption DEF Init, Typed, Jobs, NoJob, Terminal, Leases
<1>4. Callings /\ Placed /\ Known
  BY PoolAssumption DEF Init, Callings, Placed, Known, NoJob, Asks, Uses, Began
<1>5. \A l, s : ~Live(l, s)
  BY Zenon, HoldsUses DEF Init, Live, Uses
<1>6. Reserved
  BY Zenon, <1>1, <1>2, <1>5 DEF Reserved
<1> QED
  BY Zenon, <1>3, <1>4, <1>6 DEF Inv

\* Publication of a job's outcome moves only parked callers.
LEMMA PublishInv ==
  ASSUME Inv, NEW j \in Jobs, NEW status \in Terminal, Publish(j, status),
         UNCHANGED <<leased, completion, callerVars, exported, asked>>
  PROVE  Inv'
<1>1. Slots' = Slots /\ UNCHANGED <<leased, completion, lease, slot, job, exported, asked>>
  BY Zenon DEF Slots, callerVars
<1>2. /\ at' \in [Callers -> Asks \union Uses \union {"idle"}]
      /\ \A c \in Callers : at'[c] = at[c] \/ (at[c] \in Asks /\ at'[c] \in Asks)
  BY Zenon DEF Publish, Inv, Typed, Asks
<1>3. jobs' = [jobs EXCEPT ![j].status = status]
  BY Zenon DEF Publish
<1>4. Typed'
  BY <1>1, <1>2, <1>3 DEF Inv, Typed
<1>5. Quiet
  BY <1>1, <1>2, <1>3 DEF Inv, Typed, Quiet, Terminal
<1> QED
  BY Zenon, <1>4, <1>5, QuietInv

\* One caller goes on within its phase.
LEMMA GoInv ==
  ASSUME Inv, NEW c \in Callers, NEW where, Go(c, where),
         \/ at[c] \in Asks /\ where \in Asks
         \/ at[c] \in Uses /\ where \in Uses /\ (where \in Began => at[c] \in Began),
         UNCHANGED <<leased, lease, slot, jobs, exported, asked>>,
         completion' \in [Slots -> 0 .. MaxJobs], job' \in [Callers -> 0 .. MaxJobs]
  PROVE  Inv'
<1>1. Slots' = Slots
  BY Zenon DEF Slots
<1>2. Typed'
  BY Zenon, <1>1 DEF Inv, Typed, Go
<1>3. Quiet
  BY Zenon DEF Quiet, Go, Inv, Typed
<1> QED
  BY Zenon, <1>2, <1>3, QuietInv

LEMMA AcquiringInv ==
  ASSUME Inv, NEW c \in Callers, Acquiring(c)
  PROVE  Inv'
<1> USE DEF slotVars, jobVars, callerVars
<1>1. CASE Scan(c)
  <2>1. ASSUME NEW s \in Slots, ~leased[s], leased' = [leased EXCEPT ![s] = TRUE],
               completion' = [completion EXCEPT ![s] = 0],
               slot' = [slot EXCEPT ![c] = s], Go(c, "slot")
        PROVE  Inv'
    BY Zenon, <1>1, <2>1, ScanInv DEF Scan
  <2>2. ASSUME UNCHANGED <<leased, completion, slot>>, Go(c, "classify")
        PROVE  Inv'
    BY Zenon, <1>1, <2>2, GoInv DEF Scan, Asks, Inv, Typed
  <2> QED
    BY Zenon, <1>1, <2>1, <2>2 DEF Scan, Available
<1>2. CASE Classify(c)
  <2>1. PICK where \in Asks : Go(c, where)
    BY Zenon, <1>2 DEF Classify, Asks, Go
  <2> QED
    BY Zenon, <1>2, <2>1, GoInv DEF Classify, Asks, Inv, Typed
<1>3. CASE Find(c)
  <2>1. PICK where \in {"drain", "changed"} : Go(c, where)
    BY Zenon, <1>3 DEF Find
  <2>2. job' \in [Callers -> 0 .. MaxJobs]
    BY Zenon, <1>3 DEF Find, Inv, Typed
  <2> QED
    BY Zenon, <1>3, <2>1, <2>2, GoInv DEF Find, Asks, Inv, Typed
<1>4. CASE Drain(c)
  <2>1. job' \in [Callers -> 0 .. MaxJobs]
    BY <1>4, PoolAssumption DEF Drain, Inv, Typed
  <2> QED
    BY Zenon, <1>4, <2>1, GoInv DEF Drain, Asks, Inv, Typed
<1>5. CASE Register(c)
  <2>1. PICK where \in {"scan", "parked"} : Go(c, where)
    BY Zenon, <1>5 DEF Register, Go
  <2> QED
    BY Zenon, <1>5, <2>1, GoInv DEF Register, Asks, Inv, Typed
<1> QED
  BY Zenon, <1>1, <1>2, <1>3, <1>4, <1>5 DEF Acquiring

LEMMA UsingInv ==
  ASSUME Inv, NEW c \in Callers, Using(c)
  PROVE  Inv'
<1> USE DEF slotVars, jobVars, callerVars
<1>1. job[c] \in 0 .. MaxJobs /\ 0 \in 0 .. MaxJobs
  BY PoolAssumption DEF Inv, Typed
<1>2. CASE Stage(c)
  <2>1. CASE Enqueue(c, "stage", 0) /\ Go(c, "record_stage")
    BY Zenon, <1>1, <1>2, <2>1, EnqueueInv DEF Stage, Uses
  <2>2. CASE job' = [job EXCEPT ![c] = 0] /\ Go(c, "execute") /\ UNCHANGED jobs
    <3>1. job' \in [Callers -> 0 .. MaxJobs]
      BY Zenon, <1>1, <2>2 DEF Inv, Typed
    <3> QED
      BY Zenon, <1>2, <2>2, <3>1, GoInv DEF Stage, Uses, Began, Inv, Typed
  <2> QED
    BY Zenon, <1>2, <2>1, <2>2 DEF Stage
<1>3. CASE Execute(c)
  BY Zenon, <1>1, <1>3, EnqueueInv DEF Execute, Uses
<1>4. CASE Download(c)
  <2>1. CASE Enqueue(c, "download", job[c])
    BY Zenon, <1>1, <1>4, <2>1, EnqueueInv DEF Download, Uses
  <2>2. CASE UNCHANGED <<jobs, job>>
    BY Zenon, <1>4, <2>2, GoInv DEF Download, Uses, Began, Inv, Typed
  <2> QED
    BY Zenon, <1>4, <2>1, <2>2 DEF Download
<1>5. CASE Record(c)
  <2>1. completion' \in [Slots -> 0 .. MaxJobs]
    BY Zenon, <1>1, <1>5 DEF Record, Inv, Typed
  <2>2. at[c] \in Uses /\ Recording[at[c]] \in Uses /\ (Recording[at[c]] \in Began => at[c] \in Began)
    <3>1. at[c] \in {"record_stage", "record_graph", "record_download"}
      BY Zenon, <1>5 DEF Record, Recording
    <3>2. /\ Recording["record_stage"] = "execute"
          /\ Recording["record_graph"] = "inference"
          /\ Recording["record_download"] = "readback"
      BY Zenon DEF Recording
    <3> QED
      BY Zenon, <3>1, <3>2 DEF Uses, Began
  <2> QED
    BY Zenon, <1>5, <2>1, <2>2, GoInv DEF Record, Inv, Typed
<1> QED
  BY Zenon, <1>2, <1>3, <1>4, <1>5 DEF Using

LEMMA DeviceInv ==
  ASSUME Inv, NEW j \in Jobs, Device(j)
  PROVE  Inv'
<1> USE DEF slotVars, jobVars
<1>1. CASE JobStart(j)
  <2>1. Slots' = Slots
    BY Zenon, <1>1 DEF JobStart, Slots
  <2>2. jobs' = [jobs EXCEPT ![j].status = "running"]
    BY Zenon, <1>1 DEF JobStart
  <2>3. Typed'
    BY <1>1, <2>1, <2>2 DEF JobStart, Inv, Typed, callerVars
  <2>4. Quiet
    BY <1>1, <2>2 DEF JobStart, Inv, Typed, Quiet, callerVars
  <2> QED
    BY Zenon, <2>3, <2>4, QuietInv
<1>2. ASSUME NEW fails \in BOOLEAN, JobFinish(j, fails)
      PROVE  Inv'
  <2>1. PICK status \in Terminal : Publish(j, status)
    BY Zenon, <1>2 DEF JobFinish, Terminal
  <2> QED
    BY Zenon, <1>2, <2>1, PublishInv DEF JobFinish
<1>3. CASE JobStop(j)
  <2>1. PICK status \in Terminal : Publish(j, status)
    BY Zenon, <1>3 DEF JobStop, Terminal
  <2> QED
    BY Zenon, <1>3, <2>1, PublishInv DEF JobStop
<1> QED
  BY Zenon, <1>1, <1>2, <1>3 DEF Device

LEMMA StepInv == Inv /\ [Next]_vars => Inv'
<1> SUFFICES ASSUME Inv, [Next]_vars PROVE Inv'
  BY Zenon
<1> USE DEF slotVars, jobVars, callerVars
<1>1. ASSUME NEW c \in Callers, Answer(c) \/ Abandon(c) PROVE Inv'
  BY Zenon, <1>1, AnswerInv DEF Answer, Abandon, Asks
<1>2. ASSUME NEW c \in Callers, Cancel(c) PROVE Inv'
  <2>1. Slots' = Slots /\ jobs' = [jobs EXCEPT ![job[c]].cancel = TRUE]
    BY Zenon, <1>2 DEF Cancel, Slots
  <2>2. Typed'
    <3> DEFINE Records == [slot : Slots \union {0}, lease : 0 .. MaxLeases,
                           kind : {"none", "stage", "graph", "download"}, after : 0 .. MaxJobs,
                           status : {"none", "pending", "running"} \union Terminal,
                           cancel : BOOLEAN]
    <3>1. jobs' \in [Jobs -> Records]
      <4>1. jobs \in [Jobs -> Records]
        BY Zenon DEF Inv, Typed
      <4>2. \A r \in Records : [r EXCEPT !.cancel = TRUE] \in Records
        BY Zenon
      <4> HIDE DEF Records
      <4>3. jobs' = [j \in Jobs |-> IF j = job[c] THEN [jobs[j] EXCEPT !.cancel = TRUE] ELSE jobs[j]]
        BY Zenon, <2>1, <4>1
      <4> QED
        BY Zenon, <4>1, <4>2, <4>3
    <3> QED
      BY Zenon, <1>2, <2>1, <3>1 DEF Cancel, Inv, Typed
  <2>3. Quiet
    BY <1>2, <2>1 DEF Cancel, Inv, Typed, Quiet
  <2> QED
    BY Zenon, <2>2, <2>3, QuietInv
<1>3. CASE UNCHANGED vars
  <2>1. Slots' = Slots /\ Typed'
    BY Zenon, <1>3 DEF vars, Slots, Inv, Typed
  <2>2. Quiet
    BY Zenon, <1>3 DEF vars, Quiet
  <2> QED
    BY Zenon, <2>1, <2>2, QuietInv
<1> QED
  BY Zenon, <1>1, <1>2, <1>3, AskInv, AcquiringInv, UsingInv, ExportInv, DropInv, DropOutputInv,
     DeviceInv DEF Next
-----------------------------------------------------------------------------
(* The jobs of a slot. *)

\* Jobs are numbered as they are submitted.
Numbered ==
  /\ \A j \in Jobs : jobs[j].status # "none" <=> jobs[j].lease # 0
  /\ \A j \in Jobs : jobs[j].lease # 0 => jobs[j].slot \in Slots
  /\ \A j \in Jobs : jobs[j].status = "none" => jobs[j].kind = "none" /\ ~jobs[j].cancel
  /\ \A j, k \in Jobs : k < j /\ jobs[j].lease # 0 => jobs[k].lease # 0
\* A lease's graph is submitted once.
OneGraph ==
  /\ \A j, k \in Jobs : /\ jobs[j].kind = "graph" /\ jobs[k].kind = "graph"
                        /\ jobs[j].lease = jobs[k].lease
                      => j = k
  /\ \A c \in Callers, j \in Jobs : at[c] \in Uses \ Began /\ jobs[j].lease = lease[c]
                                      => jobs[j].kind # "graph"
\* Graphs of a slot start in order, and the live lease submitted the last of them.
InOrder ==
  /\ \A j, k \in Jobs : /\ jobs[j].status \in {"running", "ok"} /\ k < j
                        /\ jobs[k].slot = jobs[j].slot
                        /\ jobs[j].kind = "graph" /\ jobs[k].kind = "graph"
                      => IsComplete(k)
  /\ \A j, k \in Jobs : /\ j < k /\ jobs[k].lease # 0 /\ jobs[k].slot = jobs[j].slot
                        /\ Live(jobs[j].lease, jobs[j].slot)
                      => jobs[k].lease = jobs[j].lease
Ordered == Numbered /\ OneGraph /\ InOrder

\* Somebody asked for the cancellation of a job of lease l.
Broken(l) == \E k \in Jobs : jobs[k].lease = l /\ jobs[k].cancel
\* Each job of a lease is submitted after the one before it, which its holder knows.
Linked ==
  /\ \A j, k \in Jobs : jobs[j].lease = jobs[k].lease /\ jobs[j].lease # 0 /\ j < k
                          => j <= jobs[k].after
  /\ \A k \in Jobs : jobs[k].lease # 0 /\ jobs[k].after # 0
                       => /\ jobs[k].after \in Jobs
                          /\ jobs[jobs[k].after].lease = jobs[k].lease
  /\ \A c \in Callers :
       /\ at[c] = "slot" => \A j \in Jobs : jobs[j].lease # lease[c]
       /\ at[c] \in Uses \ {"slot", "execute"} => job[c] # 0
       /\ at[c] \in Uses \ {"slot"} =>
            /\ \A j \in Jobs : jobs[j].lease = lease[c] => j <= job[c]
            /\ job[c] # 0 => jobs[job[c]].lease = lease[c]
\* So a lease's jobs end one after the other, unless one is cancelled.
Chained ==
  \A j, k \in Jobs : /\ j < k /\ jobs[j].lease = jobs[k].lease /\ jobs[k].lease # 0
                     /\ jobs[k].status \in {"running"} \union Terminal
                   => IsComplete(j) \/ Broken(jobs[k].lease)
\* The slot's completion is the last job of its lease, but for one being recorded.
Covered(j) ==
  \/ LET last == completion[jobs[j].slot] IN
     last # 0 /\ jobs[last].lease = jobs[j].lease /\ j <= last
  \/ \E c \in Callers : at[c] \in DOMAIN Recording /\ lease[c] = jobs[j].lease
Recorded ==
  /\ \A c \in Callers : at[c] \in Uses /\ completion[slot[c]] # 0
                          => jobs[completion[slot[c]]].lease = lease[c]
  /\ \A j \in Jobs : jobs[j].lease # 0 /\ ~IsComplete(j) /\ ~Broken(jobs[j].lease)
                       => Covered(j)

Tracked == Linked /\ Chained /\ Recorded
-----------------------------------------------------------------------------
\* A slot in use has one user.
LEMMA HolderAlone ==
  ASSUME Inv, NEW c \in Callers, at[c] \in Uses
  PROVE  /\ lease[c] \in Leases /\ lease[c] # 0 /\ slot[c] \in Slots
         /\ Live(lease[c], slot[c])
         /\ \A l \in Leases : Live(l, slot[c]) => l = lease[c]
         /\ \A d \in Callers : at[d] \in Uses /\ slot[d] = slot[c] => d = c
<1>1. \A d \in Callers : at[d] \in Uses => /\ lease[d] \in Leases /\ lease[d] # 0
                                           /\ slot[d] \in Slots /\ Live(lease[d], slot[d])
  <2> SUFFICES ASSUME NEW d \in Callers, at[d] \in Uses
               PROVE  /\ lease[d] \in Leases /\ lease[d] # 0
                      /\ slot[d] \in Slots /\ Live(lease[d], slot[d])
    BY Zenon
  <2>1. lease[d] \in Leases /\ lease[d] # 0 /\ slot[d] \in Slots
    BY PoolAssumption DEF Inv, Typed, Callings, Uses, Leases
  <2>2. Live(lease[d], slot[d])
    BY Zenon, HoldsUses DEF Live
  <2> QED
    BY Zenon, <2>1, <2>2
<1> QED
  BY Zenon, <1>1 DEF Inv, Reserved, Callings

\* Steps that leave the jobs and whoever uses a slot alone, or let it go.
Unmoved ==
  /\ UNCHANGED <<jobs, completion>> /\ Slots' = Slots
  /\ \A c \in Callers :
       /\ at'[c] \in Uses => /\ at[c] = at'[c] /\ lease'[c] = lease[c]
                             /\ slot'[c] = slot[c] /\ job'[c] = job[c]
       /\ at[c] \in DOMAIN Recording => at'[c] = at[c]
  /\ \A l \in Leases, s \in Slots : Live(l, s)' => Live(l, s)

LEMMA JobsTyped ==
  ASSUME Inv
  PROVE  \A j \in Jobs : /\ jobs[j].lease # 0 => jobs[j].lease \in Leases
                         /\ jobs[j].status \in {"none", "pending", "running"} \union Terminal
                         /\ jobs[j].cancel \in BOOLEAN /\ j \in Int
  BY PoolAssumption DEF Inv, Typed, Leases, Jobs

LEMMA IdsTyped ==
  ASSUME Inv
  PROVE  /\ \A c \in Callers : job[c] # 0 => job[c] \in Jobs
         /\ \A s \in Slots : completion[s] # 0 => completion[s] \in Jobs
  BY PoolAssumption DEF Inv, Typed, Jobs

LEMMA RecordingUses == DOMAIN Recording = {"record_stage", "record_graph", "record_download"}
  BY Zenon DEF Recording

LEMMA UnmovedOrdered ==
  ASSUME Inv, Ordered, Unmoved
  PROVE  Ordered'
<1>1. Numbered'
  BY Zenon DEF Ordered, Numbered, Unmoved
<1>2. OneGraph'
  BY Zenon DEF Ordered, OneGraph, Unmoved
<1>3. InOrder'
  <2>1. \A j, k \in Jobs : j < k /\ jobs[k].lease # 0 /\ Live(jobs[j].lease, jobs[j].slot)'
                             => Live(jobs[j].lease, jobs[j].slot)
    BY Zenon, JobsTyped DEF Ordered, Numbered, Unmoved
  <2> QED
    BY Zenon, <2>1 DEF Ordered, InOrder, Unmoved, IsComplete
<1> QED
  BY Zenon, <1>1, <1>2, <1>3 DEF Ordered

LEMMA UnmovedTracked ==
  ASSUME Inv, Tracked, Unmoved
  PROVE  Tracked'
<1>1. Linked'
  BY DEF Tracked, Linked, Unmoved, Uses
<1>2. \A l : Broken(l)' <=> Broken(l)
  BY Zenon DEF Broken, Unmoved
<1>3. Chained'
  BY Zenon, <1>2 DEF Tracked, Chained, Unmoved, IsComplete
<1>4. Recorded'
  <2>1. \A c \in Callers : at[c] \in DOMAIN Recording
                             => at'[c] \in DOMAIN Recording /\ lease'[c] = lease[c]
    BY Zenon, RecordingUses DEF Unmoved, Uses
  <2>2. \A c \in Callers : at'[c] \in Uses /\ completion'[slot'[c]] # 0
                             => jobs'[completion'[slot'[c]]].lease = lease'[c]
    BY DEF Tracked, Recorded, Unmoved
  <2>3. \A j \in Jobs : Covered(j) => Covered(j)'
    BY Zenon, <2>1 DEF Covered, Unmoved
  <2> QED
    BY Zenon, <1>2, <2>2, <2>3 DEF Tracked, Recorded, Unmoved, IsComplete
<1> QED
  BY Zenon, <1>1, <1>3, <1>4 DEF Tracked

LEMMA LeavingUnmoved ==
  ASSUME UNCHANGED <<jobs, completion>>, Slots' = Slots, exported' \subseteq exported,
         \A c \in Callers :
           /\ at'[c] \in Uses => /\ at[c] = at'[c] /\ lease'[c] = lease[c]
                                 /\ slot'[c] = slot[c] /\ job'[c] = job[c]
           /\ at[c] \in DOMAIN Recording => at'[c] = at[c]
  PROVE  Unmoved
<1>1. \A l \in Leases, s \in Slots : Live(l, s)' => Live(l, s)
  BY Zenon, HoldsUses, HoldsUsesNext DEF Live
<1> QED
  BY Zenon, <1>1 DEF Unmoved

\* One caller goes on outside of its use of a slot.
LEMMA OneUnmoved ==
  ASSUME Inv, NEW c \in Callers, UNCHANGED <<leased, completion, jobs>>, exported' = exported,
         NEW where, where \notin Uses, at' = [at EXCEPT ![c] = where], at[c] \notin DOMAIN Recording,
         \A d \in Callers \ {c} : lease'[d] = lease[d] /\ slot'[d] = slot[d] /\ job'[d] = job[d]
  PROVE  Unmoved
<1>1. Slots' = Slots
  BY Zenon DEF Slots
<1>2. \A d \in Callers : d # c => at'[d] = at[d]
  BY Zenon DEF Inv, Typed
<1>3. at'[c] = where
  BY Zenon DEF Inv, Typed
<1> QED
  BY Zenon, <1>1, <1>2, <1>3, LeavingUnmoved

LEMMA AcquiringUnmoved ==
  ASSUME Inv, NEW c \in Callers,
         \/ \E mode \in Modes : Ask(c, mode)
         \/ Scan(c) /\ UNCHANGED leased
         \/ Classify(c) \/ Find(c) \/ Drain(c) \/ Register(c) \/ Answer(c) \/ Abandon(c)
  PROVE  Unmoved
<1> USE DEF slotVars, jobVars, callerVars, Go, Uses
<1>1. CASE \E mode \in Modes : Ask(c, mode)
  <2>1. \A d \in Callers \ {c} : lease'[d] = lease[d] /\ slot'[d] = slot[d] /\ job'[d] = job[d]
    BY Zenon, <1>1 DEF Ask, Inv, Typed
  <2> QED
    BY Zenon, <1>1, <2>1, OneUnmoved, RecordingUses DEF Ask
<1>2. CASE Scan(c) /\ UNCHANGED leased
  <2>1. UNCHANGED <<completion, slot, lease, job, jobs, exported>> /\ Go(c, "classify")
    <3>1. ASSUME NEW s \in Slots, Available(s), leased' = [leased EXCEPT ![s] = TRUE] PROVE FALSE
      BY Zenon, <1>2, <3>1 DEF Available, Inv, Typed
    <3> QED
      BY Zenon, <1>2, <3>1 DEF Scan
  <2> QED
    BY Zenon, <1>2, <2>1, OneUnmoved, RecordingUses DEF Scan
<1>3. CASE Classify(c)
  <2>1. PICK where \in Asks : Go(c, where)
    BY Zenon, <1>3 DEF Classify, Asks
  <2>2. where \notin Uses
    BY Zenon DEF Asks
  <2> QED
    BY Zenon, <1>3, <2>1, <2>2, OneUnmoved, RecordingUses DEF Classify
<1>4. CASE Find(c)
  <2>1. PICK where \in {"drain", "changed"} : Go(c, where)
    BY Zenon, <1>4 DEF Find
  <2>2. \A d \in Callers \ {c} : job'[d] = job[d]
    BY Zenon, <1>4 DEF Find, Inv, Typed
  <2> QED
    BY Zenon, <1>4, <2>1, <2>2, OneUnmoved, RecordingUses DEF Find
<1>5. CASE Drain(c)
  <2>1. \A d \in Callers \ {c} : job'[d] = job[d]
    BY Zenon, <1>5 DEF Drain, Inv, Typed
  <2> QED
    BY Zenon, <1>5, <2>1, OneUnmoved, RecordingUses DEF Drain
<1>6. CASE Register(c)
  <2>1. PICK where \in {"scan", "parked"} : Go(c, where)
    BY Zenon, <1>6 DEF Register
  <2> QED
    BY Zenon, <1>6, <2>1, OneUnmoved, RecordingUses DEF Register
<1>7. CASE Answer(c) \/ Abandon(c)
  <2>1. \A d \in Callers \ {c} : lease'[d] = lease[d] /\ slot'[d] = slot[d] /\ job'[d] = job[d]
    BY Zenon, <1>7 DEF Answer, Abandon, Return, Inv, Typed
  <2> QED
    BY Zenon, <1>7, <2>1, OneUnmoved, RecordingUses DEF Answer, Abandon
<1> QED
  BY Zenon, <1>1, <1>2, <1>3, <1>4, <1>5, <1>6, <1>7

LEMMA LeavingUseUnmoved ==
  ASSUME Inv, \/ \E c \in Callers : Export(c) \/ Drop(c)
              \/ \E l \in Leases, s \in Slots : DropOutput(l, s)
              \/ UNCHANGED vars
  PROVE  Unmoved
<1> USE DEF slotVars, jobVars, callerVars
<1>1. ASSUME NEW c \in Callers, Export(c) PROVE Unmoved
  <2>1. /\ Slots' = Slots /\ at[c] \in Uses
        /\ UNCHANGED <<completion, lease, slot, job, jobs, at>>
        /\ exported' = exported \union {lease[c]}
    BY Zenon, <1>1 DEF Export, Slots, Uses
  <2>2. \A l \in Leases, s \in Slots : Live(l, s)' => Live(l, s)
    BY <2>1, HoldsUses, HoldsUsesNext, SMTT(30) DEF Inv, Placed, Live
  <2> QED
    BY Zenon, <2>1, <2>2 DEF Unmoved
<1>2. ASSUME NEW c \in Callers, Drop(c) PROVE Unmoved
  <2> DEFINE left == [at EXCEPT ![c] = "idle"]
  <2>1. /\ UNCHANGED <<completion, jobs, exported>>
        /\ at[c] \in {"slot", "execute", "inference", "readback"}
        /\ at' = left \/ at' = Wake(wakers, left)
        /\ leased' = leased \/ leased' = [leased EXCEPT ![slot[c]] = FALSE]
    BY Zenon, <1>2 DEF Drop, LeaseDrop
  <2>2. Slots' = Slots
    BY Zenon, <2>1 DEF Slots
  <2>3. left \in [Callers -> Asks \union Uses \union {"idle"}]
    BY Zenon DEF Inv, Typed
  <2>4. \A d \in Callers : at'[d] = left[d] \/ (left[d] \in Asks /\ at'[d] \in Asks)
    BY Zenon, <2>1, <2>3, WakeMoves
  <2>5. \A d \in Callers : /\ at'[d] \in Uses => d # c /\ at'[d] = at[d]
                           /\ at[d] \in DOMAIN Recording => at'[d] = at[d]
    BY <2>1, <2>4, RecordingUses DEF Inv, Typed, Asks, Uses
  <2>6. \A d \in Callers \ {c} : lease'[d] = lease[d] /\ slot'[d] = slot[d] /\ job'[d] = job[d]
    BY Zenon, <1>2 DEF Drop, Return, Inv, Typed
  <2> QED
    BY Zenon, <2>1, <2>2, <2>5, <2>6, LeavingUnmoved
<1>3. ASSUME NEW l \in Leases, NEW s \in Slots, DropOutput(l, s) PROVE Unmoved
  <2>1. /\ UNCHANGED <<completion, jobs, lease, slot, job>> /\ exported' \subseteq exported
        /\ at' = at \/ at' = Wake(wakers, at)
        /\ leased' = leased \/ leased' = [leased EXCEPT ![s] = FALSE]
    BY Zenon, <1>3 DEF DropOutput, LeaseDrop
  <2>2. Slots' = Slots
    BY Zenon, <2>1 DEF Slots
  <2>3. at \in [Callers -> Asks \union Uses \union {"idle"}]
    BY Zenon DEF Inv, Typed
  <2>4. \A d \in Callers : at'[d] = at[d] \/ (at[d] \in Asks /\ at'[d] \in Asks)
    BY Zenon, <2>1, <2>3, WakeMoves
  <2>5. \A d \in Callers : /\ at'[d] \in Uses => at'[d] = at[d]
                           /\ at[d] \in DOMAIN Recording => at'[d] = at[d]
    BY Zenon, <2>4, RecordingUses DEF Asks, Uses
  <2> QED
    BY Zenon, <2>1, <2>2, <2>5, LeavingUnmoved
<1>4. CASE UNCHANGED vars
  <2>1. Slots' = Slots
    BY Zenon, <1>4 DEF vars, Slots
  <2> QED
    BY Zenon, <1>4, <2>1, LeavingUnmoved DEF vars
<1> QED
  BY Zenon, <1>1, <1>2, <1>3, <1>4
-----------------------------------------------------------------------------
\* A slot that is handed out is drained: the last job of its previous lease has ended,
\* and with it the earlier ones, unless one of them was cancelled.
LEMMA DrainedSlot ==
  ASSUME Inv, Tracked, NEW s \in Slots, Available(s), NEW j \in Jobs, jobs[j].lease # 0,
         jobs[j].slot = s, ~IsComplete(j)
  PROVE  Broken(jobs[j].lease)
<1> SUFFICES ASSUME ~Broken(jobs[j].lease) PROVE FALSE
  BY Zenon
<1>1. \A c \in Callers : at[c] \in DOMAIN Recording => lease[c] # jobs[j].lease
  <2> SUFFICES ASSUME NEW c \in Callers, at[c] \in DOMAIN Recording, lease[c] = jobs[j].lease
               PROVE  FALSE
    BY Zenon
  <2>1. at[c] \in Uses
    BY Zenon, RecordingUses DEF Uses
  <2>2. slot[c] = s
    BY Zenon, <2>1 DEF Inv, Placed
  <2>3. leased[s]
    BY Zenon, <2>1, <2>2, HolderAlone DEF Inv, Reserved
  <2> QED
    BY Zenon, <2>3 DEF Available
<1> DEFINE k == completion[s]
<1>2. k # 0 /\ jobs[k].lease = jobs[j].lease /\ j <= k
  BY Zenon, <1>1 DEF Tracked, Recorded, Covered
<1>3. k \in Jobs /\ IsComplete(k)
  BY <1>2 DEF Available, Drained, Inv, Typed, Jobs
<1>4. j # k /\ j < k
  BY <1>2, <1>3 DEF Jobs
<1> QED
  BY Zenon, <1>2, <1>3, <1>4 DEF Tracked, Chained, IsComplete

LEMMA ScanOrdered ==
  ASSUME Inv, Ordered, Tracked, NEW c \in Callers, NEW s \in Slots, at[c] = "scan", Available(s),
         leased' = [leased EXCEPT ![s] = TRUE], completion' = [completion EXCEPT ![s] = 0],
         slot' = [slot EXCEPT ![c] = s], Go(c, "slot"),
         UNCHANGED <<lease, job, jobs, exported>>
  PROVE  Ordered' /\ Tracked'
<1>1. Slots' = Slots
  BY Zenon DEF Slots
<1>2. /\ at'[c] = "slot" /\ slot'[c] = s
      /\ \A d \in Callers : d # c => at'[d] = at[d] /\ slot'[d] = slot[d]
  BY Zenon DEF Go, Inv, Typed
<1>3. completion'[s] = 0 /\ \A t \in Slots : t # s => completion'[t] = completion[t]
  BY Zenon DEF Inv, Typed
<1>4. \A j \in Jobs : jobs[j].lease # lease[c]
  BY Zenon DEF Inv, Callings, Asks
<1>5. \A l : \A t : Live(l, t)' => Live(l, t) \/ l = lease[c]
  BY Zenon, <1>2, HoldsUses, HoldsUsesNext DEF Live
<1>6. Ordered'
  <2>1. Numbered'
    BY Zenon, <1>1 DEF Ordered, Numbered
  <2>2. OneGraph'
    BY Zenon, <1>2, <1>4 DEF Ordered, OneGraph
  <2>3. InOrder'
    BY Zenon, <1>4, <1>5 DEF Ordered, InOrder, IsComplete
  <2> QED
    BY Zenon, <2>1, <2>2, <2>3 DEF Ordered
<1>7. Linked'
  BY Zenon, <1>2, <1>4 DEF Tracked, Linked
<1>8. \A l : Broken(l)' <=> Broken(l)
  BY Zenon DEF Broken
<1>9. Chained'
  BY Zenon, <1>8 DEF Tracked, Chained, IsComplete
<1>10. Recorded'
  <2>1. \A d \in Callers : d # c /\ at[d] \in Uses => slot[d] \in Slots /\ slot[d] # s
    BY Zenon, HolderAlone DEF Inv, Reserved, Available
  <2>2. (\A d \in Callers : at[d] \in Uses /\ completion[slot[d]] # 0
                              => jobs[completion[slot[d]]].lease = lease[d])'
    BY <1>2, <1>3, <2>1 DEF Tracked, Recorded
  <2>3. ASSUME NEW j \in Jobs, jobs[j].lease # 0, ~IsComplete(j), ~Broken(jobs[j].lease)
        PROVE  Covered(j)'
    <3>1. jobs[j].slot \in Slots /\ jobs[j].slot # s
      BY Zenon, <2>3, DrainedSlot DEF Ordered, Numbered
    <3>2. completion'[jobs[j].slot] = completion[jobs[j].slot]
      BY Zenon, <1>3, <3>1
    <3>3. \A d \in Callers : at[d] \in DOMAIN Recording => at'[d] \in DOMAIN Recording
      BY Zenon, <1>2, RecordingUses
    <3>4. Covered(j)
      BY Zenon, <2>3 DEF Tracked, Recorded
    <3> QED
      BY Zenon, <3>2, <3>3, <3>4 DEF Covered
  <2> QED
    BY Zenon, <1>8, <2>2, <2>3 DEF Recorded, IsComplete
<1> QED
  BY Zenon, <1>6, <1>7, <1>9, <1>10 DEF Tracked

\* A submission is the last job of its slot and of its lease.
LEMMA EnqueueOrdered ==
  ASSUME Inv, Ordered, Tracked, NEW c \in Callers,
         \/ at[c] = "slot" /\ Enqueue(c, "stage", 0) /\ Go(c, "record_stage")
         \/ at[c] = "execute" /\ Enqueue(c, "graph", job[c]) /\ Go(c, "record_graph")
         \/ at[c] = "inference" /\ Enqueue(c, "download", job[c]) /\ Go(c, "record_download"),
         UNCHANGED <<leased, completion, lease, slot, exported>>
  PROVE  Ordered' /\ Tracked'
<1>1. PICK j \in Jobs, kind \in {"stage", "graph", "download"}, after \in {0, job[c]},
           where \in {"record_stage", "record_graph", "record_download"} :
        /\ jobs[j].status = "none" /\ \A k \in Jobs : jobs[k].status = "none" => j <= k
        /\ jobs' = [jobs EXCEPT ![j] = [slot |-> slot[c], lease |-> lease[c], kind |-> kind,
                                        after |-> after, status |-> "pending", cancel |-> FALSE]]
        /\ job' = [job EXCEPT ![c] = j] /\ at' = [at EXCEPT ![c] = where]
        /\ \/ at[c] = "slot" /\ kind = "stage" /\ after = 0 /\ where = "record_stage"
           \/ at[c] = "execute" /\ kind = "graph" /\ after = job[c] /\ where = "record_graph"
           \/ at[c] = "inference" /\ kind = "download" /\ after = job[c]
                /\ where = "record_download"
  BY Zenon DEF Enqueue, Submitted, Go
<1>2. at[c] \in Uses /\ at[c] \notin DOMAIN Recording /\ where \in Uses /\ where \in DOMAIN Recording
  BY Zenon, <1>1, RecordingUses DEF Uses
<1>3. /\ lease[c] \in Leases /\ lease[c] # 0 /\ slot[c] \in Slots /\ Live(lease[c], slot[c])
      /\ \A l \in Leases : Live(l, slot[c]) => l = lease[c]
      /\ \A d \in Callers : d # c => lease[d] # lease[c]
  BY Zenon, <1>2, HolderAlone DEF Inv, Callings
<1>4. /\ jobs'[j].lease = lease[c] /\ jobs'[j].slot = slot[c] /\ jobs'[j].status = "pending"
      /\ jobs'[j].kind = kind /\ jobs'[j].after = after /\ jobs'[j].cancel = FALSE
      /\ \A k \in Jobs \ {j} : jobs'[k] = jobs[k]
  BY Zenon, <1>1 DEF Inv, Typed
<1>5. /\ jobs[j].lease = 0 /\ ~jobs[j].cancel
      /\ \A k \in Jobs : jobs[k].lease # 0 => k < j
      /\ \A k \in Jobs : jobs[k].lease = 0 => ~(k < j)
  <2>1. jobs[j].lease = 0 /\ ~jobs[j].cancel
    BY Zenon, <1>1 DEF Ordered, Numbered
  <2>2. \A k \in Jobs : jobs[k].lease # 0 => ~(j < k) /\ k # j
    BY Zenon, <2>1 DEF Ordered, Numbered
  <2>3. \A k \in Jobs : jobs[k].lease = 0 => j <= k
    BY Zenon, <1>1 DEF Ordered, Numbered
  <2> QED
    BY <2>1, <2>2, <2>3 DEF Jobs
<1>6. /\ at'[c] = where /\ job'[c] = j
      /\ \A d \in Callers : d # c => at'[d] = at[d] /\ job'[d] = job[d]
  BY Zenon, <1>1 DEF Inv, Typed
<1>7. Slots' = Slots
  BY Zenon DEF Slots
<1>8. \A l \in Leases, s \in Slots : Live(l, s)' => Live(l, s)
  BY <1>2, <1>3, <1>4, <1>6, HoldsUses, HoldsUsesNext DEF Live
<1>9. Numbered'
  <2>1. \A k \in Jobs : k < j => jobs'[k].lease # 0
    BY Zenon, <1>4, <1>5 DEF Jobs
  <2>2. \A i, k \in Jobs : k < i /\ jobs'[i].lease # 0 => jobs'[k].lease # 0
    BY Zenon, <1>3, <1>4, <1>5, <2>1 DEF Ordered, Numbered
  <2> QED
    BY <1>3, <1>4, <1>7, <2>2 DEF Ordered, Numbered
<1>10. OneGraph'
  <2>1. kind = "graph" => \A k \in Jobs : jobs[k].lease = lease[c] => jobs[k].kind # "graph"
    BY Zenon, <1>1 DEF Ordered, OneGraph, Uses, Began
  <2>2. \A i, k \in Jobs : /\ jobs'[i].kind = "graph" /\ jobs'[k].kind = "graph"
                           /\ jobs'[i].lease = jobs'[k].lease
                         => i = k
    BY <1>4, <2>1 DEF Ordered, OneGraph
  <2>3. where \notin Began => /\ kind # "graph" /\ at[c] \in Uses \ Began
    BY Zenon, <1>1 DEF Began, Uses
  <2>4. \A d \in Callers, k \in Jobs : at'[d] \in Uses \ Began /\ jobs'[k].lease = lease[d]
                                         => jobs'[k].kind # "graph"
    BY <1>3, <1>4, <1>6, <2>3 DEF Ordered, OneGraph
  <2> QED
    BY Zenon, <2>2, <2>4 DEF OneGraph
<1>11. InOrder'
  <2>1. \A i, k \in Jobs : /\ jobs'[i].status \in {"running", "ok"} /\ k < i
                           /\ jobs'[k].slot = jobs'[i].slot
                           /\ jobs'[i].kind = "graph" /\ jobs'[k].kind = "graph"
                         => IsComplete(k)'
    <3>1. \A i \in Jobs : jobs'[i].status \in {"running", "ok"} => i # j /\ jobs[i].lease # 0
      BY Zenon, <1>4 DEF Ordered, Numbered
    <3> QED
      BY <1>4, <1>5, <3>1 DEF Ordered, InOrder, IsComplete, Jobs
  <2>2. ASSUME NEW i \in Jobs, NEW k \in Jobs, i < k, jobs'[k].lease # 0,
               jobs'[k].slot = jobs'[i].slot, Live(jobs[i].lease, jobs[i].slot)'
        PROVE  jobs'[k].lease = jobs'[i].lease
    <3>1. i # j
      BY <1>4, <1>5, <2>2 DEF Jobs
    <3>2. jobs'[i] = jobs[i] /\ jobs[i].lease # 0
      BY Zenon, <1>4, <1>9, <2>2, <3>1 DEF Numbered
    <3>3. jobs[i].lease \in Leases /\ jobs[i].slot \in Slots
      BY Zenon, <3>2, JobsTyped DEF Ordered, Numbered
    <3>4. Live(jobs[i].lease, jobs[i].slot)
      BY Zenon, <1>8, <2>2, <3>2, <3>3
    <3> QED
      BY <1>3, <1>4, <2>2, <3>2, <3>3, <3>4 DEF Ordered, InOrder
  <2> QED
    BY Zenon, <2>1, <2>2 DEF InOrder
<1>12. Linked'
  <2>1. \A k \in Jobs : jobs[k].lease = lease[c] => k <= after
    BY Zenon, <1>1 DEF Tracked, Linked, Uses
  <2>2. after # 0 => after \in Jobs /\ jobs[after].lease = lease[c]
    BY <1>1, <1>2 DEF Tracked, Linked, Inv, Typed, Jobs
  <2>3. \A i, k \in Jobs : jobs'[i].lease = jobs'[k].lease /\ jobs'[i].lease # 0 /\ i < k
                             => i <= jobs'[k].after
    BY <1>4, <1>5, <2>1 DEF Tracked, Linked, Jobs
  <2>4. \A k \in Jobs : jobs'[k].lease # 0 /\ jobs'[k].after # 0
                          => /\ jobs'[k].after \in Jobs
                             /\ jobs'[jobs'[k].after].lease = jobs'[k].lease
    BY <1>3, <1>4, <1>5, <2>2 DEF Tracked, Linked
  <2>5. ASSUME NEW d \in Callers, d # c
        PROVE  /\ at'[d] = "slot" => \A k \in Jobs : jobs'[k].lease # lease[d]
               /\ at'[d] \in Uses \ {"slot", "execute"} => job'[d] # 0
               /\ at'[d] \in Uses \ {"slot"} =>
                    /\ \A k \in Jobs : jobs'[k].lease = lease[d] => k <= job'[d]
                    /\ job'[d] # 0 => jobs'[job'[d]].lease = lease[d]
    <3>1. \A k \in Jobs : jobs'[k].lease = lease[d] => jobs[k].lease = lease[d]
      BY Zenon, <1>3, <1>4, <2>5
    <3>2. at[d] \in Uses => lease[d] # 0
      BY Zenon, HolderAlone
    <3>3. job[d] # 0 => job[d] \in Jobs
      BY DEF Inv, Typed, Jobs
    <3> QED
      BY <1>4, <1>5, <1>6, <2>5, <3>1, <3>2, <3>3 DEF Tracked, Linked
  <2>6. /\ where \in Uses \ {"slot"} /\ j # 0
        /\ \A k \in Jobs : jobs'[k].lease = lease[c] => k <= j
    BY <1>1, <1>2, <1>3, <1>4, <1>5, RecordingUses DEF Jobs
  <2> QED
    BY <1>4, <1>6, <2>3, <2>4, <2>5, <2>6 DEF Linked
<1>13. \A l \in Leases : Broken(l)' <=> Broken(l)
  BY Zenon, <1>4, <1>5 DEF Broken
<1>14. Chained'
  <2> SUFFICES ASSUME NEW i \in Jobs, NEW k \in Jobs, i < k, jobs'[i].lease = jobs'[k].lease,
                      jobs'[k].lease # 0, jobs'[k].status \in {"running"} \union Terminal
               PROVE  IsComplete(i)' \/ Broken(jobs[k].lease)'
    BY Zenon, <1>4 DEF Chained
  <2>1. k # j /\ i # j
    BY <1>4, <1>5 DEF Jobs, Terminal
  <2> QED
    BY Zenon, <1>4, <1>13, <2>1, JobsTyped DEF Tracked, Chained, IsComplete
<1>15. Recorded'
  <2>1. \A k \in Jobs : k # 0
    BY DEF Jobs
  <2>2. \A s \in Slots : completion[s] # 0 => completion[s] \in Jobs
    BY Zenon, IdsTyped
  <2>3. (\A d \in Callers : at[d] \in Uses /\ completion[slot[d]] # 0
                              => jobs[completion[slot[d]]].lease = lease[d])'
    <3> SUFFICES ASSUME NEW d \in Callers, at'[d] \in Uses, completion[slot[d]] # 0
                 PROVE  jobs'[completion[slot[d]]].lease = lease[d]
      BY Zenon
    <3>1. at[d] \in Uses
      BY Zenon, <1>2, <1>6
    <3>2. slot[d] \in Slots /\ lease[d] # 0 /\ jobs[completion[slot[d]]].lease = lease[d]
      BY Zenon, <3>1, HolderAlone DEF Tracked, Recorded
    <3> QED
      BY Zenon, <1>4, <1>5, <2>2, <3>2
  <2>4. ASSUME NEW i \in Jobs, jobs'[i].lease # 0, ~IsComplete(i)', ~Broken(jobs[i].lease)'
        PROVE  Covered(i)'
    <3>1. CASE i = j
      BY Zenon, <1>2, <1>4, <1>6, <3>1 DEF Covered
    <3>2. CASE i # j
      <4>1. jobs'[i] = jobs[i] /\ jobs[i].lease \in Leases /\ jobs[i].slot \in Slots
        BY Zenon, <1>4, <2>4, <3>2, JobsTyped DEF Ordered, Numbered
      <4>2. ~IsComplete(i) /\ ~Broken(jobs[i].lease) /\ jobs[i].lease # 0
        BY Zenon, <1>13, <2>4, <4>1 DEF IsComplete
      <4>3. Covered(i)
        BY Zenon, <4>2 DEF Tracked, Recorded
      <4>4. \A d \in Callers : at[d] \in DOMAIN Recording => at'[d] \in DOMAIN Recording
        BY Zenon, <1>2, <1>6
      <4> QED
        BY <1>4, <1>5, <2>2, <4>1, <4>2, <4>3, <4>4 DEF Covered
    <3> QED
      BY Zenon, <3>1, <3>2
  <2> QED
    BY Zenon, <2>3, <2>4 DEF Recorded
<1> QED
  BY Zenon, <1>9, <1>10, <1>11, <1>12, <1>14, <1>15 DEF Ordered, Tracked

\* A call without a staging copy goes on without a job of its own.
LEMMA SkipOrdered ==
  ASSUME Inv, Ordered, Tracked, NEW c \in Callers,
         \/ at[c] = "slot" /\ Go(c, "execute") /\ job' = [job EXCEPT ![c] = 0]
         \/ at[c] = "inference" /\ Go(c, "record_download") /\ UNCHANGED job,
         UNCHANGED <<leased, completion, jobs, lease, slot, exported>>
  PROVE  Ordered' /\ Tracked'
<1>1. /\ at[c] \in Uses /\ at'[c] \in Uses /\ at[c] \notin DOMAIN Recording
      /\ at'[c] \notin Began => at[c] \notin Began
      /\ \A d \in Callers : d # c => at'[d] = at[d] /\ job'[d] = job[d]
  BY Zenon, RecordingUses DEF Go, Inv, Typed, Uses, Began
<1>2. Slots' = Slots
  BY Zenon DEF Slots
<1>3. \A l, s : Live(l, s)' <=> Live(l, s)
  BY Zenon, <1>1, HoldsUses, HoldsUsesNext DEF Live
<1>4. Ordered'
  <2>1. Numbered'
    BY Zenon, <1>2 DEF Ordered, Numbered
  <2>2. OneGraph'
    BY Zenon, <1>1 DEF Ordered, OneGraph
  <2>3. InOrder'
    BY Zenon, <1>3 DEF Ordered, InOrder, IsComplete
  <2> QED
    BY Zenon, <2>1, <2>2, <2>3 DEF Ordered
<1>5. Linked'
  <2>1. /\ at'[c] # "slot"
        /\ at'[c] # "execute" => job'[c] # 0
        /\ \A j \in Jobs : jobs[j].lease = lease[c] => j <= job'[c]
        /\ job'[c] # 0 => jobs[job'[c]].lease = lease[c]
    BY Zenon DEF Tracked, Linked, Go, Inv, Typed, Uses
  <2> QED
    BY <1>1, <2>1 DEF Tracked, Linked
<1>6. \A l : Broken(l)' <=> Broken(l)
  BY Zenon DEF Broken
<1>7. Chained'
  BY Zenon, <1>6 DEF Tracked, Chained, IsComplete
<1>8. Recorded'
  <2>1. \A d \in Callers : at[d] \in DOMAIN Recording => at'[d] \in DOMAIN Recording
    BY Zenon, <1>1
  <2>2. \A j \in Jobs : Covered(j) => Covered(j)'
    BY Zenon, <2>1 DEF Covered
  <2>3. \A d \in Callers : at'[d] \in Uses => at[d] \in Uses
    BY Zenon, <1>1
  <2> QED
    BY Zenon, <1>6, <2>2, <2>3 DEF Tracked, Recorded, IsComplete
<1> QED
  BY Zenon, <1>4, <1>5, <1>7, <1>8 DEF Tracked

\* The slot's completion becomes the last job of the lease.
LEMMA RecordOrdered ==
  ASSUME Inv, Ordered, Tracked, NEW c \in Callers, Record(c)
  PROVE  Ordered' /\ Tracked'
<1>1. /\ at[c] \in {"record_stage", "record_graph", "record_download"}
      /\ completion' = [completion EXCEPT ![slot[c]] = job[c]]
      /\ at' = [at EXCEPT ![c] = Recording[at[c]]]
      /\ UNCHANGED <<leased, jobs, how, lease, slot, job, exported>>
  BY Zenon, RecordingUses DEF Record, Go, jobVars, callerVars
<1>2. /\ Recording["record_stage"] = "execute"
      /\ Recording["record_graph"] = "inference"
      /\ Recording["record_download"] = "readback"
  BY Zenon DEF Recording
<1>3. /\ at[c] \in Uses /\ at'[c] \in Uses /\ at'[c] # "slot"
      /\ at'[c] \notin Began => at[c] \notin Began
      /\ \A d \in Callers : d # c => at'[d] = at[d]
  BY Zenon, <1>1, <1>2 DEF Inv, Typed, Uses, Began
<1>4. Slots' = Slots
  BY Zenon, <1>1 DEF Slots
<1>5. \A l, s : Live(l, s)' <=> Live(l, s)
  BY Zenon, <1>1, <1>3, HoldsUses, HoldsUsesNext DEF Live
<1>6. Ordered'
  <2>1. Numbered'
    BY Zenon, <1>1, <1>4 DEF Ordered, Numbered
  <2>2. OneGraph'
    BY Zenon, <1>1, <1>3 DEF Ordered, OneGraph
  <2>3. InOrder'
    BY Zenon, <1>1, <1>5 DEF Ordered, InOrder, IsComplete
  <2> QED
    BY Zenon, <2>1, <2>2, <2>3 DEF Ordered
<1>7. /\ job[c] # 0 /\ jobs[job[c]].lease = lease[c]
      /\ \A j \in Jobs : jobs[j].lease = lease[c] => j <= job[c]
  BY Zenon, <1>1, <1>3 DEF Tracked, Linked
<1>8. Linked'
  BY Zenon, <1>1, <1>3, <1>7 DEF Tracked, Linked
<1>9. \A l : Broken(l)' <=> Broken(l)
  BY Zenon, <1>1 DEF Broken
<1>10. Chained'
  BY Zenon, <1>1, <1>9 DEF Tracked, Chained, IsComplete
<1>11. /\ slot[c] \in Slots /\ completion'[slot[c]] = job[c]
       /\ \A s \in Slots : s # slot[c] => completion'[s] = completion[s]
  BY Zenon, <1>1, <1>3, HolderAlone DEF Inv, Typed
<1>12. Recorded'
  <2>1. \A d \in Callers : at[d] \in Uses => slot[d] \in Slots /\ (slot[d] = slot[c] => d = c)
    BY Zenon, <1>3, HolderAlone
  <2>2. (\A d \in Callers : at[d] \in Uses /\ completion[slot[d]] # 0
                              => jobs[completion[slot[d]]].lease = lease[d])'
    BY <1>1, <1>3, <1>7, <1>11, <2>1 DEF Tracked, Recorded
  <2>3. ASSUME NEW j \in Jobs, jobs[j].lease # 0, ~IsComplete(j), ~Broken(jobs[j].lease)
        PROVE  Covered(j)'
    <3>1. Covered(j) /\ jobs[j].slot \in Slots
      BY Zenon, <2>3 DEF Tracked, Recorded, Ordered, Numbered
    <3>2. CASE jobs[j].lease = lease[c]
      <4>1. jobs[j].slot = slot[c] /\ j <= job[c]
        BY Zenon, <1>3, <1>7, <3>2 DEF Inv, Placed
      <4> QED
        BY Zenon, <1>1, <1>7, <1>11, <3>2, <4>1 DEF Covered
    <3>3. CASE jobs[j].lease # lease[c]
      <4>1. jobs[j].slot = slot[c] => completion[slot[c]] = 0
                                       \/ jobs[completion[slot[c]]].lease = lease[c]
        BY Zenon, <1>3 DEF Tracked, Recorded
      <4>2. \A d \in Callers : at[d] \in DOMAIN Recording /\ lease[d] = jobs[j].lease
                                 => at'[d] \in DOMAIN Recording
        BY Zenon, <1>3, <3>3
      <4> QED
        BY Zenon, <1>1, <1>11, <3>1, <3>3, <4>1, <4>2 DEF Covered
    <3> QED
      BY Zenon, <3>2, <3>3
  <2> QED
    BY Zenon, <1>1, <1>9, <2>2, <2>3 DEF Recorded, IsComplete
<1> QED
  BY Zenon, <1>6, <1>8, <1>10, <1>12 DEF Tracked

\* A cancellation excuses the lease's jobs, and changes nothing else.
LEMMA CancelOrdered ==
  ASSUME Inv, Ordered, Tracked, NEW c \in Callers, Cancel(c)
  PROVE  Ordered' /\ Tracked'
<1>1. /\ at[c] \in {"inference", "readback"}
      /\ jobs' = [jobs EXCEPT ![job[c]].cancel = TRUE]
      /\ UNCHANGED <<leased, completion, at, lease, slot, job, exported>>
  BY Zenon DEF Cancel, slotVars, callerVars
<1>2. job[c] # 0 /\ jobs[job[c]].lease = lease[c] /\ lease[c] # 0 /\ job[c] \in Jobs
  BY Zenon, <1>1, HolderAlone, IdsTyped DEF Tracked, Linked, Uses
<1>3. \A j \in Jobs : /\ jobs'[j].slot = jobs[j].slot /\ jobs'[j].lease = jobs[j].lease
                      /\ jobs'[j].kind = jobs[j].kind /\ jobs'[j].after = jobs[j].after
                      /\ jobs'[j].status = jobs[j].status
                      /\ j # job[c] => jobs'[j].cancel = jobs[j].cancel
                      /\ jobs[j].cancel => jobs'[j].cancel
  BY Zenon, <1>1, <1>2 DEF Inv, Typed
<1>4. Slots' = Slots
  BY Zenon, <1>1 DEF Slots
<1>5. \A l, s : Live(l, s)' <=> Live(l, s)
  BY <1>1, <1>3 DEF Live, Holds
<1>6. \A j \in Jobs : IsComplete(j)' <=> IsComplete(j)
  BY Zenon, <1>3 DEF IsComplete
<1>7. \A l : Broken(l) => Broken(l)'
  BY Zenon, <1>3 DEF Broken
<1>8. Numbered'
  <2>1. jobs[job[c]].status # "none"
    BY Zenon, <1>2 DEF Ordered, Numbered
  <2> QED
    BY <1>3, <1>4, <2>1 DEF Ordered, Numbered
<1>9. OneGraph'
  BY <1>1, <1>3 DEF Ordered, OneGraph
<1>10. InOrder'
  BY <1>3, <1>5, <1>6 DEF Ordered, InOrder
<1>11. Linked'
  <2>1. \A d \in Callers : at[d] \in Uses /\ job[d] # 0 => job[d] \in Jobs
    BY Zenon, IdsTyped
  <2> QED
    BY <1>1, <1>3, <2>1 DEF Tracked, Linked
<1>12. Chained'
  BY <1>3, <1>6, <1>7 DEF Tracked, Chained
<1>13. Recorded'
  <2>1. \A s \in Slots : completion[s] # 0 => completion[s] \in Jobs
    BY Zenon, IdsTyped
  <2>2. \A j \in Jobs : jobs[j].slot \in Slots /\ Covered(j) => Covered(j)'
    BY <1>1, <1>3, <2>1 DEF Covered
  <2>3. \A d \in Callers : at[d] \in Uses => slot[d] \in Slots
    BY Zenon, HolderAlone
  <2>4. \A d \in Callers : at'[d] \in Uses /\ completion'[slot'[d]] # 0
                             => jobs'[completion'[slot'[d]]].lease = lease'[d]
    BY <1>1, <1>3, <2>1, <2>3 DEF Tracked, Recorded
  <2> QED
    BY <1>3, <1>6, <1>7, <2>2, <2>4 DEF Tracked, Recorded, Ordered, Numbered
<1> QED
  BY Zenon, <1>8, <1>9, <1>10, <1>11, <1>12, <1>13 DEF Ordered, Tracked

\* What a job may find of those before it when its status changes.
Cleared(j) == \A k \in Jobs : k < j /\ jobs[k].slot = jobs[j].slot /\ jobs[k].kind = "graph"
                                => IsComplete(k)
Preceded(j) == \A k \in Jobs : k < j /\ jobs[k].lease = jobs[j].lease
                                 => IsComplete(k) \/ Broken(jobs[j].lease)

LEMMA StatusOrdered ==
  ASSUME Inv, Ordered, Tracked, NEW j \in Jobs, NEW status \in {"running"} \union Terminal,
         jobs[j].status \in {"pending", "running"},
         jobs' = [jobs EXCEPT ![j].status = status],
         jobs[j].kind = "graph" /\ status \in {"running", "ok"} => Cleared(j),
         Preceded(j),
         UNCHANGED <<leased, completion, lease, slot, job, exported>>,
         \A c \in Callers : at'[c] = at[c] \/ (at[c] \notin Uses /\ at'[c] \notin Uses)
  PROVE  Ordered' /\ Tracked'
<1>1. \A k \in Jobs : /\ jobs'[k].slot = jobs[k].slot /\ jobs'[k].lease = jobs[k].lease
                      /\ jobs'[k].kind = jobs[k].kind /\ jobs'[k].after = jobs[k].after
                      /\ jobs'[k].status = (IF k = j THEN status ELSE jobs[k].status)
                      /\ jobs'[k].cancel = jobs[k].cancel
  BY DEF Inv, Typed
<1>2. Slots' = Slots
  BY Zenon DEF Slots
<1>3. \A c \in Callers : (at'[c] \in Uses <=> at[c] \in Uses) /\ (at[c] \in Uses => at'[c] = at[c])
  BY Zenon
<1>4. \A l, s : Live(l, s)' <=> Live(l, s)
  BY <1>1, <1>3, HoldsUses, HoldsUsesNext DEF Live
<1>5. \A k \in Jobs : IsComplete(k) => IsComplete(k)'
  BY Zenon, <1>1 DEF IsComplete, Terminal
<1>6. \A l : Broken(l)' <=> Broken(l)
  BY <1>1 DEF Broken
<1>7. Numbered'
  BY <1>1, <1>2 DEF Ordered, Numbered, Terminal
<1>8. OneGraph'
  BY <1>1, <1>3 DEF Ordered, OneGraph, Began, Uses
<1>9. InOrder'
  BY <1>1, <1>4, <1>5 DEF Ordered, InOrder, Cleared
<1>10. Linked'
  <2>1. \A d \in Callers : at[d] \in Uses /\ job[d] # 0 => job[d] \in Jobs
    BY Zenon, IdsTyped
  <2>2. \A d \in Callers : at'[d] \in Uses => at'[d] = at[d]
    BY Zenon, <1>3
  <2>3. "slot" \in Uses
    BY Zenon DEF Uses
  <2> QED
    BY <1>1, <2>1, <2>2, <2>3 DEF Tracked, Linked
<1>11. Chained'
  BY <1>1, <1>5, <1>6 DEF Tracked, Chained, Preceded
<1>12. Recorded'
  <2>1. \A s \in Slots : completion[s] # 0 => completion[s] \in Jobs
    BY Zenon, IdsTyped
  <2>2. DOMAIN Recording \subseteq Uses
    BY Zenon, RecordingUses DEF Uses
  <2>3. \A k \in Jobs : jobs[k].slot \in Slots /\ Covered(k) => Covered(k)'
    BY <1>1, <1>3, <2>1, <2>2 DEF Covered
  <2>4. \A d \in Callers : at[d] \in Uses => slot[d] \in Slots
    BY Zenon, HolderAlone
  <2>5. \A d \in Callers : at'[d] \in Uses /\ completion'[slot'[d]] # 0
                             => jobs'[completion'[slot'[d]]].lease = lease'[d]
    BY <1>1, <1>3, <2>1, <2>4 DEF Tracked, Recorded
  <2> QED
    BY Zenon, <1>1, <1>5, <1>6, <2>3, <2>5 DEF Tracked, Recorded, Ordered, Numbered
<1> QED
  BY Zenon, <1>7, <1>8, <1>9, <1>10, <1>11, <1>12 DEF Ordered, Tracked

\* A job whose producer ended comes after the lease's earlier jobs.
LEMMA AfterPreceded ==
  ASSUME Inv, Ordered, Tracked, NEW j \in Jobs, jobs[j].lease # 0,
         jobs[j].after # 0 => jobs[jobs[j].after].status \in Terminal
  PROVE  Preceded(j)
<1> SUFFICES ASSUME NEW k \in Jobs, k < j, jobs[k].lease = jobs[j].lease
             PROVE  IsComplete(k) \/ Broken(jobs[j].lease)
  BY Zenon DEF Preceded
<1> DEFINE a == jobs[j].after
<1>1. k <= a
  BY Zenon DEF Tracked, Linked
<1>2. a \in Jobs /\ a # 0 /\ jobs[a].lease = jobs[j].lease
  BY <1>1, PoolAssumption DEF Tracked, Linked, Jobs
<1>3. IsComplete(a)
  BY Zenon, <1>2 DEF IsComplete
<1>4. k = a \/ k < a
  BY <1>1, <1>2 DEF Jobs
<1> QED
  BY Zenon, <1>2, <1>3, <1>4 DEF Tracked, Chained, IsComplete

LEMMA DeviceOrdered ==
  ASSUME Inv, Ordered, Tracked, NEW j \in Jobs, Device(j)
  PROVE  Ordered' /\ Tracked'
<1> USE DEF slotVars, jobVars, callerVars
<1>1. "running" \in {"running"} \union Terminal /\ Terminal = {"ok", "failed", "cancelled"}
  BY Zenon DEF Terminal
<1>2. CASE JobStart(j)
  <2>1. /\ jobs[j].status = "pending" /\ jobs' = [jobs EXCEPT ![j].status = "running"]
        /\ UNCHANGED <<leased, completion, at, lease, slot, job, exported>>
        /\ jobs[j].after # 0 => jobs[jobs[j].after].status = "ok"
        /\ ~Blocked(j)
    BY Zenon, <1>2 DEF JobStart
  <2>2. jobs[j].kind = "graph" => Cleared(j)
    BY Zenon, <2>1 DEF Blocked, Clash, Cleared
  <2>3. jobs[j].lease # 0
    BY Zenon, <2>1 DEF Ordered, Numbered
  <2>4. Preceded(j)
    BY Zenon, <1>1, <2>1, <2>3, AfterPreceded
  <2> QED
    BY Zenon, <1>1, <2>1, <2>2, <2>4, StatusOrdered
<1>3. ASSUME NEW status \in Terminal, Publish(j, status)
      PROVE  \A c \in Callers : at'[c] = at[c] \/ (at[c] \notin Uses /\ at'[c] \notin Uses)
  BY Zenon, <1>3 DEF Publish, Uses
<1>4. CASE \E fails \in BOOLEAN : JobFinish(j, fails)
  <2>1. /\ jobs[j].status = "running"
        /\ UNCHANGED <<leased, completion, lease, slot, job, exported>>
    BY Zenon, <1>4 DEF JobFinish
  <2>2. PICK status \in Terminal : Publish(j, status)
    BY Zenon, <1>1, <1>4 DEF JobFinish
  <2>3. jobs' = [jobs EXCEPT ![j].status = status]
    BY Zenon, <2>2 DEF Publish
  <2>4. jobs[j].lease # 0
    BY Zenon, <2>1 DEF Ordered, Numbered
  <2>5. jobs[j].kind = "graph" => Cleared(j)
    BY Zenon, <2>1 DEF Ordered, InOrder, Cleared
  <2>6. Preceded(j)
    BY Zenon, <2>1, <2>4 DEF Tracked, Chained, Preceded
  <2> QED
    BY Zenon, <1>3, <2>1, <2>2, <2>3, <2>5, <2>6, StatusOrdered
<1>5. CASE JobStop(j)
  <2>1. /\ jobs[j].status = "pending"
        /\ UNCHANGED <<leased, completion, lease, slot, job, exported>>
        /\ \/ jobs[j].cancel
           \/ jobs[j].after # 0 /\ jobs[jobs[j].after].status \in {"failed", "cancelled"}
    BY Zenon, <1>5 DEF JobStop
  <2>2. PICK status \in {"failed", "cancelled"} : Publish(j, status)
    BY Zenon, <1>5 DEF JobStop
  <2>3. jobs' = [jobs EXCEPT ![j].status = status]
    BY Zenon, <2>2 DEF Publish
  <2>4. jobs[j].lease # 0
    BY Zenon, <2>1 DEF Ordered, Numbered
  <2>5. CASE jobs[j].cancel
    <3>1. Preceded(j)
      BY Zenon, <2>5 DEF Broken, Preceded
    <3> QED
      BY Zenon, <1>1, <1>3, <2>1, <2>2, <2>3, <3>1, StatusOrdered
  <2>6. CASE ~jobs[j].cancel
    <3>1. Preceded(j)
      BY Zenon, <1>1, <2>1, <2>4, <2>6, AfterPreceded
    <3> QED
      BY Zenon, <1>1, <1>3, <2>1, <2>2, <2>3, <3>1, StatusOrdered
  <2> QED
    BY Zenon, <2>5, <2>6
<1> QED
  BY Zenon, <1>2, <1>4, <1>5 DEF Device

LEMMA UsingOrdered ==
  ASSUME Inv, Ordered, Tracked, NEW c \in Callers, Using(c)
  PROVE  Ordered' /\ Tracked'
<1> USE DEF slotVars, jobVars, callerVars
<1>1. CASE Stage(c) \/ Execute(c) \/ Download(c)
  <2>1. UNCHANGED <<leased, completion, lease, slot, exported>>
    BY Zenon, <1>1 DEF Stage, Execute, Download
  <2>2. \/ at[c] = "slot" /\ Enqueue(c, "stage", 0) /\ Go(c, "record_stage")
        \/ at[c] = "execute" /\ Enqueue(c, "graph", job[c]) /\ Go(c, "record_graph")
        \/ at[c] = "inference" /\ Enqueue(c, "download", job[c]) /\ Go(c, "record_download")
        \/ at[c] = "slot" /\ Go(c, "execute") /\ job' = [job EXCEPT ![c] = 0] /\ UNCHANGED jobs
        \/ at[c] = "inference" /\ Go(c, "record_download") /\ UNCHANGED <<job, jobs>>
    BY Zenon, <1>1 DEF Stage, Execute, Download
  <2> QED
    BY Zenon, <2>1, <2>2, EnqueueOrdered, SkipOrdered
<1> QED
  BY Zenon, <1>1, RecordOrdered DEF Using

LEMMA OrderedInit == Init => Ordered /\ Tracked
<1> SUFFICES ASSUME Init PROVE Ordered /\ Tracked
  BY Zenon
<1>1. /\ \A j \in Jobs : jobs[j] = NoJob
      /\ \A c \in Callers : at[c] = "idle"
  BY Zenon DEF Init
<1>2. \A j \in Jobs : /\ jobs[j].lease = 0 /\ jobs[j].status = "none" /\ jobs[j].kind = "none"
                      /\ ~jobs[j].cancel
  BY <1>1 DEF NoJob
<1>3. \A c \in Callers : at[c] \notin Uses
  BY Zenon, <1>1 DEF Uses
<1>4. Ordered
  BY Zenon, <1>2, <1>3 DEF Ordered, Numbered, OneGraph, InOrder
<1>5. Tracked
  <2>1. "slot" \in Uses
    BY Zenon DEF Uses
  <2> QED
    BY Zenon, <1>2, <1>3, <2>1 DEF Tracked, Linked, Chained, Recorded
<1> QED
  BY Zenon, <1>4, <1>5

LEMMA OrderedNext == Inv /\ Ordered /\ Tracked /\ [Next]_vars => Ordered' /\ Tracked'
<1> SUFFICES ASSUME Inv, Ordered, Tracked, [Next]_vars PROVE Ordered' /\ Tracked'
  BY Zenon
<1> USE DEF slotVars, jobVars, callerVars
<1>1. ASSUME Unmoved PROVE Ordered' /\ Tracked'
  BY Zenon, <1>1, UnmovedOrdered, UnmovedTracked
<1>2. ASSUME NEW c \in Callers, Scan(c) PROVE Ordered' /\ Tracked'
  <2>1. \/ UNCHANGED leased
        \/ \E s \in Slots : /\ Available(s) /\ leased' = [leased EXCEPT ![s] = TRUE]
                            /\ completion' = [completion EXCEPT ![s] = 0]
                            /\ slot' = [slot EXCEPT ![c] = s] /\ Go(c, "slot")
    BY Zenon, <1>2 DEF Scan
  <2>2. at[c] = "scan" /\ UNCHANGED <<lease, job, jobs, exported>>
    BY Zenon, <1>2 DEF Scan
  <2> QED
    BY Zenon, <1>1, <1>2, <2>1, <2>2, AcquiringUnmoved, ScanOrdered
<1>3. ASSUME NEW c \in Callers, Acquiring(c) PROVE Ordered' /\ Tracked'
  BY Zenon, <1>1, <1>2, <1>3, AcquiringUnmoved DEF Acquiring
<1>4. ASSUME NEW c \in Callers, (\E mode \in Modes : Ask(c, mode)) \/ Answer(c) \/ Abandon(c)
      PROVE  Ordered' /\ Tracked'
  BY Zenon, <1>1, <1>4, AcquiringUnmoved
<1> QED
  BY Zenon, <1>1, <1>3, <1>4, LeavingUseUnmoved, UsingOrdered, CancelOrdered, DeviceOrdered DEF Next

LEMMA SpecOrdered == Spec => [](Inv /\ Ordered /\ Tracked)
  BY InvInit, StepInv, OrderedInit, OrderedNext, PTL DEF Spec
-----------------------------------------------------------------------------
\* Once the graph of a live lease has succeeded no other submission that writes the
\* slot's outputs is queued or running, so a tensor that the caller reads or exports does
\* not change under it (inference.rs, ModelSlot::execute, Inference::outputs).
THEOREM OutputsHeld == Spec => []OutputsStable
<1>1. Inv /\ Ordered => OutputsStable
  <2> SUFFICES ASSUME Inv, Ordered, NEW j \in Jobs, NEW k \in Jobs,
                      jobs[j].kind = "graph", jobs[j].status = "ok",
                      Live(jobs[j].lease, jobs[j].slot),
                      jobs[k].kind = "graph", jobs[k].slot = jobs[j].slot
               PROVE  IsComplete(k)
    BY Zenon DEF OutputsStable
  <2>1. CASE k = j
    BY Zenon, <2>1 DEF IsComplete, Terminal
  <2>2. CASE k < j
    BY Zenon, <2>2 DEF Ordered, InOrder
  <2>3. CASE j < k
    <3>1. jobs[k].lease # 0
      BY Zenon DEF Ordered, Numbered
    <3>2. jobs[k].lease = jobs[j].lease
      BY Zenon, <2>3, <3>1 DEF Ordered, InOrder
    <3> QED
      BY <2>3, <3>2 DEF Ordered, OneGraph, Jobs
  <2> QED
    BY <2>1, <2>2, <2>3 DEF Jobs
<1> QED
  BY <1>1, SpecOrdered, PTL

\* A slot is handed out with every earlier job complete, unless its previous user cancelled
\* one, although only the last accepted job is recorded in the slot (inference.rs,
\* submit_host_with, execute, download, acquire_locked).
THEOREM SlotsDrained == Spec => []DrainedUnlessCancelled
<1>1. Inv /\ Ordered /\ Tracked => DrainedUnlessCancelled
  <2> SUFFICES ASSUME Inv, Ordered, Tracked, NEW c \in Callers, NEW j \in Submitted,
                      at[c] = "slot", jobs[j].slot = slot[c], ~IsComplete(j),
                      ~Broken(jobs[j].lease)
               PROVE  FALSE
    BY Zenon DEF DrainedUnlessCancelled, Broken
  <2>1. j \in Jobs /\ jobs[j].lease # 0
    BY Zenon DEF Submitted, Ordered, Numbered
  <2>2. at[c] \in Uses /\ at[c] \notin DOMAIN Recording
    BY Zenon, RecordingUses DEF Uses
  <2>3. slot[c] \in Slots
    BY Zenon, <2>2, HolderAlone
  <2>4. completion[slot[c]] = 0
    BY Zenon, <2>2, <2>3, IdsTyped DEF Tracked, Recorded, Linked
  <2>5. PICK d \in Callers : at[d] \in DOMAIN Recording /\ lease[d] = jobs[j].lease
    BY Zenon, <2>1, <2>4 DEF Tracked, Recorded, Covered
  <2>6. at[d] \in Uses
    BY Zenon, <2>5, RecordingUses DEF Uses
  <2>7. slot[d] = slot[c]
    BY Zenon, <2>1, <2>5, <2>6 DEF Inv, Placed
  <2>8. d = c
    BY Zenon, <2>2, <2>6, <2>7, HolderAlone
  <2> QED
    BY Zenon, <2>2, <2>5, <2>8
<1> QED
  BY <1>1, SpecOrdered, PTL
-----------------------------------------------------------------------------
(* The leases of a slot are counted with the library's facts about finite sets. *)
INSTANCE FiniteSetTheorems

\* A slot of the pool is reserved exactly while one lease refers to it, held by
\* a call or by an exported output (inference.rs, acquire_locked, Lease::drop).
THEOREM LeasesExclusive == Spec => []LeaseExclusive
<1>1. Inv => LeaseExclusive
  <2> SUFFICES ASSUME Inv, NEW s \in Slots
               PROVE  Cardinality({l \in Leases : Live(l, s)}) = IF leased[s] THEN 1 ELSE 0
    BY Zenon DEF LeaseExclusive
  <2>1. CASE leased[s]
    <3>1. PICK l \in Leases : Live(l, s)
      BY Zenon, <2>1 DEF Inv, Reserved
    <3>2. {m \in Leases : Live(m, s)} = {l}
      BY Zenon, <3>1 DEF Inv, Reserved
    <3> QED
      BY Zenon, <2>1, <3>2, FS_Singleton
  <2>2. CASE ~leased[s]
    <3>1. {m \in Leases : Live(m, s)} = {}
      BY Zenon, <2>2 DEF Inv, Reserved
    <3> QED
      BY Zenon, <2>2, <3>1, FS_EmptySet
  <2> QED
    BY Zenon, <2>1, <2>2
<1> QED
  BY <1>1, InvInit, StepInv, PTL DEF Spec
=============================================================================
