--------------------------- MODULE QueueCreation ---------------------------
(***************************************************************************)
(* Creation of native queues, step by step, with every step able to fail:   *)
(* Device::create_queue for PM4 and SDMA (src/fabric/queue.rs) and          *)
(* Device::aql_queue_with_timestamps (src/fabric/aql.rs), the families they *)
(* choose, the scratch AQL queues own, and the teardown of what a failure   *)
(* or the last handle leaves.                                               *)
(***************************************************************************)
EXTENDS Naturals, Sequences, FiniteSets, SequencesExt

CONSTANTS
  FamilyLists,   \* what endpoints report, as sequences of families
  Topologies,    \* compute units, engines, waves per compute unit
  PrivateBytes,  \* per-workitem scratch asked for
  ScratchLimit   \* 512 MiB in the code, in the unit of PrivateBytes

VARIABLES
  request,       \* "pm4", "sdma", "aql", or "timed" for AQL with timestamps
  families, topology, private,
  stage,         \* the next step
  chosen,        \* ordinal of the family, 0 before
  native,        \* live native objects: "scratch", "queue", "mapping"
  scratch,       \* bytes and slots of the scratch allocation
  outcome        \* "none", "queue", "error", "dropped", "quarantined"

creationVars == <<request, families, topology, private, stage, chosen, native, scratch, outcome>>

Aql == request \in {"aql", "timed"}

CreationInit ==
  /\ request \in {"pm4", "sdma", "aql", "timed"} /\ families \in FamilyLists
  /\ topology \in Topologies /\ private \in PrivateBytes
  /\ stage = "choose" /\ chosen = 0 /\ native = {} /\ outcome = "none"
  /\ scratch = [bytes |-> 0, slots |-> 0]

-----------------------------------------------------------------------------
\* Mutant: any family that takes the commands will do.
Qualifies_Command(f) == f.command = IF Aql THEN "aql" ELSE request

\* The conditions of both search loops.
Qualifies(f) ==
  /\ f.command = IF Aql THEN "aql" ELSE request
  /\ f.version = 1 /\ f.user
  /\ request = "pm4" => f.gcr \/ f.gfx9
  /\ Aql => f.coherent /\ (request = "timed" => f.timestamps)

\* CacheControl of the queue's barriers.
CacheFormat(f) == IF request # "pm4" \/ f.gcr THEN "gcr" ELSE "gfx9"

Fail == outcome' = "error" /\ stage' = "end"

\* The endpoint and each of its families are queried in order; then the clock.
Choose ==
  /\ stage = "choose"
  /\ LET found == {i \in DOMAIN families : Qualifies(families[i])} IN
     \/ Fail /\ UNCHANGED chosen \* engine, endpoint or family query
     \/ /\ found # {} /\ chosen' = Min(found)
        /\ stage' = (IF Aql /\ private # 0 THEN "scratch" ELSE "create") /\ UNCHANGED outcome
  /\ UNCHANGED <<request, families, topology, private, native, scratch>>

DivCeil(n, d) == (n + d - 1) \div d

\* Mutant: whole engines only.
Slots_Floor == (topology.units \div topology.engines) * topology.engines * topology.waves

\* Every engine gets as many slots as the fullest one needs.
Slots == DivCeil(topology.units, topology.engines) * topology.engines * topology.waves

ScratchBytes == DivCeil(private * 64, 1024) * 1024 * Slots

\* Scratch for every slot is allocated, and charged, before the queue.
AllocateScratch ==
  /\ stage = "scratch"
  /\ \/ Fail /\ UNCHANGED <<native, scratch>>
     \/ /\ topology.engines # 0 /\ ScratchBytes # 0 /\ ScratchBytes <= ScratchLimit
        /\ scratch' = [bytes |-> ScratchBytes, slots |-> Slots]
        /\ native' = {"scratch"} /\ stage' = "create" /\ UNCHANGED outcome
  /\ UNCHANGED <<request, families, topology, private, chosen>>

\* user_queue_create; a failure drops the scratch no queue was given.
Create ==
  /\ stage = "create"
  /\ \/ Fail /\ native' = {}
     \/ native' = native \union {"queue"} /\ stage' = "map" /\ UNCHANGED outcome
  /\ UNCHANGED <<request, families, topology, private, chosen, scratch>>

\* Mutant: the queue goes before its mapping.
Teardown_QueueFirst == <<"queue", "mapping", "scratch">>

\* Destruction order of Drop for QueueInner and QueueState, with the fields.
Teardown == <<"mapping", "queue", "scratch">>

\* user_queue_map, then the contract of the mapping.  An error from here on drops
\* the partly built owner.
MapQueue ==
  /\ stage = "map"
  /\ \/ native' = native \union {"mapping"} /\ stage' = "check" /\ UNCHANGED outcome
     \/ outcome' = "error" /\ stage' = "drop" /\ UNCHANGED native
  /\ UNCHANGED <<request, families, topology, private, chosen, scratch>>

CheckMapping ==
  /\ stage = "check"
  /\ \/ outcome' = "queue" /\ stage' = "live"
     \/ outcome' = "error" /\ stage' = "drop" \* query failed or unexpected contract
  /\ UNCHANGED <<request, families, topology, private, chosen, native, scratch>>

\* The last handle of an idle queue; retirement is NativeQueue's and AqlQueue's.
LastHandle ==
  /\ stage = "live" /\ stage' = "drop" /\ outcome' = "dropped"
  /\ UNCHANGED <<request, families, topology, private, chosen, native, scratch>>

\* One object of the teardown; a refusal of the provider keeps the rest for good.
DropStep ==
  /\ stage = "drop"
  /\ LET left == SelectSeq(Teardown, LAMBDA o : o \in native) IN
     IF left = <<>> THEN stage' = "end" /\ UNCHANGED <<native, outcome>>
     ELSE \/ native' = native \ {Head(left)} /\ UNCHANGED <<stage, outcome>>
          \/ /\ Head(left) # "scratch"
             /\ stage' = "end" /\ outcome' = "quarantined" /\ UNCHANGED native
  /\ UNCHANGED <<request, families, topology, private, chosen, scratch>>

CreationNext ==
  \/ Choose \/ AllocateScratch \/ Create \/ MapQueue \/ CheckMapping \/ LastHandle \/ DropStep

CreationSpec == CreationInit /\ [][CreationNext]_creationVars

-----------------------------------------------------------------------------
\* At every moment, failures included, a mapping has its queue and a queue the
\* scratch it was created with; when creation has failed or the queue is gone
\* nothing native is left, unless the provider refused to destroy it.
NativeNested ==
  /\ "mapping" \in native => "queue" \in native
  /\ "queue" \in native /\ scratch.bytes # 0 => "scratch" \in native
  /\ stage = "end" /\ outcome # "quarantined" => native = {}

\* "All physical scratch slots are allocated before returning" (aql.rs:239): a
\* created queue has private storage for 64 lanes of every wave its compute
\* units can hold, distributed evenly, and understands the packets, barriers
\* and timestamps it will be given.
QueueUsable ==
  outcome = "queue" =>
    LET f == families[chosen] IN
    /\ f.user /\ f.version = 1
    /\ CacheFormat(f) = "gfx9" => f.gfx9
    /\ request = "timed" => f.timestamps
    /\ Aql /\ private # 0 =>
         /\ scratch.slots >= topology.units * topology.waves
         /\ scratch.slots % topology.engines = 0
         /\ scratch.bytes >= scratch.slots * private * 64 /\ scratch.bytes <= ScratchLimit
=============================================================================
