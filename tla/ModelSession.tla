---------------------------- MODULE ModelSession ----------------------------
(***************************************************************************)
(* ModelSession (src/loom/model.rs) and its freeze (model/definition.rs): a*)
(* host thread enqueues uploads, recorded graphs and combined readbacks on *)
(* one stream whose device runs behind it.  The planner of its scratch     *)
(* memory is the second part, with variables of its own.                   *)
(***************************************************************************)
EXTENDS Integers, Sequences, FiniteSets, SequencesExt, FiniteSetsExt

CONSTANTS
  Placements,    \* placement and bytes of the allocations a caller makes, in order
  Values,        \* byte values
  Programs,      \* command sequences a caller records
  Reads,         \* sequences of regions a caller reads together
  Regions,       \* regions a caller uploads to
  Keys,          \* graph keys
  QueueLimit     \* bound: stream commands not yet executed

VARIABLES
  failed,        \* ModelSession::failed
  buffers,       \* sequence of [placement, immutable, cells]
  graphs,        \* key -> recorded commands
  kernels,       \* loaded kernels
  readback,      \* cells of the combined readback buffer
  queue,         \* accepted stream commands the device has not executed
  call,          \* the call that is waiting for the stream
  ideal,         \* cells as if accepted commands took effect at once
  answer,        \* what the last read returned and what it should have
  frozen         \* weights a definition adopted

sessionVars ==
  <<failed, buffers, graphs, kernels, readback, queue, call, ideal, answer, frozen>>

Idle == [kind |-> "none"]

SessionInit ==
  /\ failed = FALSE /\ buffers = <<>> /\ graphs = <<>> /\ kernels = 0
  /\ readback = <<>> /\ queue = <<>> /\ call = Idle /\ ideal = <<>> /\ answer = <<>>
  /\ frozen = <<>>

\* usable, while the caller's thread is not inside another call.
Usable == ~failed /\ call = Idle /\ frozen = <<>>

\* validate_region.
Valid(r) == r.allocation \in DOMAIN buffers /\ r.offset + r.bytes <= Len(buffers[r.allocation].cells)

-----------------------------------------------------------------------------
(* The stream: commands run in order (Stream.tla).                          *)

Cells(memory, r) == SubSeq(memory[r.allocation], r.offset + 1, r.offset + r.bytes)

Store(memory, r, new) ==
  [memory EXCEPT ![r.allocation] =
     [i \in DOMAIN @ |-> IF r.offset < i /\ i <= r.offset + Len(new) THEN new[i - r.offset] ELSE @[i]]]

Effect(memory, command) ==
  CASE command.kind = "fill" -> Store(memory, command.region, [i \in 1 .. command.region.bytes |-> command.value])
    [] command.kind = "upload" -> Store(memory, command.region, command.cells)
    [] command.kind = "dispatch" -> Store(memory, command.region, Cells(memory, command.source))
    [] OTHER -> memory

Memory == [a \in DOMAIN buffers |-> buffers[a].cells]
Apply(memory, commands) == FoldLeft(Effect, memory, commands)
Fits(commands) == Len(queue) + Len(commands) <= QueueLimit

\* A call that enqueues commands; the stream may refuse one, after a prefix.
Enqueue(commands, accepted) ==
  /\ Fits(commands) /\ accepted \in 0 .. Len(commands)
  /\ queue' = queue \o SubSeq(commands, 1, accepted)
  /\ ideal' = Apply(ideal, SubSeq(commands, 1, accepted))
  /\ failed' = (accepted < Len(commands))

DeviceRun ==
  /\ queue # <<>> /\ queue' = Tail(queue)
  /\ LET command == Head(queue) IN
     IF command.kind = "readback"
     THEN /\ readback' = [i \in DOMAIN readback |->
               IF command.at < i /\ i <= command.at + command.region.bytes
               THEN Memory[command.region.allocation][command.region.offset + i - command.at]
               ELSE readback[i]]
          /\ UNCHANGED buffers
     ELSE /\ buffers' = [a \in DOMAIN buffers |->
               [buffers[a] EXCEPT !.cells = Effect(Memory, command)[a]]]
          /\ UNCHANGED readback
  /\ UNCHANGED <<failed, graphs, kernels, call, ideal, answer, frozen>>

-----------------------------------------------------------------------------
(* Storage and kernels.                                                     *)

New(immutable) ==
  [placement |-> Placements[Len(buffers) + 1].placement, immutable |-> immutable,
   cells |-> [i \in 1 .. Placements[Len(buffers) + 1].bytes |-> 0]]

Allocate ==
  /\ Usable /\ Len(buffers) < Len(Placements)
  /\ buffers' = Append(buffers, New(FALSE)) /\ ideal' = Append(ideal, New(FALSE).cells)
  /\ UNCHANGED <<failed, graphs, kernels, readback, queue, call, answer, frozen>>

Upload(r, value, accepted) ==
  /\ Usable /\ Valid(r)
  /\ Enqueue(<<[kind |-> "upload", region |-> r, cells |-> [i \in 1 .. r.bytes |-> value]]>>, accepted)
  /\ UNCHANGED <<buffers, graphs, kernels, readback, call, answer, frozen>>

\* weight: an allocation and its upload; immutable only once both succeeded.
AllocateWeight(value, accepted) ==
  /\ Usable /\ Len(buffers) < Len(Placements)
  /\ Placements[Len(buffers) + 1].placement = "Device" /\ accepted \in {0, 1} /\ Fits(<<1>>)
  /\ LET new == New(accepted = 1)
         whole == [allocation |-> Len(buffers) + 1, offset |-> 0, bytes |-> Len(new.cells)]
         upload == [kind |-> "upload", region |-> whole, cells |-> [i \in 1 .. whole.bytes |-> value]]
     IN  /\ buffers' = Append(buffers, new)
         /\ ideal' = Append(ideal, IF accepted = 1 THEN upload.cells ELSE new.cells)
         /\ queue' = IF accepted = 1 THEN Append(queue, upload) ELSE queue
  /\ failed' = (accepted = 0)
  /\ UNCHANGED <<graphs, kernels, readback, call, answer, frozen>>

\* compile: the batch is built and resolved, the stream drained, and only then
\* are the kernels numbered.
Compile ==
  /\ Usable /\ kernels < 1 /\ call' = [kind |-> "compile"]
  /\ UNCHANGED <<failed, buffers, graphs, kernels, readback, queue, ideal, answer, frozen>>

Compiled ==
  /\ call.kind = "compile" /\ queue = <<>> /\ kernels' = kernels + 1 /\ call' = Idle
  /\ UNCHANGED <<failed, buffers, graphs, readback, queue, ideal, answer, frozen>>

\* prepare: regions and kernels are validated against this session, and no fill
\* is empty.
Prepared(commands) ==
  /\ commands # <<>>
  /\ \A i \in DOMAIN commands :
       /\ Valid(commands[i].region)
       /\ commands[i].kind = "fill" => commands[i].region.bytes > 0
       /\ commands[i].kind = "dispatch" => kernels > 0 /\ Valid(commands[i].source)

Put(f, key, value) == [k \in DOMAIN f \union {key} |-> IF k = key THEN value ELSE f[k]]

Record(key, commands) ==
  /\ Usable /\ key \notin DOMAIN graphs /\ Prepared(commands)
  /\ graphs' = Put(graphs, key, commands)
  /\ UNCHANGED <<failed, buffers, kernels, readback, queue, call, ideal, answer, frozen>>

\* A launch is accepted as a whole or refused.
Replay(key, accepted) ==
  /\ Usable /\ key \in DOMAIN graphs /\ accepted \in {0, Len(graphs[key])}
  /\ Enqueue(graphs[key], accepted)
  /\ UNCHANGED <<buffers, graphs, kernels, readback, call, answer, frozen>>

\* One timed iteration of benchmark or profile_commands: a replay or the same
\* commands one by one, then a synchronization.
Measure(key, accepted) ==
  /\ Usable /\ key \in DOMAIN graphs /\ Enqueue(graphs[key], accepted)
  /\ call' = IF accepted < Len(graphs[key]) THEN Idle ELSE [kind |-> "synchronize"]
  /\ UNCHANGED <<buffers, graphs, kernels, readback, answer, frozen>>

Synchronize ==
  /\ Usable /\ call' = [kind |-> "synchronize"]
  /\ UNCHANGED <<failed, buffers, graphs, kernels, readback, queue, ideal, answer, frozen>>

Synchronized ==
  /\ call.kind = "synchronize" /\ queue = <<>> /\ call' = Idle
  /\ UNCHANGED <<failed, buffers, graphs, kernels, readback, queue, ideal, answer, frozen>>

\* Any wait for the stream may report a failure.
WaitFails ==
  /\ call # Idle /\ failed' = TRUE /\ call' = Idle
  /\ UNCHANGED <<buffers, graphs, kernels, readback, queue, ideal, answer, frozen>>

-----------------------------------------------------------------------------
(* read_many.                                                               *)

Total(regions) == FoldLeft(LAMBDA n, r : n + r.bytes, 0, regions)

\* Mutant: every region is packed at the start of the readback.
PackedAt_Zero(regions, i) == 0

PackedAt(regions, i) == Total(SubSeq(regions, 1, i - 1))

Copies(regions) ==
  [i \in DOMAIN regions |-> [kind |-> "readback", region |-> regions[i], at |-> PackedAt(regions, i)]]

AllShared(regions) ==
  \A i \in DOMAIN regions : buffers[regions[i].allocation].placement = "Shared"

\* reserve_readback: storage only grows.
Reserved(bytes) == IF Len(readback) < bytes THEN [i \in 1 .. bytes |-> 0] ELSE readback

ReserveReadback(bytes) ==
  /\ Usable /\ readback' = Reserved(bytes)
  /\ UNCHANGED <<failed, buffers, graphs, kernels, queue, call, ideal, answer, frozen>>

Wanted(regions) == [i \in DOMAIN regions |-> Cells(ideal, regions[i])]

\* Shared regions are read in place after a synchronization; otherwise every
\* region is copied to its packed offset first.
ReadMany(regions, accepted) ==
  /\ Usable /\ \A i \in DOMAIN regions : Valid(regions[i])
  /\ LET copies == IF AllShared(regions) THEN <<>> ELSE Copies(regions) IN
     /\ readback' = IF AllShared(regions) THEN readback ELSE Reserved(Total(regions))
     /\ Enqueue(copies, accepted)
     /\ call' = IF accepted < Len(copies) THEN Idle
                ELSE [kind |-> "read", regions |-> regions, direct |-> AllShared(regions),
                      wanted |-> Wanted(regions)]
  /\ UNCHANGED <<buffers, graphs, kernels, answer, frozen>>

\* Mutant: the outputs are filled without waiting for the stream.
Drained_Never == TRUE

Drained == queue = <<>>

ReadDone ==
  /\ call.kind = "read" /\ Drained
  /\ LET r == call.regions IN
     answer' = <<[wanted |-> call.wanted,
                  got |-> [i \in DOMAIN r |->
                     IF call.direct THEN Cells(Memory, r[i])
                     ELSE SubSeq(readback, PackedAt(r, i) + 1, PackedAt(r, i) + r[i].bytes)]]>>
  /\ call' = Idle
  /\ UNCHANGED <<failed, buffers, graphs, kernels, readback, queue, ideal, frozen>>

-----------------------------------------------------------------------------
(* freeze: drain, drop the graphs, adopt the weights, keep scratch sizes.   *)

Freeze ==
  /\ Usable /\ call' = [kind |-> "freeze"]
  /\ UNCHANGED <<failed, buffers, graphs, kernels, readback, queue, ideal, answer, frozen>>

Frozen ==
  /\ call.kind = "freeze" /\ Drained
  /\ graphs' = <<>> /\ call' = Idle
  /\ frozen' = <<[a \in {b \in DOMAIN buffers : buffers[b].immutable} |-> buffers[a].cells]>>
  /\ UNCHANGED <<failed, buffers, kernels, readback, queue, ideal, answer>>

SessionNext ==
  \/ Allocate \/ Compile \/ Compiled \/ Synchronize \/ Synchronized \/ WaitFails
  \/ ReadDone \/ Freeze \/ Frozen \/ DeviceRun
  \/ \E value \in Values, accepted \in {0, 1} :
       \/ AllocateWeight(value, accepted)
       \/ \E r \in Regions : Upload(r, value, accepted)
  \/ \E key \in Keys : \/ \E commands \in Programs : Record(key, commands)
                       \/ \E accepted \in 0 .. QueueLimit : Replay(key, accepted) \/ Measure(key, accepted)
  \/ \E bytes \in 1 .. 2 : ReserveReadback(bytes)
  \/ \E regions \in Reads, accepted \in 0 .. QueueLimit : ReadMany(regions, accepted)

SessionSpec == SessionInit /\ [][SessionNext]_sessionVars
-----------------------------------------------------------------------------
\* A read returns what every upload and replay accepted before it left in its
\* regions, region by region, through whichever of the two paths, and a frozen
\* model keeps the weights last uploaded (model.rs:538-625,
\* definition.rs:41-78).
ReadsCurrent ==
  /\ \A a \in ToSet(answer) : a.got = a.wanted
  /\ \A weights \in ToSet(frozen) : \A a \in DOMAIN weights : weights[a] = ideal[a]

-----------------------------------------------------------------------------
(***************************************************************************)
(* ScratchPlanner (src/loom/model.rs): values with sizes and inclusive     *)
(* lifetimes are packed into reusable slots, best fit first.               *)
(***************************************************************************)
CONSTANTS
  ValueNames,          \* value names, a set of integers
  Sizes,         \* bytes an insert may ask for
  Times          \* first and last steps of a lifetime

VARIABLES
  values,        \* ScratchPlanner::values, a partial function of keys
  refused,       \* keys whose insert returned an error
  plan           \* the ScratchPlan; <<>> before finish

plannerVars == <<values, refused, plan>>

PlannerInit == values = <<>> /\ refused = {} /\ plan = <<>>

\* A duplicate replaces the value under its key and is then refused.
Insert(key, bytes, first, last) ==
  /\ plan = <<>>
  /\ IF bytes = 0 \/ first > last
     THEN UNCHANGED values /\ refused' = refused \union {key}
     ELSE /\ values' = Put(values, key, [bytes |-> bytes, first |-> first, last |-> last])
          /\ refused' = IF key \in DOMAIN values THEN refused \union {key} ELSE refused
  /\ UNCHANGED plan

Before(a, b) ==
  LET x == values[a] y == values[b] IN
  \/ x.first < y.first
  \/ x.first = y.first /\ (x.bytes > y.bytes \/ (x.bytes = y.bytes /\ a < b))

\* Mutant: a slot is free again in the last step of its value.
Retired_Early(active, first) == {a \in active : a.last <= first}

Retired(active, first) == {a \in active : a.last < first}

\* Mutant: a free slot is taken whatever its size.
Fitting_Any(slots, free, bytes) == free

Fitting(slots, free, bytes) == {s \in free : slots[s] >= bytes}

Smallest(slots, fitting) ==
  Min({s \in fitting : \A t \in fitting : slots[s] <= slots[t]})

Assign(state, key) ==
  LET value == values[key]
      retired == Retired(state.active, value.first)
      free == state.free \union {a.slot : a \in retired}
      fitting == Fitting(state.slots, free, value.bytes)
      slot == IF fitting = {} THEN Len(state.slots) + 1 ELSE Smallest(state.slots, fitting)
  IN  [active |-> (state.active \ retired) \union {[last |-> value.last, slot |-> slot]},
       free |-> free \ {slot},
       slots |-> IF fitting = {} THEN Append(state.slots, value.bytes) ELSE state.slots,
       assignments |-> Put(state.assignments, key, slot)]

Finish ==
  /\ plan = <<>>
  /\ LET done == FoldLeft(Assign,
                          [active |-> {}, free |-> {}, slots |-> <<>>, assignments |-> <<>>],
                          SetToSortSeq(DOMAIN values, Before))
     IN  plan' = <<[slots |-> done.slots, assignments |-> done.assignments]>>
  /\ UNCHANGED <<values, refused>>

PlannerNext ==
  \/ \E key \in ValueNames, bytes \in Sizes, first, last \in Times : Insert(key, bytes, first, last)
  \/ Finish

PlannerSpec == PlannerInit /\ [][PlannerNext]_plannerVars
-----------------------------------------------------------------------------
\* Values whose inclusive lifetimes meet never share a slot, a slot is as large
\* as its largest value and no larger, and values of one size take no more
\* slots than are alive in one step (model.rs:891-933).
PlanSound ==
  \A p \in ToSet(plan) :
    /\ DOMAIN p.assignments = DOMAIN values
    /\ \A k \in DOMAIN values : p.slots[p.assignments[k]] >= values[k].bytes
    /\ \A k, l \in DOMAIN values :
         k # l /\ p.assignments[k] = p.assignments[l]
           => values[k].last < values[l].first \/ values[l].last < values[k].first
    /\ \A s \in DOMAIN p.slots : \E k \in DOMAIN values :
         p.assignments[k] = s /\ values[k].bytes = p.slots[s]
    /\ Cardinality({v.bytes : v \in {values[k] : k \in DOMAIN values}}) = 1
         => Len(p.slots) = Max({0} \union
              {Cardinality({k \in DOMAIN values : values[k].first <= t /\ t <= values[k].last})
                 : t \in Times})
=============================================================================
