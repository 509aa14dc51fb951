---------------------------- MODULE ModelFragment ----------------------------
(***************************************************************************)
(* Frozen models (src/loom/model/definition.rs): a fragment is validated    *)
(* once and then appended to graphs, its regions remapped to supplied       *)
(* tensors, shared weights, new allocations and, on request, the private    *)
(* scratch pool of the graph (src/execution/graph.rs).                      *)
(***************************************************************************)
EXTENDS Integers, Sequences, FiniteSets, SequencesExt, FiniteSetsExt

CONSTANTS
  Storages,      \* allocation -> [kind, bytes]: kind "weight", "device" or "shared"
  Drafts,        \* arguments of fragment(): [commands, inputs, outputs, reuse]
  Tensors,       \* tensors of other producers: views [buffer, first, end]
  RecordLimit    \* bound: fragments recorded into one graph

VARIABLES
  entries,       \* bindings recorded into the graph: [views, accesses]
  pool,          \* Graph::fragment_scratch: [shared, buffer, bytes]
  sizes,         \* bytes of the buffers allocated for the graph
  tensors,       \* tensors a caller holds
  records        \* records: fragment, the buffers it was bound to, accepted or not

fragmentVars == <<entries, pool, sizes, tensors, records>>

Allocations == DOMAIN Storages
Weight(a) == Storages[a].kind = "weight"

\* Weights are buffers numbered like their allocation; later buffers follow
\* the ones of Tensors.
FirstBuffer == 100
FragmentInit ==
  /\ entries = <<>> /\ pool = <<>> /\ sizes = <<>>
  /\ tensors = Tensors /\ records = <<>>

Overlaps(v, w) == v.buffer = w.buffer /\ v.first < w.end /\ w.first < v.end

-----------------------------------------------------------------------------
(* ModelDefinition::fragment.                                               *)

ValidRegion(r) == r.allocation \in Allocations /\ r.offset + r.bytes <= Storages[r.allocation].bytes

ValidIO(io) ==
  \A i \in DOMAIN io : /\ ValidRegion(io[i].region) /\ ~Weight(io[i].region.allocation)
                       /\ io[i].bytes > 0 /\ io[i].bytes <= io[i].region.bytes

\* Mutant: only fills are refused on weights.
MayTouch_Any(region, access) == TRUE

MayTouch(region, access) == access # "Read" => ~Weight(region.allocation)

\* A fill is a command with one binding, of access "Fill".  The contract of a
\* kernel admits no empty binding; a fill may be empty.
ValidCommand(bindings) ==
  \A i \in DOMAIN bindings :
    /\ ValidRegion(bindings[i].region) /\ MayTouch(bindings[i].region, bindings[i].access)
    /\ bindings[i].access = "Fill" \/ bindings[i].region.bytes > 0

Extent(draft, a) ==
  Max({0} \union
      UNION {{b.region.offset + b.region.bytes : b \in {c \in ToSet(command) : c.region.allocation = a}}
               : command \in ToSet(draft.commands)} \union
      {io.region.offset + io.bytes
         : io \in {x \in ToSet(draft.inputs) \union ToSet(draft.outputs) : x.region.allocation = a}})

Valid(draft) ==
  /\ ValidIO(draft.inputs) /\ ValidIO(draft.outputs)
  /\ \A i \in DOMAIN draft.commands : ValidCommand(draft.commands[i])

Fragment(draft) == [draft |-> draft, extents |-> [a \in Allocations |-> Extent(draft, a)]]

-----------------------------------------------------------------------------
(* ModelFragment::append.  Unbound stands for None.                         *)

Unbound == [base |-> 0, view |-> [buffer |-> 0, first |-> 0, end |-> 0]]

\* Mutant: a tensor is compared with the weights alone.
Alias_Weights(buffers, a, view) == \E w \in Allocations : Weight(w) /\ view.buffer = w

Alias(buffers, a, view) ==
  \/ \E b \in Allocations \ {a} : Overlaps(buffers[b].view, view)
  \/ \E w \in Allocations : Weight(w) /\ view.buffer = w

\* Inputs bind their allocation at the region's offset; a second input of the
\* same allocation must be the same bytes at the same offset.
BindInput(state, i, fragment, supplied) ==
  LET io == fragment.draft.inputs[i]
      a == io.region.allocation
      new == [base |-> io.region.offset, view |-> supplied[i]]
  IN  IF ~state.ok THEN state
      ELSE [ok |-> /\ supplied[i].end - supplied[i].first = io.bytes
                   /\ ~Alias(state.buffers, a, supplied[i])
                   /\ state.buffers[a] \in {Unbound, new},
            buffers |-> [state.buffers EXCEPT ![a] = new]]

Exposed(draft) ==
  {io.region.allocation : io \in ToSet(draft.inputs) \union ToSet(draft.outputs)}

\* Mutant: scratch that holds an output is recycled too.
Private_Outputs(fragment) ==
  {a \in Allocations : ~Weight(a) /\ fragment.extents[a] > 0
      /\ a \notin {io.region.allocation : io \in ToSet(fragment.draft.inputs)}}

Private(fragment) ==
  {a \in Allocations : ~Weight(a) /\ fragment.extents[a] > 0 /\ a \notin Exposed(fragment.draft)}

View(buffer, bytes) == [buffer |-> buffer, first |-> 0, end |-> bytes]
Fresh(allocated) == FirstBuffer + Len(sizes) + Len(allocated)

\* Mutant: a pooled buffer may serve two requests of one fragment.
Candidates_Used(state, shared, bytes) ==
  {i \in DOMAIN state.pool : state.pool[i].shared = shared /\ state.pool[i].bytes >= bytes}

Candidates(state, shared, bytes) ==
  {i \in DOMAIN state.pool \ state.used :
     state.pool[i].shared = shared /\ state.pool[i].bytes >= bytes}

\* Graph::fragment_scratch, one request: the smallest unused fit, or a new one.
Scratch(state, a, fragment) ==
  LET bytes == fragment.extents[a]
      shared == Storages[a].kind = "shared"
      fits == Candidates(state, shared, bytes)
      best == Min({i \in fits : \A j \in fits : state.pool[i].bytes <= state.pool[j].bytes})
      grown == Append(state.pool, [shared |-> shared, buffer |-> Fresh(state.allocated),
                                   bytes |-> bytes])
      index == IF fits = {} THEN Len(grown) ELSE best
      pooled == IF fits = {} THEN grown ELSE state.pool
  IN  [pool |-> pooled, used |-> state.used \union {index},
       allocated |-> IF fits = {} THEN Append(state.allocated, bytes) ELSE state.allocated,
       buffers |-> [state.buffers EXCEPT ![a] = [base |-> 0, view |-> View(pooled[index].buffer, bytes)]]]

Rest(state, a, fragment) ==
  IF state.buffers[a] # Unbound THEN state
  ELSE IF Weight(a)
       THEN [state EXCEPT !.buffers[a] = [base |-> 0, view |-> View(a, Storages[a].bytes)]]
  ELSE IF fragment.extents[a] = 0 THEN state
  ELSE [state EXCEPT
          !.buffers[a] = [base |-> 0, view |-> View(Fresh(state.allocated), fragment.extents[a])],
          !.allocated = Append(@, fragment.extents[a])]

Ascending(set) == SetToSortSeq(set, <)

\* The buffers of every allocation once the inputs are bound.
Bind(fragment, bound) ==
  LET start == [pool |-> pool, used |-> {}, allocated |-> <<>>, buffers |-> bound]
      scratched == IF fragment.draft.reuse
                   THEN FoldLeft(LAMBDA s, a : Scratch(s, a, fragment), start,
                                 Ascending(Private(fragment)))
                   ELSE start
  IN  FoldLeft(LAMBDA s, a : Rest(s, a, fragment), scratched, Ascending(Allocations))

Mapped(buffers, r) ==
  LET b == buffers[r.allocation] IN
  [buffer |-> b.view.buffer, first |-> b.view.first + r.offset - b.base,
   end |-> b.view.first + r.offset - b.base + r.bytes]

\* Access may neither precede nor exceed what was bound.  An empty fill of
\* scratch that nothing else uses finds no buffer: append panics there.
Reachable(buffers, r) ==
  LET b == buffers[r.allocation] IN
  /\ b # Unbound
  /\ r.offset >= b.base /\ r.offset - b.base + r.bytes <= b.view.end - b.view.first

Leading(io) == [io.region EXCEPT !.bytes = io.bytes]

\* Every binding is validated before the graph is changed, but scratch was
\* pooled before.
Record(fragment, supplied) ==
  LET draft == fragment.draft
      empty == [a \in Allocations |-> Unbound]
      inputs == FoldLeft(LAMBDA s, i : BindInput(s, i, fragment, supplied),
                         [ok |-> TRUE, buffers |-> empty], [i \in DOMAIN draft.inputs |-> i])
      bound == Bind(fragment, inputs.buffers)
      regions == {b.region : b \in UNION {ToSet(c) : c \in ToSet(draft.commands)}}
                   \union {Leading(io) : io \in ToSet(draft.inputs) \union ToSet(draft.outputs)}
      fits == \A r \in regions : Reachable(bound.buffers, r)
  IN  /\ Len(records) < RecordLimit /\ Len(supplied) = Len(draft.inputs) /\ inputs.ok
      /\ pool' = bound.pool /\ sizes' = sizes \o bound.allocated
      /\ IF fits
         THEN /\ entries' = entries \o
                   [i \in DOMAIN draft.commands |->
                      [k \in DOMAIN draft.commands[i] |->
                         [view |-> Mapped(bound.buffers, draft.commands[i][k].region),
                          access |-> draft.commands[i][k].access]]]
              /\ tensors' = tensors \union
                   {Mapped(bound.buffers, Leading(io)) : io \in ToSet(draft.outputs)}
         ELSE UNCHANGED <<entries, tensors>>
      /\ records' = Append(records, [draft |-> draft, buffers |-> bound.buffers, accepted |-> fits])

FragmentNext ==
  \E draft \in Drafts : /\ Valid(draft)
                        /\ \E supplied \in [DOMAIN draft.inputs -> tensors] :
                             Record(Fragment(draft), supplied)

FragmentSpec == FragmentInit /\ [][FragmentNext]_fragmentVars
-----------------------------------------------------------------------------
RegionsOf(draft) == {b.region : b \in UNION {ToSet(c) : c \in ToSet(draft.commands)}}
RegionsMeet(r, s) ==
  r.allocation = s.allocation /\ r.offset < s.offset + s.bytes /\ s.offset < r.offset + r.bytes

\* "fragment remapping introduces an undeclared alias" is refused
\* (definition.rs:324-338): in whatever it was bound to, two regions of a
\* recorded fragment share bytes exactly when they did in the model.
AliasesDeclared ==
  \A record \in {x \in ToSet(records) : x.accepted} : \A r, s \in RegionsOf(record.draft) :
    Overlaps(Mapped(record.buffers, r), Mapped(record.buffers, s)) <=> RegionsMeet(r, s)

\* No recorded command writes shared weights, and pooled scratch that a later
\* fragment overwrites is never visible through a tensor a caller holds
\* (definition.rs:174-209, 342-368; graph.rs:76-78).
SharedUntouched ==
  /\ \A i \in DOMAIN entries : \A k \in DOMAIN entries[i] :
       entries[i][k].access # "Read" =>
         ~\E w \in Allocations : Weight(w) /\ entries[i][k].view.buffer = w
  /\ \A t \in tensors, i \in DOMAIN pool : t.buffer # pool[i].buffer
=============================================================================
