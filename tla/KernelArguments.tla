--------------------------- MODULE KernelArguments --------------------------
(***************************************************************************)
(* The arguments and geometry of one kernel launch: Constants and View      *)
(* (src/runtime.rs) built by the caller, prepare_dispatch and prepare_aql    *)
(* pairing them with the entry's layout, and Kernel::arguments              *)
(* (src/fabric/executable.rs) packing the kernel argument block.            *)
(***************************************************************************)
EXTENDS Naturals, Sequences, FiniteSets, SequencesExt

CONSTANTS
  Layouts,       \* entries: sequences of [kind, size, offset], 1 value, 2 buffer
  BlockBytes,    \* bytes of the argument block
  Capacity,      \* 256 bytes of constants
  PointerBytes,  \* 8
  Extents,       \* grid and block sizes of one axis
  GroupLimit,    \* 1024 work items
  Short, Word,   \* 2^16 and 2^32: one past the largest u16 and u32
  Allocation,    \* bytes of each bound buffer
  Address,       \* usize values, and one past the largest
  AddressLimit

VARIABLES
  layout, workgroup, \* the loaded entry
  engine,        \* "pm4" or "aql"
  widths,        \* of the scalars pushed so far
  constants,     \* Constants::bytes: <<scalar, byte>>
  view,          \* [offset, length] of the next buffer
  bindings,      \* views of the buffers bound so far, buffer by buffer
  launch,        \* <<>>, or the block asked for and the one launched
  packed         \* argument block: a function of byte positions

argumentVars ==
  <<layout, workgroup, engine, widths, constants, view, bindings, launch, packed>>

Whole == [offset |-> 0, length |-> Allocation]

ArgumentInit ==
  /\ layout \in Layouts /\ workgroup \in {0, 2} /\ engine \in {"pm4", "aql"}
  /\ widths = <<>> /\ constants = <<>> /\ launch = <<>> /\ packed = <<>>
  /\ view = Whole /\ bindings = <<>>

Values == SelectSeq(layout, LAMBDA slot : slot.kind = 1)
ConstantByteLength == FoldLeft(LAMBDA n, slot : n + slot.size, 0, Values)
BindingCount == Len(layout) - Len(Values)

-----------------------------------------------------------------------------
(* Constants and views.                                                     *)

\* Mutant: the sum wraps.
Spans_Wrapping(offset, length, capacity) == (offset + length) % AddressLimit <= capacity

\* checked_span, whose sum does not fit a usize or lies beyond the capacity.
Spans(offset, length, capacity) == offset + length < AddressLimit /\ offset + length <= capacity

\* Constants::push; a scalar that does not fit leaves the block alone.
Push(width) ==
  /\ launch = <<>> /\ Len(constants) + width <= Capacity
  /\ widths' = Append(widths, width)
  /\ constants' = constants \o [b \in 1 .. width |-> <<Len(widths) + 1, b>>]
  /\ UNCHANGED <<layout, workgroup, engine, view, bindings, launch, packed>>

\* View::slice, relative to the view it narrows; of views that will be passed.
Slice(offset, length) ==
  /\ launch = <<>> /\ Len(bindings) < BindingCount /\ Spans(offset, length, view.length)
  /\ view' = [offset |-> view.offset + offset, length |-> length]
  /\ UNCHANGED <<layout, workgroup, engine, widths, constants, bindings, launch, packed>>

\* The view is the next element of the caller's bindings.
Pass ==
  /\ launch = <<>> /\ Len(bindings) < BindingCount
  /\ bindings' = Append(bindings, view) /\ view' = Whole
  /\ UNCHANGED <<layout, workgroup, engine, widths, constants, launch, packed>>

-----------------------------------------------------------------------------
(* The checks of prepare_dispatch.                                          *)

\* Mutant: the product of the block is not checked.
GroupFits_Wrapping(block) == (block[1] * block[2]) % Word <= GroupLimit

GroupFits(block) == block[1] * block[2] < Word /\ block[1] * block[2] <= GroupLimit

\* validate_launch and validate_export_launch; AQL also multiplies out the grid.
Valid(grid, block) ==
  /\ 0 \notin ToSet(grid) \union ToSet(block) /\ GroupFits(block)
  /\ workgroup # 0 => block[1] = workgroup
  /\ engine = "aql" => \A axis \in DOMAIN grid : grid[axis] * (block[axis] % Short) < Word

-----------------------------------------------------------------------------
(* The walk of the layout, and Kernel::arguments for each of its slots.     *)

\* Mutant: the position in the constants does not advance.
After_Same(scalar, slot) == scalar

After(scalar, slot) == IF slot.kind = 1 THEN scalar + slot.size ELSE scalar

Pointer(n, b) == <<"address", n, bindings[n].offset, b>>

Walk ==
  LET step(state, slot) ==
        [scalar |-> After(state.scalar, slot),
         binding |-> IF slot.kind = 2 THEN state.binding + 1 ELSE state.binding,
         block |-> [p \in 0 .. BlockBytes - 1 |->
           IF p < slot.offset \/ p >= slot.offset + slot.size THEN state.block[p]
           ELSE IF slot.kind = 1 THEN constants[state.scalar + p - slot.offset + 1]
           ELSE Pointer(state.binding, p - slot.offset + 1)]]
      start == [scalar |-> 0, binding |-> 1, block |-> [p \in 0 .. BlockBytes - 1 |-> 0]]
  IN  FoldLeft(step, start, layout).block

\* A slot outside the block, a pointer of another size or a buffer offset at the
\* end of an allocation fails the call.
Packable ==
  /\ \A slot \in ToSet(layout) : slot.offset + slot.size <= BlockBytes
                               /\ (slot.kind = 2 => slot.size = PointerBytes)
  /\ \A n \in DOMAIN bindings : bindings[n].offset < Allocation

Prepare(grid, block) ==
  /\ launch = <<>> /\ Valid(grid, block)
  /\ Len(constants) = ConstantByteLength /\ Len(bindings) = BindingCount /\ Packable
  /\ launch' = <<[asked |-> block, block |-> [axis \in DOMAIN block |-> block[axis] % Short]]>>
  /\ packed' = Walk
  /\ UNCHANGED <<layout, workgroup, engine, widths, constants, view, bindings>>

ArgumentNext ==
  \/ Pass \/ \E width \in {4, 8} : Push(width)
  \/ \E offset, length \in Address : Slice(offset, length)
  \/ \E grid, block \in [1 .. 2 -> Extents] : Prepare(grid, block)

ArgumentSpec == ArgumentInit /\ [][ArgumentNext]_argumentVars

-----------------------------------------------------------------------------
\* A view never leaves its allocation, however it was narrowed (checked_span,
\* runtime.rs:1415).
ViewInside == \A v \in ToSet(bindings) \union {view} : v.offset + v.length <= Allocation

SlotWidths == [i \in DOMAIN Values |-> Values[i].size]

\* "Explicit scalar widths, packed in declaration order" (runtime.rs:1459): when
\* the caller pushed each scalar at the width of its slot, the n-th value slot
\* holds the n-th scalar whole, and the n-th buffer slot the address of the n-th
\* binding, however values and buffers alternate; bytes of no slot are zero.
ArgumentsExact ==
  launch # <<>> =>
    /\ \A p \in 0 .. BlockBytes - 1 :
         (\A slot \in ToSet(layout) : p \notin slot.offset .. slot.offset + slot.size - 1)
           => packed[p] = 0
    /\ \A i \in DOMAIN layout : \A b \in 1 .. layout[i].size :
         LET nth == Cardinality({j \in 1 .. i : layout[j].kind = layout[i].kind})
             found == packed[layout[i].offset + b - 1]
         IN  /\ layout[i].kind = 2 => found = Pointer(nth, b)
             /\ layout[i].kind = 1 /\ widths = SlotWidths => found = <<nth, b>>

\* An accepted block is what the caller asked for, also after it was narrowed to
\* 16 bits, and no group has more items than the hardware runs.
LaunchExact ==
  \A l \in ToSet(launch) :
    /\ l.block = l.asked /\ l.asked[1] * l.asked[2] <= GroupLimit
    /\ workgroup # 0 => l.block[1] = workgroup
=============================================================================
