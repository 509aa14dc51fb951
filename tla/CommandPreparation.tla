------------------------ MODULE CommandPreparation ------------------------
(***************************************************************************)
(* Prepared native commands (src/fabric/queue.rs): what the words of a      *)
(* kernel launch, a wait or a batch reach and what the command owns, how    *)
(* batches are flattened, and the ownership test for reuse of a buffer      *)
(* (src/fabric/memory.rs).  One queue; its producer and its retirement are  *)
(* reduced to the order NativeQueue gives them.  Then the preparation of    *)
(* copies and fills (also queue/sdma.rs): a transfer of any length becomes  *)
(* SDMA parts whose packets fit the ring, or one PM4 batch of kernels       *)
(* within their 32-bit extent.                                              *)
(***************************************************************************)
EXTENDS Integers, Sequences, FiniteSets, SequencesExt, FiniteSetsExt

CONSTANTS
  Operands,      \* buffers of the caller
  Launches,      \* kernel launches: operands, and whether scratch is needed
  BatchShapes,   \* batches: dependency flags, and whether it is profiled
  CommandLimit,  \* bound: commands prepared
  CloneLimit,    \* bound: clones of commands and buffers, and Completions
  SubmitLimit    \* bound: invocations

VARIABLES
  commands,      \* prepared commands, by number
  prepared,      \* command -> clones of its PreparedGpu
  points,        \* command -> invocations with a live Completion
  active,        \* command -> Work::active
  retired,       \* command -> Work::retired
  pending,       \* QueueState::pending: commands in submission order
  owners         \* caller buffer -> handles and views

SumOver(f) == FoldFunction(+, 0, f)

preparationVars == <<commands, prepared, points, active, retired, pending, owners>>

PreparationInit ==
  /\ commands = <<>> /\ prepared = <<>> /\ points = <<>> /\ active = <<>> /\ retired = <<>>
  /\ pending = <<>> /\ owners = [b \in Operands |-> 1]

-----------------------------------------------------------------------------
(* Words, as atoms.  Storage private to command n is <<kind, n>>.           *)

Barrier == [op |-> "barrier", reach |-> {}, mark |-> 0]
Run(n, reach) == [op |-> "run", reach |-> reach, mark |-> n]
WaitFor(n) == [op |-> "wait", reach |-> {<<"fence", n>>}, mark |-> n]
Mark(n, slot) == [op |-> "mark", reach |-> {<<"profile", n>>}, mark |-> slot]
Indirect(n) == [op |-> "ib", reach |-> {<<"storage", n>>}, mark |-> n]
Fence(n) == [op |-> "fence", reach |-> {<<"fence", n>>}, mark |-> n]

New == Len(commands) + 1

\* PreparedGpu::dispatch_words.
DispatchWords(n) == IF commands[n].indirect # <<>> THEN commands[n].indirect
                                                   ELSE commands[n].dispatch

Add(command) ==
  /\ Len(commands) < CommandLimit
  /\ commands' = Append(commands, command)
  /\ prepared' = Append(prepared, 1) /\ points' = Append(points, {})
  /\ active' = Append(active, 0) /\ retired' = Append(retired, 0)
  /\ UNCHANGED <<pending, owners>>

\* prepare_inner without an arena: arguments and fence, and scratch where the
\* kernel has private storage, charged at one unit each.
PrepareKernel(operands, scratch) ==
  /\ \A b \in operands : owners[b] > 0
  /\ LET private == {<<"arguments", New>>} \union (IF scratch THEN {<<"scratch", New>>} ELSE {})
         run == Run(New, operands \union private)
     IN  Add([kind |-> "kernel", kernels |-> {New}, buffers |-> operands \union private,
              dependencies |-> {}, dispatch |-> <<run>>, indirect |-> <<>>,
              words |-> <<Barrier, run, Barrier, Fence(New)>>,
              bytes |-> Cardinality(private) + 1, children |-> <<>>, profiled |-> FALSE])

\* prepare_wait: the producer's pending prefix is snapshotted under its lock.
PrepareWait(n, value) ==
  /\ value \in points[n]
  /\ LET at == {i \in DOMAIN pending : pending[i] = [command |-> n, value |-> value]}
         prefix == IF at = {} THEN {n} ELSE {pending[i].command : i \in 1 .. Max(at)}
         wait == <<WaitFor(n), Barrier>>
     IN  Add([kind |-> "wait", kernels |-> {}, buffers |-> {}, dependencies |-> prefix,
              dispatch |-> wait, indirect |-> <<>>, words |-> Append(wait, Fence(New)),
              bytes |-> 1, children |-> <<>>, profiled |-> FALSE])

\* Mutant: a batch keeps the buffers of its commands, not what they wait for.
Kept_Buffers(children) == {}

Kept(children) == UNION {commands[c.command].dependencies : c \in ToSet(children)}

\* Mutant: every command writes the first pair of timestamps.
Slot_First(index) == 0

Slot(index) == 2 * index

\* One command of a batch in its indirect buffer.
Embedded(child, index, profiled) ==
  (IF child.after THEN <<Barrier>> ELSE <<>>)
    \o (IF profiled THEN <<Barrier, Mark(New, Slot(index))>> ELSE <<>>)
    \o DispatchWords(child.command)
    \o (IF profiled THEN <<Barrier, Mark(New, Slot(index) + 1)>> ELSE <<>>)

\* prepare_batch_inner_with_fence.
PrepareBatch(children, profiled) ==
  /\ children # <<>> /\ \A c \in ToSet(children) : prepared[c.command] > 0
  /\ LET words == FlattenSeq([i \in DOMAIN children |-> Embedded(children[i], i - 1, profiled)])
         private == {<<"storage", New>>} \union (IF profiled THEN {<<"profile", New>>} ELSE {})
         inner == [i \in DOMAIN children |-> commands[children[i].command]]
     IN  Add([kind |-> "batch",
              kernels |-> UNION {c.kernels : c \in ToSet(inner)},
              buffers |-> private \union UNION {c.buffers : c \in ToSet(inner)},
              dependencies |-> Kept(children), dispatch |-> <<Indirect(New)>>,
              indirect |-> words, words |-> <<Barrier, Indirect(New), Barrier, Fence(New)>>,
              bytes |-> Cardinality(private) + 1
                        + FoldLeft(LAMBDA n, c : n + c.bytes, 0, inner),
              children |-> children, profiled |-> profiled])

-----------------------------------------------------------------------------
(* Use of commands and buffers.                                             *)

\* Handles beyond the first of each buffer and command.
Clones ==
  LET beyond(count) == SumOver([i \in DOMAIN count |-> IF count[i] > 1 THEN count[i] - 1 ELSE 0])
  IN  beyond(prepared) + beyond(owners)
        + SumOver([n \in DOMAIN points |-> Cardinality(points[n])])

\* Dispatch of a command; replays queue behind each other.
Submit(n, keep) ==
  /\ prepared[n] > 0 /\ SumOver(active) < SubmitLimit
  /\ keep => Clones < CloneLimit
  /\ active' = [active EXCEPT ![n] = @ + 1]
  /\ pending' = Append(pending, [command |-> n, value |-> active[n] + 1])
  /\ points' = [points EXCEPT ![n] = IF keep THEN @ \union {active'[n]} ELSE @]
  /\ UNCHANGED <<commands, prepared, retired, owners>>

\* The queue's oldest invocation retires, and with it what it waited for.
Retire ==
  /\ pending # <<>>
  /\ retired' = [retired EXCEPT ![Head(pending).command] = Head(pending).value]
  /\ pending' = Tail(pending)
  /\ UNCHANGED <<commands, prepared, points, active, owners>>

\* PreparedGpu, Completion and Buffer handles are cloned and dropped.
Clone(n) ==
  /\ prepared[n] > 0 /\ Clones < CloneLimit
  /\ prepared' = [prepared EXCEPT ![n] = @ + 1]
  /\ UNCHANGED <<commands, points, active, retired, pending, owners>>

Discard(n) ==
  /\ prepared[n] > 0
  /\ prepared' = [prepared EXCEPT ![n] = @ - 1]
  /\ UNCHANGED <<commands, points, active, retired, pending, owners>>

Forget(n, value) ==
  /\ value \in points[n]
  /\ points' = [points EXCEPT ![n] = @ \ {value}]
  /\ UNCHANGED <<commands, prepared, active, retired, pending, owners>>

Hold(b) ==
  /\ owners[b] > 0 /\ Clones < CloneLimit
  /\ owners' = [owners EXCEPT ![b] = @ + 1]
  /\ UNCHANGED <<commands, prepared, points, active, retired, pending>>

Release(b) ==
  /\ owners[b] > 0
  /\ owners' = [owners EXCEPT ![b] = @ - 1]
  /\ UNCHANGED <<commands, prepared, points, active, retired, pending>>

PreparationNext ==
  \/ \E l \in Launches : PrepareKernel(l.operands, l.scratch)
  \/ \E n \in DOMAIN commands :
       \/ \E value \in points[n] : PrepareWait(n, value) \/ Forget(n, value)
       \/ Clone(n) \/ Discard(n) \/ \E keep \in BOOLEAN : Submit(n, keep)
  \/ \E shape \in BatchShapes : \E chosen \in [DOMAIN shape.flags -> DOMAIN commands] :
       PrepareBatch([i \in DOMAIN chosen |-> [command |-> chosen[i], after |-> shape.flags[i]]],
                    shape.profiled)
  \/ \E b \in Operands : Hold(b) \/ Release(b)
  \/ Retire

PreparationSpec == PreparationInit /\ [][PreparationNext]_preparationVars

-----------------------------------------------------------------------------
(* Ownership.                                                               *)

InFlight(n) == n \in {p.command : p \in ToSet(pending)}

\* Owners of Work other than its PreparedInner.
Outside(n) == points[n] # {} \/ InFlight(n)

\* Works some live command, Completion or pending entry reaches.
Alive ==
  LET roots == {n \in DOMAIN commands : prepared[n] > 0 \/ Outside(n)}
      step(set, n) == IF n \in set THEN set \union commands[n].dependencies ELSE set
  IN  FoldLeft(step, roots, Reverse([n \in DOMAIN commands |-> n]))

StrongCount(b) == owners[b] + Cardinality({n \in Alive : b \in commands[n].buffers})
Dependents(n) == {m \in Alive \ {n} : n \in commands[m].dependencies}

\* private_retired_buffer_owners answers for this command.
Private(n) ==
  /\ commands[n].kind = "kernel" /\ prepared[n] = 1
  /\ ~Outside(n) /\ Dependents(n) = {}
  /\ retired[n] = active[n]

\* Mutant: a command may be named twice.
Distinct_Any(list) == TRUE

Distinct(list) == IsInjective(list)

\* Buffer::exclusively_owned_with_commands of a whole allocation.
ExclusiveWith(b, list) ==
  /\ owners[b] > 0
  /\ \A n \in ToSet(list) : prepared[n] > 0 /\ Private(n)
  /\ Distinct(list)
  /\ StrongCount(b) =
       1 + Cardinality({i \in DOMAIN list : b \in commands[list[i]].buffers})

-----------------------------------------------------------------------------
Reached(words) == UNION {a.reach : a \in ToSet(words)}

\* "The source fence and all indirect resources remain owned through retirement"
\* (queue.rs:1052), for launches, waits and batches of batches: what the words
\* of a command in flight reach, directly or through its indirect buffer, is
\* owned by its Work, or is the fence of a Work it depends on.
WordsOwned ==
  \A n \in DOMAIN commands :
    LET c == commands[n]
        fences == {<<"fence", m>> : m \in c.dependencies \union {n}}
    IN  Reached(c.words \o c.indirect) \subseteq c.buffers \union fences

Leaves(words) == SelectSeq(words, LAMBDA a : a.op \in {"run", "wait"})
Marks(c, n) == SelectSeq(c.indirect, LAMBDA a : a.reach = {<<"profile", n>>})

\* A batch holds the launches and waits of its commands in order and never an
\* indirect buffer ("PM4 IB nesting is bounded", queue.rs:1146).  A dependency
\* flag separates a command from the one before it.  A profiled batch writes
\* every timestamp once and in order, the launches of a command between its two.
BatchExact ==
  \A n \in DOMAIN commands : commands[n].kind = "batch" =>
    LET c == commands[n]
        pieces == [i \in DOMAIN c.children |-> DispatchWords(c.children[i].command)]
        before(i) == FlattenSeq(SubSeq(pieces, 1, i - 1))
    IN
    /\ Leaves(c.indirect) = FlattenSeq([i \in DOMAIN pieces |-> Leaves(pieces[i])])
    /\ \A a \in ToSet(c.indirect) : a.op \notin {"ib", "fence"}
    /\ \A i \in DOMAIN c.children : c.children[i].after =>
         \E k \in DOMAIN c.indirect :
           /\ c.indirect[k] = Barrier
           /\ Leaves(SubSeq(c.indirect, 1, k)) = Leaves(before(i))
    /\ c.profiled =>
         Marks(c, n) = [i \in 1 .. 2 * Len(pieces) |-> Mark(n, i - 1)]

\* storage_bytes covers every private allocation the command keeps alive.
StorageCharged ==
  \A n \in DOMAIN commands :
    commands[n].bytes >= Cardinality(commands[n].buffers \ Operands) + 1

\* A buffer reported exclusive with some commands has no other handle or view,
\* no other command keeps it alive, and nothing in flight reaches it ("External
\* Buffer views/owners still reject", memory.rs:100).
ExclusiveIsAlone ==
  \A b \in Operands : \A list \in SeqOf(DOMAIN commands, 2) :
    ExclusiveWith(b, list) =>
      /\ owners[b] = 1
      /\ \A n \in Alive : b \in commands[n].buffers => n \in ToSet(list) /\ prepared[n] = 1
      /\ \A p \in ToSet(pending) : b \notin Reached(DispatchWords(p.command))
-----------------------------------------------------------------------------
(* Transfers.                                                               *)

CONSTANTS
  RingBytes,      \* mapped ring, a power of two of at least 4096
  PacketBytes,    \* 2^20 in the code: bytes one SDMA packet moves
  PacketCap,      \* 2^12 - 1 in the code: u32::MAX >> 20
  KernelBytes,    \* u32::MAX & !255 in the code: bytes one transfer kernel moves
  GroupLimit,     \* 2^24 in the code: workgroups the kernels are compiled for
  Gcr,            \* whether SDMA packets carry explicit cache actions
  Bases, Lengths  \* device addresses and lengths of requests

VARIABLES
  request,        \* the engine, kind, addresses and length asked for
  parts,          \* the physical commands, in publication order
  charged         \* bytes reserved for their completion fences

transferVars == <<request, parts, charged>>
NoRequest == [kind |-> "none"]

TransferInit == request = NoRequest /\ parts = <<>> /\ charged = 0

CeilDiv(n, d) == (n + d - 1) \div d
Up8(n) == CeilDiv(n, 8) * 8
Chunks(first, bytes, size) ==
  [i \in 1 .. CeilDiv(bytes, size) |->
     [at |-> first + (i - 1) * size, bytes |-> Min({size, bytes - (i - 1) * size})]]

-----------------------------------------------------------------------------
(* SDMA.                                                                    *)

\* Mutant: a publication may take the whole ring.
WordBudget_Full(ring) == (((ring \div 4) - 1) \div 8) * 8

WordBudget(ring) == (((ring \div 8) - 1) \div 8) * 8

SdmaLimit == Min({(WordBudget(RingBytes) - 28) \div 7, PacketCap}) * PacketBytes

CacheWords == IF Gcr THEN 5 ELSE 0
\* sdma_prepared: acquire, payload, release, fence, zeroes to a multiple of eight.
SdmaWords(payload) == Up8(CacheWords + payload + CacheWords + 4)

SdmaCopy(to, from, bytes) ==
  LET moves == Chunks(to, bytes, PacketBytes) IN
  [engine |-> "sdma", moves |-> moves, words |-> SdmaWords(7 * Len(moves)), groups |-> 0]

\* Mutant: the unaligned head is left to the aligned fill.
Head4_None(to, bytes) == 0

Head4(to, bytes) == Min({(4 - (to % 4)) % 4, bytes})

\* Byte tails are copied from a retained pattern; the aligned body is filled.
SdmaFill(to, bytes) ==
  LET head == Head4(to, bytes)
      middle == ((bytes - head) \div 4) * 4
      tail == bytes - head - middle
      copies == SelectSeq(<<[at |-> to, bytes |-> head],
                            [at |-> to + head + middle, bytes |-> tail]>>,
                          LAMBDA m : m.bytes # 0)
      fills == Chunks(to + head, middle, PacketBytes)
  IN [engine |-> "sdma", moves |-> copies \o fills, fills |-> ToSet(fills),
      words |-> SdmaWords(7 * Len(copies) + 5 * Len(fills)), groups |-> 0]

-----------------------------------------------------------------------------
(* Transfer kernels: eight-byte elements when addresses and length allow.   *)

Kernel(to, from, bytes) ==
  LET wide == to % 8 = 0 /\ from % 8 = 0 /\ bytes % 8 = 0 IN
  [engine |-> "pm4", moves |-> <<[at |-> to, bytes |-> bytes]>>, words |-> 0,
   wide |-> wide, groups |-> CeilDiv(IF wide THEN bytes \div 8 ELSE bytes, 256)]

Part(kind, sdma, to, from, bytes) ==
  IF ~sdma THEN Kernel(to, from, bytes)
  ELSE IF kind = "copy" THEN SdmaCopy(to, from, bytes) ELSE SdmaFill(to, bytes)

Limit(sdma) == IF sdma THEN SdmaLimit ELSE KernelBytes

\* prepare_transfer over transfer_chunks.
Split(kind, sdma, to, from, length) ==
  LET chunks == Chunks(0, length, Limit(sdma)) IN
  [i \in DOMAIN chunks |->
     Part(kind, sdma, to + chunks[i].at, from + chunks[i].at, chunks[i].bytes)]

Fences(sdma, split) == IF sdma THEN Len(split) ELSE 1

\* Mutant: one fence is charged for a split transfer.
Charge_One(sdma, length) == 64

\* prepare_copy_reserved charges the fences before they are allocated.
Charge(sdma, length) == 64 * (IF sdma THEN CeilDiv(length, SdmaLimit) ELSE 1)

Disjoint(to, from, length) == to >= from + length \/ from >= to + length

PrepareCopy(sdma, to, from, length) ==
  /\ request = NoRequest /\ length # 0 /\ Disjoint(to, from, length)
  /\ sdma => SdmaLimit > 0
  /\ request' = [kind |-> "copy", sdma |-> sdma, to |-> to, from |-> from, length |-> length]
  /\ parts' = Split("copy", sdma, to, from, length)
  /\ charged' = Charge(sdma, length)

PrepareFill(sdma, to, length) ==
  /\ request = NoRequest /\ length # 0 /\ (sdma => SdmaLimit > 0)
  /\ request' = [kind |-> "fill", sdma |-> sdma, to |-> to, from |-> to, length |-> length]
  /\ parts' = Split("fill", sdma, to, to, length)
  /\ charged' = 0

DropTransfer ==
  /\ request # NoRequest
  /\ request' = NoRequest /\ parts' = <<>> /\ charged' = 0

TransferNext ==
  \/ \E sdma \in BOOLEAN, to \in Bases, from \in Bases, length \in Lengths :
       PrepareCopy(sdma, to, from, length)
  \/ \E sdma \in BOOLEAN, to \in Bases, length \in Lengths : PrepareFill(sdma, to, length)
  \/ DropTransfer

TransferSpec == TransferInit /\ [][TransferNext]_transferVars
-----------------------------------------------------------------------------
AllMoves == UNION {{<<p, m>> : m \in DOMAIN parts[p].moves} : p \in DOMAIN parts}
Move(x) == parts[x[1]].moves[x[2]]

\* The packets of all parts tile the requested bytes: each byte is written once
\* and none outside the range is, whatever the alignment of either end, and
\* word fills and eight-byte kernels only touch aligned ranges.
TransfersExact ==
  request # NoRequest =>
    LET starts == {Move(x).at : x \in AllMoves}
        ends == {Move(x).at + Move(x).bytes : x \in AllMoves}
    IN  /\ Cardinality(starts) = Cardinality(AllMoves)
        /\ starts \ {request.to} = ends \ {request.to + request.length}
        /\ request.to \in starts
        /\ \A x \in AllMoves : Move(x).bytes > 0
        /\ \A p \in DOMAIN parts :
             \A m \in (IF "fills" \in DOMAIN parts[p] THEN parts[p].fills ELSE {}) :
               m.at % 4 = 0 /\ m.bytes % 4 = 0

RingWords == RingBytes \div 4
\* Words a publication needs at a cursor, with the pad to the end of the ring.
Needs(words, cursor) == words + (IF words > RingWords - cursor THEN RingWords - cursor ELSE 0)

\* Every part can be published into an empty ring wherever the cursor stands
\* (sdma.rs:4), a kernel never needs more workgroups than it was compiled for
\* (queue.rs:1635-1641), and every fence a copy retains has its charge (1771-1782).
PartsPublishable ==
  request # NoRequest =>
    /\ \A p \in DOMAIN parts :
         /\ parts[p].groups <= GroupLimit
         /\ \A unit \in 0 .. (RingWords \div 8) - 1 : Needs(parts[p].words, 8 * unit) < RingWords
    /\ request.kind = "copy" => charged = 64 * Fences(request.sdma, parts)
=============================================================================
