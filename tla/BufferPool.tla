----------------------------- MODULE BufferPool -----------------------------
(***************************************************************************)
(* Reuse of temporary buffers on one ordered stream (src/buffer_pool.rs),  *)
(* and the queues that a device's streams share in turn                    *)
(* (StreamQueues of src/fabric/queue.rs).                                  *)
(*                                                                         *)
(* A pool remembers its stream by address only.  Addresses are reused once *)
(* nothing holds the stream's state any more; every buffer holds it.       *)
(***************************************************************************)
EXTENDS Naturals, Sequences, FiniteSets, FiniteSetsExt

CONSTANTS
  Streams,      \* incarnations of streams, created once each
  Addresses,    \* where their state may be allocated
  BlockIds, BlockSizes,
  RetainLimit,  \* BufferPool::limit
  Callers,
  QueueLimit,   \* the configured number of stream queues (8 in the code)
  Nil

VARIABLES
  address,    \* stream -> its address while its state lives, or Nil
  handle,     \* streams whose Stream value lives
  block,      \* block -> its stream, size and holder: "free", a caller or "gone"
  cached,     \* FreeList::cached
  served,     \* FreeList::stream
  asking,     \* caller -> its acquire between the lock and the allocation
  slots, cursor, queueOf, queueCount \* StreamQueues, and each stream's queue

poolVars == <<address, handle, block, cached, served, asking, slots, cursor, queueOf, queueCount>>

Gone == [stream |-> Nil, size |-> 0, holder |-> "gone"]

PoolInit ==
  /\ address = [s \in Streams |-> Nil] /\ handle = {}
  /\ block = [b \in BlockIds |-> Gone] /\ cached = 0 /\ served = Nil
  /\ asking = [c \in Callers |-> Nil]
  /\ slots = <<>> /\ cursor = 0 /\ queueOf = [s \in Streams |-> 0] /\ queueCount = 0

Held(s) == s \in handle \/ \E b \in BlockIds : block[b].stream = s
Free == {b \in BlockIds : block[b].holder = "free"}

-----------------------------------------------------------------------------
(* Device::stream_queue: slots hold weak references and are used in turn.   *)

QueueLives(q) == \E s \in Streams : Held(s) /\ queueOf[s] = q

\* Mutant: the cursor does not wrap.
Turn_Unbounded(slot) == slot + 1

Turn(slot) == (slot + 1) % QueueLimit

\* Creating a stream; a queue is created unless the slot's one still lives.
CreateStream(s, a) ==
  /\ address[s] = Nil /\ queueOf[s] = 0 /\ \A r \in Streams : address[r] # a
  /\ address' = [address EXCEPT ![s] = a] /\ handle' = handle \union {s}
  /\ LET i == cursor + 1
         extend == i > Len(slots)
         new == extend \/ ~QueueLives(slots[i])
         q == IF new THEN queueCount + 1 ELSE slots[i]
     IN /\ queueOf' = [queueOf EXCEPT ![s] = q]
        /\ queueCount' = IF new THEN queueCount + 1 ELSE queueCount
        /\ slots' = IF extend THEN Append(slots, q) ELSE [slots EXCEPT ![i] = q]
        /\ cursor' = Turn(cursor)
  /\ UNCHANGED <<block, cached, served, asking>>

\* The stream's state is freed with the last of its handle and its buffers.
Freed(held) == address' = [s \in Streams |-> IF s \in held THEN address[s] ELSE Nil]
HeldNext == {s \in Streams : s \in handle' \/ \E b \in BlockIds : block'[b].stream = s}

DropStream(s) ==
  /\ s \in handle /\ \A c \in Callers : asking[c] # Nil => asking[c].stream # s
  /\ handle' = handle \ {s}
  /\ UNCHANGED <<block, cached, served, asking, slots, cursor, queueOf, queueCount>>
  /\ Freed(HeldNext)

-----------------------------------------------------------------------------
(* acquire and the drop of a PooledBuffer.                                  *)

\* Mutant: the pool serves whoever asks.
Serves_All(s) == TRUE

Serves(s) == served \in {Nil, address[s]}

\* The smallest block between the request and twice the request, under the lock.
AcquireReused(c, s, bytes) ==
  /\ asking[c] = Nil /\ s \in handle /\ bytes # 0 /\ Serves(s)
  /\ served' = address[s]
  /\ LET fits == {b \in Free : bytes <= block[b].size /\ block[b].size <= 2 * bytes} IN
     \E b \in fits :
       /\ \A d \in fits : block[b].size <= block[d].size
       /\ cached' = cached - block[b].size
       /\ block' = [block EXCEPT ![b].holder = c]
  /\ UNCHANGED <<address, handle, asking, slots, cursor, queueOf, queueCount>>

\* Nothing fits: the lock is released before the stream allocates.
AcquireFresh(c, s, bytes) ==
  /\ asking[c] = Nil /\ s \in handle /\ bytes # 0 /\ Serves(s)
  /\ \A b \in Free : ~(bytes <= block[b].size /\ block[b].size <= 2 * bytes)
  /\ served' = address[s]
  /\ asking' = [asking EXCEPT ![c] = [stream |-> s, bytes |-> bytes]]
  /\ UNCHANGED <<address, handle, block, cached, slots, cursor, queueOf, queueCount>>

\* The allocation succeeds or its error is returned.
Allocated(c) ==
  /\ asking[c] # Nil
  /\ \/ UNCHANGED block
     \/ \E b \in BlockIds :
          /\ block[b] = Gone
          /\ block' = [block EXCEPT ![b] = [stream |-> asking[c].stream, size |-> asking[c].bytes,
                                            holder |-> c]]
  /\ asking' = [asking EXCEPT ![c] = Nil]
  /\ UNCHANGED <<address, handle, cached, served, slots, cursor, queueOf, queueCount>>

\* Mutant: the retained bytes are compared before this buffer is added.
Fits_Before(bytes) == cached < RetainLimit

Fits(bytes) == bytes <= RetainLimit - cached

\* PooledBuffer::drop keeps the block within the limit, or frees it.
Release(b) ==
  /\ block[b].holder \in Callers
  /\ IF Fits(block[b].size)
       THEN /\ cached' = cached + block[b].size
            /\ block' = [block EXCEPT ![b].holder = "free"]
       ELSE /\ block' = [block EXCEPT ![b] = Gone] /\ UNCHANGED cached
  /\ UNCHANGED <<handle, served, asking, slots, cursor, queueOf, queueCount>>
  /\ Freed(HeldNext)

PoolNext ==
  \/ \E s \in Streams : DropStream(s) \/ \E a \in Addresses : CreateStream(s, a)
  \/ \E c \in Callers, s \in Streams, bytes \in {0} \union BlockSizes :
       AcquireReused(c, s, bytes) \/ AcquireFresh(c, s, bytes)
  \/ \E c \in Callers : Allocated(c)
  \/ \E b \in BlockIds : Release(b)

PoolSpec == PoolInit /\ [][PoolNext]_poolVars
-----------------------------------------------------------------------------
\* Reuse follows one queue's order (buffer_pool.rs:58): all blocks of the pool,
\* retained or leased, belong to one stream incarnation although the pool knows
\* it by an address that may come back, and what is retained is counted
\* exactly and bounded although callers allocate outside the lock.
PoolOneStream ==
  /\ \A b, d \in BlockIds : block[b].stream # Nil /\ block[d].stream # Nil =>
       block[b].stream = block[d].stream
  /\ cached = FoldSet(LAMBDA b, n : n + block[b].size, 0, Free)
  /\ cached <= RetainLimit

\* Streams use no more queues than configured at a time, although a queue dies
\* with its last stream and its slot is filled again (queue.rs:18-24, 364-390).
QueuesShared ==
  /\ Cardinality({queueOf[s] : s \in {s \in Streams : Held(s)}}) <= QueueLimit
  /\ cursor < QueueLimit /\ cursor <= Len(slots)
=============================================================================
