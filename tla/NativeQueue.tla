---------------------------- MODULE NativeQueue ----------------------------
(***************************************************************************)
(* Native PM4 and SDMA queues (src/fabric/queue.rs): a host producer       *)
(* publishes prepared commands into a power-of-two ring, the GPU consumes  *)
(* the ring, executes in order and writes one fence value per invocation,  *)
(* and completions retire the leases that keep operands from host access.  *)
(*                                                                         *)
(* Ring positions count units of eight words: every prepared command is    *)
(* padded to a multiple of eight (PaddedWords), so the cursor is always    *)
(* aligned and a wrap pad is never the one word a NOP header cannot hold.  *)
(***************************************************************************)
EXTENDS Integers, Sequences, FiniteSets, Functions

CONSTANTS
  Queues, Threads, Buffers,
  Works,          \* single physical commands, prepared before or by PrepareWait
  Waits,          \* the works that prepare_wait creates
  Commands,       \* PreparedGpu values: nonempty sequences of works (parts)
  QueueOf, Units, Operands, \* of a work: its queue, its ring units, its buffers
  RingUnits,      \* ring capacity, a power of two
  PendingLimit,   \* 4096 in the code
  TimelineMax,    \* u32::MAX in the code
  LeaseLimit,     \* usize::MAX in the code
  None

VARIABLES
  write, read,    \* absolute ring indexes of producer and consumer
  ring,           \* what each ring unit holds
  pending,        \* QueueState::pending
  gpu,            \* published submissions the GPU has not completed
  producer,       \* who holds QueueInner::state across steps
  fence, active, retired, previous, \* per work: fence word and timelines
  leases,         \* Work::leases
  deps,           \* Work::dependencies of a wait, with those they pull in
  op,             \* what each thread is doing
  lost,           \* the provider reports a terminal status
  phase,          \* "live", "destroyed" or "leaked" per queue
  history         \* every publication in order (for the properties)

vars == <<write, read, ring, pending, gpu, producer, fence, active, retired,
          previous, leases, deps, op, lost, phase, history>>

Points == [work : Works, value : 1 .. TimelineMax]
Idle == [pc |-> "idle"]

Init ==
  /\ write = [q \in Queues |-> 0] /\ read = [q \in Queues |-> 0]
  /\ ring = [q \in Queues |-> [i \in 0 .. RingUnits - 1 |-> None]]
  /\ pending = [q \in Queues |-> <<>>] /\ gpu = [q \in Queues |-> <<>>]
  /\ producer = [q \in Queues |-> None]
  /\ fence = [w \in Works |-> 0] /\ active = [w \in Works |-> 0]
  /\ retired = [w \in Works |-> 0] /\ previous = [w \in Works |-> 0]
  /\ leases = [w \in Works |-> {}]
  /\ deps = [w \in Waits |-> None]
  /\ op = [t \in Threads |-> Idle]
  /\ lost = FALSE /\ phase = [q \in Queues |-> "live"]
  /\ history = [q \in Queues |-> <<>>]

Become(t, state) == op' = [op EXCEPT ![t] = state]
Return(t) == Become(t, Idle)

-----------------------------------------------------------------------------
(* Retirement. A wait's dependencies hold their own dependencies too, which *)
(* is where the nested calls of Work::retire arrive.                        *)

Dependencies(w) == IF w \in Waits /\ deps[w] # None THEN deps[w].all ELSE {}

Settled(w, v) ==
  \/ retired[w] >= v
  \/ fence[w] >= v /\ \A d \in Dependencies(w) : fence[d.work] >= d.value

\* The works that one successful retire(w, v) visits under their lease locks.
Visited(w, v) ==
  IF retired[w] >= v THEN {}
  ELSE {w} \union {d.work : d \in {x \in Dependencies(w) : retired[x.work] < x.value}}

\* Mutant: leases dropped although a later invocation is in flight.
Retire_Any(ws) ==
  /\ leases' = [w \in Works |-> IF w \in ws THEN {} ELSE leases[w]]
  /\ retired' = [w \in Works |-> IF w \in ws THEN fence[w] ELSE retired[w]]

Retire(ws) ==
  /\ leases' = [w \in Works |-> IF w \in ws /\ fence[w] >= active[w] THEN {} ELSE leases[w]]
  /\ retired' = [w \in Works |-> IF w \in ws THEN fence[w] ELSE retired[w]]

\* The completed prefix of the pending queue.
Reapable(q) ==
  LET ready(n) == \A i \in 1 .. n : Settled(pending[q][i].work, pending[q][i].value)
  IN  CHOOSE n \in 0 .. Len(pending[q]) :
        ready(n) /\ (n < Len(pending[q]) => ~ready(n + 1))

VisitedBy(points) == UNION {Visited(p.work, p.value) : p \in points}

ReapPrefix(q) ==
  LET n == Reapable(q) IN
  /\ Retire(VisitedBy(Range(SubSeq(pending[q], 1, n))))
  /\ pending' = [pending EXCEPT ![q] = SubSeq(@, n + 1, Len(@))]

\* The status query behind the first unfinished submission reports a failure.
ReapFails(q) == lost /\ Reapable(q) < Len(pending[q])

-----------------------------------------------------------------------------
(* Dispatch. dispatch_one holds the command's own lock from Begin to its    *)
(* return, so two threads never publish one work at once, and the producer  *)
(* lock from Reap to the publication.                                       *)

Busy(t) == op[t].pc # "idle"
WorkOf(t) == op[t].command[op[t].part]
QueueFor(t) == QueueOf[WorkOf(t)]
Inside == {"reap", "room", "await", "publish"}

Uses(b) ==
  Cardinality({w \in Works : b \in leases[w]}) +
  Cardinality({t \in Threads : Busy(t) /\ b \in op[t].guard})

\* Mutant: the operands are not guarded between the parts.
Guard_None(c) == {}

\* retain_parts: a split transfer guards its operands between its parts.
Guard(c) == IF Len(c) = 1 THEN {} ELSE Operands[c[Len(c)]]

Prepared(c) == \A i \in DOMAIN c : c[i] \in Waits => deps[c[i]] # None
Alive(c) == \A i \in DOMAIN c : phase[QueueOf[c[i]]] = "live"

\* dispatch, dispatch_wait, dispatch_part_wait: several parts always wait.
Dispatch(t, c, wait) ==
  /\ ~Busy(t) /\ Prepared(c) /\ Alive(c) /\ (Len(c) > 1 => wait)
  /\ \A b \in Guard(c) : Uses(b) < LeaseLimit
  /\ Become(t, [pc |-> "begin", command |-> c, part |-> 1, wait |-> wait,
                guard |-> Guard(c), last |-> None, target |-> None, seen |-> FALSE])
  /\ UNCHANGED <<write, read, ring, pending, gpu, producer, fence, active, retired,
                 previous, leases, deps, lost, phase, history>>

\* A failed part drains the accepted prefix before the call returns.
Fail(t) ==
  IF op[t].last = None THEN Return(t)
  ELSE Become(t, [op[t] EXCEPT !.pc = "settle", !.target = op[t].last, !.seen = FALSE])

Begin(t) ==
  /\ op[t].pc = "begin"
  /\ \A u \in Threads \ {t} : op[u].pc \in Inside => WorkOf(u) # WorkOf(t)
  /\ IF previous[WorkOf(t)] = TimelineMax THEN Fail(t)
     ELSE Become(t, [op[t] EXCEPT !.pc = "reap"])
  /\ UNCHANGED <<write, read, ring, pending, gpu, producer, fence, active, retired,
                 previous, leases, deps, lost, phase, history>>

Reap(t) ==
  /\ op[t].pc = "reap" /\ producer[QueueFor(t)] = None
  /\ ReapPrefix(QueueFor(t))
  /\ IF ReapFails(QueueFor(t))
       THEN Fail(t) /\ UNCHANGED producer
       ELSE /\ Become(t, [op[t] EXCEPT !.pc = "room"])
            /\ producer' = [producer EXCEPT ![QueueFor(t)] = t]
  /\ UNCHANGED <<write, read, ring, gpu, fence, active, previous, deps, lost, phase, history>>

Cursor(q) == write[q] % RingUnits
Wrap(q, n) == IF n > RingUnits - Cursor(q) THEN RingUnits - Cursor(q) ELSE 0

\* Mutant: the pad at the end of the ring is not counted.
Required_NoPad(q, n) == n

Required(q, n) == Wrap(q, n) + n

Outstanding(q) == (write[q] - read[q]) % RingUnits

Full(q, n) ==
  Len(pending[q]) >= PendingLimit \/ Required(q, n) >= RingUnits - Outstanding(q)

Unlock(t) == producer' = [producer EXCEPT ![QueueFor(t)] = None]

\* wait_for_capacity needs pending work whose fence it can await.
Refuse(t) ==
  /\ op[t].pc = "room" /\ Full(QueueFor(t), Units[WorkOf(t)])
  /\ IF op[t].wait /\ pending[QueueFor(t)] # <<>>
       THEN Become(t, [op[t] EXCEPT !.pc = "await", !.seen = FALSE,
                                    !.target = Head(pending[QueueFor(t)])])
       ELSE Fail(t)
  /\ Unlock(t)
  /\ UNCHANGED <<write, read, ring, pending, gpu, fence, active, retired, previous,
                 leases, deps, lost, phase, history>>

CanRetain(w) == leases[w] # {} \/ \A b \in Operands[w] : Uses(b) < LeaseLimit

\* Mutant: the leases of an earlier invocation are taken for this one without
\* moving the active point.
Admit_Stale(t) ==
  /\ op[t].pc = "room" /\ ~Full(QueueFor(t), Units[WorkOf(t)])
  /\ LET w == WorkOf(t) IN
     IF CanRetain(w)
       THEN /\ leases' = [leases EXCEPT ![w] = Operands[w]]
            /\ pending' = [pending EXCEPT ![QueueOf[w]] =
                             Append(@, [work |-> w, value |-> previous[w] + 1])]
            /\ Become(t, [op[t] EXCEPT !.pc = "publish"])
            /\ UNCHANGED <<active, producer>>
       ELSE Fail(t) /\ Unlock(t) /\ UNCHANGED <<leases, active, pending>>
  /\ UNCHANGED <<write, read, ring, gpu, fence, retired, previous, deps, lost, phase, history>>

\* Leases, active point and pending entry, all under the lease lock.
Admit(t) ==
  /\ op[t].pc = "room" /\ ~Full(QueueFor(t), Units[WorkOf(t)])
  /\ LET w == WorkOf(t) IN
     IF CanRetain(w)
       THEN /\ leases' = [leases EXCEPT ![w] = Operands[w]]
            /\ active' = [active EXCEPT ![w] = previous[w] + 1]
            /\ pending' = [pending EXCEPT ![QueueOf[w]] =
                             Append(@, [work |-> w, value |-> previous[w] + 1])]
            /\ Become(t, [op[t] EXCEPT !.pc = "publish"])
            /\ UNCHANGED producer
       ELSE Fail(t) /\ Unlock(t) /\ UNCHANGED <<leases, active, pending>>
  /\ UNCHANGED <<write, read, ring, gpu, fence, retired, previous, deps, lost, phase, history>>

\* Pad, words, fence word, write index and doorbell.
Publish(t) ==
  /\ op[t].pc = "publish"
  /\ LET w == WorkOf(t)
         q == QueueFor(t)
         p == [work |-> w, value |-> previous[w] + 1]
         at == write[q] + Wrap(q, Units[w])
         mine == {i % RingUnits : i \in at .. at + Units[w] - 1}
         padding == {i % RingUnits : i \in write[q] .. at - 1}
     IN
     /\ ring' = [ring EXCEPT ![q] = [i \in 0 .. RingUnits - 1 |->
                   IF i \in mine THEN p ELSE IF i \in padding THEN None ELSE ring[q][i]]]
     /\ write' = [write EXCEPT ![q] = at + Units[w]]
     /\ gpu' = [gpu EXCEPT ![q] = Append(@, [point |-> p, at |-> at, fetched |-> FALSE])]
     /\ history' = [history EXCEPT ![q] = Append(@, p)]
     /\ previous' = [previous EXCEPT ![w] = p.value]
     /\ IF op[t].part = Len(op[t].command) THEN Return(t)
        ELSE Become(t, [op[t] EXCEPT !.pc = "begin", !.part = @ + 1, !.last = p])
  /\ Unlock(t)
  /\ UNCHANGED <<read, pending, fence, active, retired, leases, deps, lost, phase>>

-----------------------------------------------------------------------------
(* Completions: refresh polls its own point, then reaps the whole prefix.   *)

Waiting == {"await", "settle", "wait"}

Wait(t, p) ==
  /\ ~Busy(t) /\ phase[QueueOf[p.work]] = "live" /\ previous[p.work] >= p.value
  /\ Become(t, [pc |-> "wait", guard |-> {}, target |-> p, seen |-> FALSE])
  /\ UNCHANGED <<write, read, ring, pending, gpu, producer, fence, active, retired,
                 previous, leases, deps, lost, phase, history>>

\* Mutant: a lost device is not noticed while waiting for ring space.
GivesUp_Deaf(t) == op[t].pc # "await" /\ (lost \/ op[t].pc = "wait")

\* The provider reports a loss, or wait_timeout's deadline has passed.
GivesUp(t) == lost \/ op[t].pc = "wait"

\* One poll outside the producer lock.
Poll(t) ==
  /\ op[t].pc \in Waiting /\ ~op[t].seen
  /\ LET p == op[t].target IN
     \/ /\ Settled(p.work, p.value)
        /\ Retire(Visited(p.work, p.value))
        /\ Become(t, [op[t] EXCEPT !.seen = TRUE])
     \/ /\ ~Settled(p.work, p.value)
        /\ GivesUp(t)
        /\ IF op[t].pc = "await" THEN Fail(t) ELSE Return(t)
        /\ UNCHANGED <<leases, retired>>
  /\ UNCHANGED <<write, read, ring, pending, gpu, producer, fence, active, previous,
                 deps, lost, phase, history>>

\* Mutant: only the observed submission leaves the pending queue.
ReapAfter_One(t) ==
  /\ op[t].pc \in Waiting /\ op[t].seen /\ producer[QueueOf[op[t].target.work]] = None
  /\ IF op[t].pc = "await" THEN Become(t, [op[t] EXCEPT !.pc = "reap"]) ELSE Return(t)
  /\ pending' = [pending EXCEPT ![QueueOf[op[t].target.work]] =
                   SelectSeq(@, LAMBDA p : p # op[t].target)]
  /\ UNCHANGED <<write, read, ring, gpu, producer, fence, active, retired, leases,
                 previous, deps, lost, phase, history>>

ReapAfter(t) ==
  /\ op[t].pc \in Waiting /\ op[t].seen
  /\ LET q == QueueOf[op[t].target.work] IN
     /\ producer[q] = None
     /\ ReapPrefix(q)
     /\ IF op[t].pc # "await" THEN Return(t)
        ELSE IF ReapFails(q) THEN Fail(t)
        ELSE Become(t, [op[t] EXCEPT !.pc = "reap"])
  /\ UNCHANGED <<write, read, ring, gpu, producer, fence, active, previous, deps, lost,
                 phase, history>>

\* Mutant: the event stands for its own command only.
Prefix_Last(q, p) == {p}

\* prepare_wait: the event stands for its whole producer prefix.
Prefix(q, p) ==
  LET at == {i \in DOMAIN pending[q] : pending[q][i] = p}
  IN  IF at = {} THEN {p} ELSE {pending[q][i] : i \in 1 .. (CHOOSE i \in at : TRUE)}

PrepareWait(w, p) ==
  /\ deps[w] = None /\ previous[p.work] >= p.value
  /\ producer[QueueOf[p.work]] = None
  /\ LET prefix == Prefix(QueueOf[p.work], p) IN
     deps' = [deps EXCEPT ![w] =
                [event |-> p,
                 all |-> prefix \union UNION {Dependencies(d.work) : d \in prefix}]]
  /\ UNCHANGED <<write, read, ring, pending, gpu, producer, fence, active, retired,
                 previous, leases, op, lost, phase, history>>

-----------------------------------------------------------------------------
(* The GPU (external): it fetches whole commands and advances the read      *)
(* index, executes in order, and a wait holds its queue until the fence.    *)

Fetch(q) ==
  /\ ~lost
  /\ \E i \in DOMAIN gpu[q] :
       /\ ~gpu[q][i].fetched /\ \A j \in 1 .. i - 1 : gpu[q][j].fetched
       /\ gpu' = [gpu EXCEPT ![q] = [gpu[q] EXCEPT ![i] = [gpu[q][i] EXCEPT !.fetched = TRUE]]]
       /\ read' = [read EXCEPT ![q] = gpu[q][i].at + Units[gpu[q][i].point.work]]
  /\ UNCHANGED <<write, ring, pending, producer, fence, active, retired, previous,
                 leases, deps, op, lost, phase, history>>

Execute(q) ==
  /\ ~lost /\ gpu[q] # <<>> /\ Head(gpu[q]).fetched
  /\ LET p == Head(gpu[q]).point IN
     /\ p.work \in Waits => fence[deps[p.work].event.work] >= deps[p.work].event.value
     /\ fence' = [fence EXCEPT ![p.work] = p.value]
  /\ gpu' = [gpu EXCEPT ![q] = Tail(@)]
  /\ UNCHANGED <<write, read, ring, pending, producer, active, retired, previous,
                 leases, deps, op, lost, phase, history>>

Lose ==
  /\ ~lost /\ lost' = TRUE
  /\ UNCHANGED <<write, read, ring, pending, gpu, producer, fence, active, retired,
                 previous, leases, deps, op, phase, history>>

\* QueueInner::drop: ten seconds to drain, then everything native is leaked.
Drop(q) ==
  /\ phase[q] = "live" /\ producer[q] = None
  /\ \A t \in Threads : ~Busy(t)
  /\ \/ /\ Reapable(q) = Len(pending[q])
        /\ ReapPrefix(q)
        /\ phase' = [phase EXCEPT ![q] = "destroyed"]
     \/ /\ Reapable(q) < Len(pending[q])
        /\ Retire(VisitedBy(Range(SubSeq(pending[q], 1, Reapable(q)))))
        /\ phase' = [phase EXCEPT ![q] = "leaked"]
        /\ UNCHANGED pending
  /\ UNCHANGED <<write, read, ring, gpu, producer, fence, active, previous, deps, op,
                 lost, history>>

Step(t) == Begin(t) \/ Reap(t) \/ Refuse(t) \/ Admit(t) \/ Publish(t) \/ Poll(t) \/ ReapAfter(t)

Next ==
  \/ \E t \in Threads :
       \/ \E c \in Commands, wait \in BOOLEAN : Dispatch(t, c, wait)
       \/ \E p \in Points : Wait(t, p)
       \/ Step(t)
  \/ \E w \in Waits, p \in Points : PrepareWait(w, p)
  \/ \E q \in Queues : Fetch(q) \/ Execute(q) \/ Drop(q)
  \/ Lose

Spec == Init /\ [][Next]_vars
-----------------------------------------------------------------------------
\* A command the GPU has not fetched yet is still intact in the ring, in one
\* piece: masking both indexes (queue.rs:1518) never makes room that is in use.
RingIntact ==
  \A q \in Queues : \A i \in DOMAIN gpu[q] :
    LET e == gpu[q][i] IN
    ~e.fetched =>
      /\ (e.at % RingUnits) + Units[e.point.work] <= RingUnits
      /\ \A k \in e.at .. e.at + Units[e.point.work] - 1 : ring[q][k % RingUnits] = e.point

\* Operands stay leased while any published invocation of their command may
\* still touch them, whoever retires earlier invocations of it meanwhile
\* (queue.rs:139-164, 1548-1569), and between the parts of a split transfer
\* (1405); a queue is destroyed only when nothing on it can still run.
LeasesCoverUse ==
  /\ \A q \in Queues : \A i \in DOMAIN gpu[q] :
       /\ leases[gpu[q][i].point.work] = Operands[gpu[q][i].point.work]
       /\ phase[q] # "destroyed"
  /\ \A t \in Threads : Busy(t) /\ op[t].pc # "wait" /\ Len(op[t].command) > 1 =>
       \A b \in Operands[op[t].command[Len(op[t].command)]] : Uses(b) > 0

Before(q, p) ==
  {history[q][i] : i \in {i \in DOMAIN history[q] :
     \E j \in DOMAIN history[q] : history[q][j] = p /\ i <= j}}

\* A retired wait has retired every submission its event stands for
\* (queue.rs:1056-1060), and a completed refresh every earlier submission of
\* its own queue (101-102), even when nobody observed those one by one.
PrefixRetired ==
  /\ \A w \in Waits : retired[w] > 0 =>
       \A d \in Before(QueueOf[deps[w].event.work], deps[w].event) : retired[d.work] >= d.value
  /\ \A q \in Queues : pending[q] = <<>> => \A i \in DOMAIN history[q] :
       retired[history[q][i].work] >= history[q][i].value
=============================================================================
