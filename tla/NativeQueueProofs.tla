-------------------------- MODULE NativeQueueProofs --------------------------
(***************************************************************************)
(* Theorems about NativeQueue, for every set of queues, threads, commands  *)
(* and buffers, every ring and every timeline.  The inductive invariant is *)
(* Inv; one lemma Step... per action shows that the action keeps it.       *)
(***************************************************************************)
EXTENDS NativeQueue, TLAPS

Deps == [event : Points, all : SUBSET Points]
Entries == [point : Points, at : Nat, fetched : BOOLEAN]
Waiters == [pc : {"wait"}, guard : {{}}, target : Points, seen : BOOLEAN]
Pieces == [pc : Inside \union {"begin", "settle"}, command : Commands, part : Nat \ {0},
           wait : BOOLEAN, guard : SUBSET Buffers, last : Points \union {None},
           target : Points \union {None}, seen : BOOLEAN]
Ops == Waiters \union Pieces \union {Idle}

\* A command is a nonempty sequence of works, each with a queue, a size and operands.
Sized ==
  /\ RingUnits \in Nat \ {0} /\ TimelineMax \in Nat /\ IsFiniteSet(Threads) /\ IsFiniteSet(Works)
  /\ QueueOf \in [Works -> Queues] /\ Units \in [Works -> Nat \ {0}]
  /\ Operands \in [Works -> SUBSET Buffers]
  /\ Waits \subseteq Works /\ Commands \subseteq Seq(Works) /\ \A c \in Commands : Len(c) > 0
  /\ None \notin Threads \union Deps

Typed ==
  /\ write \in [Queues -> Nat] /\ read \in [Queues -> Nat]
  /\ ring \in [Queues -> [0 .. RingUnits - 1 -> Points \union {None}]]
  /\ pending \in [Queues -> Seq(Points)] /\ history \in [Queues -> Seq(Points)]
  /\ gpu \in [Queues -> Seq(Entries)] /\ producer \in [Queues -> Threads \union {None}]
  /\ fence \in [Works -> Nat] /\ active \in [Works -> Nat]
  /\ retired \in [Works -> Nat] /\ previous \in [Works -> Nat]
  /\ leases \in [Works -> SUBSET Buffers] /\ deps \in [Waits -> Deps \union {None}]
  /\ op \in [Threads -> Ops]
  /\ phase \in [Queues -> {"live", "destroyed", "leaked"}]

\* The timelines of a work: retired, signalled, published, admitted.  Leases last until the
\* admitted invocation has signalled.
TimesSound ==
  \A w \in Works :
    /\ retired[w] <= fence[w] /\ fence[w] <= previous[w] /\ previous[w] <= active[w]
    /\ previous[w] <= TimelineMax
    /\ fence[w] < active[w] => leases[w] = Operands[w]

\* What a dispatching thread has checked and locked.
Dispatching(t) == op[t].pc \notin {"idle", "wait"}
NextPoint(w) == [work |-> w, value |-> previous[w] + 1]
Room(q, n) == write[q] + Required(q, n) < read[q] + RingUnits
Admitted(q, w) ==
  /\ active[w] = previous[w] + 1 /\ Room(q, Units[w])
  /\ Len(pending[q]) > 0 /\ pending[q][Len(pending[q])] = NextPoint(w)
ThreadSound(t) ==
  /\ op[t].part <= Len(op[t].command) /\ op[t].guard = Guard(op[t].command)
  /\ Prepared(op[t].command) /\ Alive(op[t].command)
  /\ op[t].pc \in Inside => previous[WorkOf(t)] < TimelineMax
  /\ op[t].pc \in {"await", "settle"} => op[t].target \in Points
  /\ op[t].pc \in {"room", "publish"} => producer[QueueFor(t)] = t
  /\ op[t].pc = "publish" => Admitted(QueueFor(t), WorkOf(t))
ThreadsSound == \A t \in Threads : Dispatching(t) => ThreadSound(t)
Exclusive ==
  \A t, u \in Threads :
    op[t].pc \in Inside /\ op[u].pc \in Inside /\ WorkOf(t) = WorkOf(u) => t = u

\* What the GPU has not executed is pending, not signalled, and in the order of publication.
Runnable(q, p) ==
  /\ QueueOf[p.work] = q /\ fence[p.work] < p.value /\ p.value <= previous[p.work]
  /\ p \in Range(pending[q]) /\ phase[q] # "destroyed"
Follows(e, f) ==
  /\ e.point.work = f.point.work => e.point.value < f.point.value
  /\ f.fetched => e.fetched
GpuSound ==
  \A q \in Queues : /\ \A i \in DOMAIN gpu[q] : Runnable(q, gpu[q][i].point)
                    /\ \A i, j \in DOMAIN gpu[q] : i < j => Follows(gpu[q][i], gpu[q][j])

\* What it has not fetched lies between the indexes, which are less than a ring apart.
End(e) == e.at + Units[e.point.work]
RingSound ==
  \A q \in Queues :
    /\ read[q] <= write[q] /\ write[q] < read[q] + RingUnits
    /\ \A i \in DOMAIN gpu[q] : End(gpu[q][i]) <= write[q] /\ (~gpu[q][i].fetched => read[q] <= gpu[q][i].at)
    /\ \A i, j \in DOMAIN gpu[q] : i < j => End(gpu[q][i]) <= gpu[q][j].at

\* The history of a queue: retired publications, then the pending ones.
Publishing(q) == \E t \in Threads : op[t].pc = "publish" /\ QueueFor(t) = q
Pending(q, o) ==
  /\ \A i \in 1 .. o : retired[history[q][i].work] >= history[q][i].value
  /\ \A i \in o + 1 .. Len(history[q]) :
       i - o <= Len(pending[q]) /\ pending[q][i - o] = history[q][i]
  /\ \/ Len(pending[q]) = Len(history[q]) - o
     \/ Len(pending[q]) = Len(history[q]) - o + 1 /\ Publishing(q)
PendingSound == \A q \in Queues : \E o \in 0 .. Len(history[q]) : Pending(q, o)
HistorySound ==
  \A q \in Queues :
    /\ \A i \in DOMAIN history[q] : history[q][i].value <= previous[history[q][i].work]
    /\ \A i, j \in DOMAIN history[q] : i < j /\ history[q][i].work = history[q][j].work =>
         history[q][i].value < history[q][j].value

\* What a wait depends on: published, closed under dependency, and all that was before its
\* event and not retired.
WaitSound(w, e, all) ==
  /\ previous[e.work] >= e.value
  /\ \A d \in all : previous[d.work] >= d.value /\ Dependencies(d.work) \subseteq all
  /\ \A d \in Before(QueueOf[e.work], e) : retired[d.work] >= d.value \/ d \in all
  /\ retired[w] > 0 => \A d \in all : retired[d.work] >= d.value
DepsSound ==
  \A w \in Waits : /\ deps[w] = None => previous[w] = 0
                   /\ deps[w] # None => WaitSound(w, deps[w].event, deps[w].all)

Inv == /\ Sized /\ Typed /\ TimesSound /\ ThreadsSound /\ Exclusive /\ GpuSound /\ RingSound /\ RingIntact
       /\ PendingSound /\ HistorySound /\ DepsSound

-----------------------------------------------------------------------------
(* Positions in the ring.                                                   *)

LEMMA DivMod == ASSUME NEW R \in Nat \ {0}, NEW x \in Int PROVE \E d \in Int : x = d * R + (x % R)
<1>1. x \div R \in Int /\ x = (x \div R) * R + (x % R)
  BY SMT
<1> QED BY <1>1, Zenon
LEMMA ModSmall == ASSUME NEW R \in Nat \ {0}, NEW x \in 0 .. R - 1 PROVE x % R = x
  BY SMT
LEMMA Factor == ASSUME NEW R \in Nat \ {0}, NEW a \in Int, NEW b \in Int, a * R - b * R < R, 0 < a * R - b * R PROVE FALSE
  BY SMT
LEMMA ModDistinct == ASSUME NEW R \in Nat \ {0}, NEW i \in Int, NEW k \in Int, k < i, i - k < R PROVE i % R # k % R
<1>1. PICK a \in Int : i = a * R + (i % R)
  BY DivMod, Zenon
<1>2. PICK b \in Int : k = b * R + (k % R)
  BY DivMod, Zenon
<1>3. ASSUME NEW m \in Int, i = a * R + m, k = b * R + m PROVE a * R - b * R = i - k
  BY <1>3
<1>4. i % R \in Int
  OBVIOUS
<1>5. i % R = k % R => a * R - b * R = i - k
  BY <1>1, <1>2, <1>3, <1>4, Zenon
<1> QED
  BY <1>5, Factor
LEMMA ModPad == ASSUME NEW R \in Nat \ {0}, NEW w \in Int PROVE (w + (R - (w % R))) % R = 0
  BY SMT

-----------------------------------------------------------------------------
(* How a thread moves.                                                      *)

LEMMA Shapes ==
  ASSUME Sized, Typed, NEW t \in Threads
  PROVE  /\ op[t].pc = "wait" => op[t] \in Waiters /\ op[t].target \in Points
         /\ Dispatching(t) =>
              /\ op[t] \in Pieces /\ op[t].command \in Commands /\ op[t].command \in Seq(Works)
              /\ op[t].part \in Nat \ {0} /\ op[t].last \in Points \union {None}
              /\ op[t].pc \in Inside \union {"begin", "settle"} /\ op[t].wait \in BOOLEAN
              /\ op[t].target \in Points \union {None}
<1>1. op[t] \in Ops
  BY Zenon DEF Typed
<1>2. op[t] \in Waiters => op[t].pc = "wait" /\ op[t].target \in Points
  BY DEF Waiters
<1>3. op[t] \in Pieces =>
        /\ op[t].command \in Commands
        /\ op[t].part \in Nat \ {0} /\ op[t].last \in Points \union {None}
        /\ op[t].pc \in Inside \union {"begin", "settle"} /\ op[t].wait \in BOOLEAN
        /\ op[t].target \in Points \union {None}
  BY DEF Pieces
<1>4. op[t] \in Pieces => op[t].pc # "wait"
  BY <1>3 DEF Inside
<1>5. op[t] = Idle => op[t].pc = "idle"
  BY DEF Idle
<1> QED
  BY <1>1, <1>2, <1>3, <1>4, <1>5, Zenon DEF Ops, Dispatching, Sized

\* The work, the queue and the ring units that a dispatching thread is about.
LEMMA Subject ==
  ASSUME Sized, Typed, ThreadsSound, NEW t \in Threads, Dispatching(t)
  PROVE  /\ WorkOf(t) \in Works /\ QueueFor(t) \in Queues /\ Units[WorkOf(t)] \in Nat \ {0}
         /\ op[t].part \in DOMAIN op[t].command
         /\ WorkOf(t) \in Waits => deps[WorkOf(t)] # None
         /\ phase[QueueFor(t)] = "live"
<1>1. op[t].command \in Seq(Works) /\ op[t].part \in Nat \ {0}
  BY Shapes, Zenon
<1>2. ThreadSound(t)
  BY Zenon DEF ThreadsSound
<1>3. op[t].part \in DOMAIN op[t].command
  BY <1>1, <1>2 DEF ThreadSound
<1>4. WorkOf(t) \in Works
  BY <1>1, <1>3 DEF WorkOf
<1>5. QueueFor(t) \in Queues /\ Units[WorkOf(t)] \in Nat \ {0}
  BY <1>4 DEF QueueFor, Sized
<1> QED
  BY <1>2, <1>3, <1>4, <1>5, Zenon DEF ThreadSound, Prepared, Alive, WorkOf, QueueFor

\* What a step of a dispatching thread does to its own state, before its effects.
Moves(t, pcs) ==
  /\ op' \in [Threads -> Ops] /\ \A u \in Threads : u # t => op'[u] = op[u]
  /\ op'[t].pc \in pcs
  /\ op'[t].pc \notin {"idle", "wait"} =>
       /\ op'[t].command = op[t].command /\ op'[t].part = op[t].part
       /\ op'[t].guard = op[t].guard
       /\ op'[t].pc \in {"await", "settle"} => op'[t].target \in Points

LEMMA Replaced ==
  ASSUME Typed, NEW t \in Threads, NEW r \in Ops, Become(t, r)
  PROVE  op' \in [Threads -> Ops] /\ op'[t] = r /\ \A u \in Threads : u # t => op'[u] = op[u]
  BY DEF Typed, Become

LEMMA Returns ==
  ASSUME Typed, NEW t \in Threads, Return(t)
  PROVE  Moves(t, {"idle"})
<1>1. Idle \in Ops /\ Idle.pc = "idle"
  BY DEF Ops, Idle
<1>2. Become(t, Idle)
  BY Zenon DEF Return
<1> QED
  BY <1>1, <1>2, Replaced, Zenon DEF Moves

\* A record of a dispatch with another place, target or observation is one, too.
LEMMA Advances ==
  ASSUME Typed, NEW t \in Threads, NEW r \in Pieces, Become(t, r),
         r.command = op[t].command, r.part = op[t].part, r.guard = op[t].guard,
         r.pc \in {"await", "settle"} => r.target \in Points
  PROVE  Moves(t, {r.pc}) /\ op'[t] = r
<1>1. r \in Ops
  BY Zenon DEF Ops
<1> QED
  BY <1>1, Replaced, Zenon DEF Moves

LEMMA Fails ==
  ASSUME Sized, Typed, NEW t \in Threads, Dispatching(t), Fail(t)
  PROVE  Moves(t, {"idle", "settle"})
<1>0. op[t] \in Pieces /\ op[t].last \in Points \union {None}
  BY Shapes, Zenon
<1>1. CASE op[t].last = None
  <2>1. Return(t)
    BY <1>1, Zenon DEF Fail
  <2> QED
    BY <2>1, Returns, Zenon DEF Moves
<1>2. CASE op[t].last # None
  <2>1. PICK r : r = [op[t] EXCEPT !.pc = "settle", !.target = op[t].last, !.seen = FALSE]
    BY Zenon
  <2>2. Become(t, r)
    BY <1>2, <2>1, Zenon DEF Fail
  <2>a. op[t].last \in Points /\ "settle" \in Inside \union {"begin", "settle"}
    BY <1>0, <1>2, Zenon
  <2>3. /\ r \in Pieces /\ r.command = op[t].command /\ r.part = op[t].part
        /\ r.guard = op[t].guard /\ r.pc = "settle" /\ r.target \in Points
    BY Zenon, <1>0, <2>a, <2>1 DEF Pieces
  <2>4. Moves(t, {r.pc})
    BY <2>2, <2>3, Advances, Zenon
  <2> QED
    BY <2>3, <2>4, Zenon DEF Moves
<1> QED
  BY <1>1, <1>2, Zenon

LEMMA Pads ==
  ASSUME Sized, Typed, NEW q \in Queues, NEW n \in Nat
  PROVE  /\ write[q] \in Nat /\ read[q] \in Nat /\ RingUnits \in Nat \ {0}
         /\ Cursor(q) \in 0 .. RingUnits - 1 /\ Wrap(q, n) \in Nat /\ Required(q, n) \in Nat
<1>1. write[q] \in Nat /\ read[q] \in Nat /\ RingUnits \in Nat \ {0}
  BY DEF Typed, Sized
<1>2. Cursor(q) \in 0 .. RingUnits - 1
  BY <1>1 DEF Cursor
<1>3. Wrap(q, n) \in Nat
  BY <1>1, <1>2 DEF Wrap
<1> QED
  BY <1>1, <1>2, <1>3 DEF Required

\* A thread that does not move keeps what it has checked while the others leave alone what
\* it has locked.
LEMMA Stays ==
  ASSUME Sized, Typed, Typed', ThreadsSound, NEW t \in Threads, Dispatching(t), op'[t] = op[t],
         \A w \in Waits : deps[w] # None => deps'[w] # None,
         \A q \in Queues : phase[q] = "live" => phase'[q] = "live",
         op[t].pc \in Inside => previous'[WorkOf(t)] = previous[WorkOf(t)],
         op[t].pc \in {"room", "publish"} => producer'[QueueFor(t)] = producer[QueueFor(t)],
         op[t].pc = "publish" =>
           /\ active'[WorkOf(t)] = active[WorkOf(t)]
           /\ pending'[QueueFor(t)] = pending[QueueFor(t)]
           /\ write'[QueueFor(t)] = write[QueueFor(t)] /\ read'[QueueFor(t)] >= read[QueueFor(t)]
  PROVE  ThreadSound(t)'
<1>0. PICK w, q : w = WorkOf(t) /\ q = QueueFor(t)
  BY Zenon
<1>1. ThreadSound(t) /\ w \in Works /\ q \in Queues /\ Units[w] \in Nat
  BY <1>0, Subject, Zenon DEF ThreadsSound
<1>2. /\ op[t].part \in DOMAIN op[t].command /\ op[t].command \in Seq(Works)
      /\ \A i \in DOMAIN op[t].command : op[t].command[i] \in Works /\ QueueOf[op[t].command[i]] \in Queues
  <2>1. op[t].command \in Seq(Works)
    BY Shapes, Zenon
  <2>2. \A i \in DOMAIN op[t].command : op[t].command[i] \in Works
    BY <2>1
  <2> QED
    BY <2>1, <2>2, Subject, Zenon DEF Sized
<1>3. op'[t].command[op'[t].part] = w /\ QueueOf[w] = q
  BY <1>0, Zenon DEF WorkOf, QueueFor
<1>4. /\ \A i \in DOMAIN op'[t].command : op'[t].command[i] \in Waits => deps'[op'[t].command[i]] # None
      /\ \A i \in DOMAIN op'[t].command : phase'[QueueOf[op'[t].command[i]]] = "live"
  BY <1>1, <1>2, Zenon DEF ThreadSound, Prepared, Alive
<1>5. op'[t].part <= Len(op'[t].command) /\ op'[t].guard = Guard(op'[t].command)
  BY <1>1, Zenon DEF ThreadSound
<1>6. op'[t].pc = "publish" => Admitted(q, w)'
  <2> SUFFICES ASSUME op[t].pc = "publish" PROVE Admitted(q, w)'
    BY Zenon
  <2>1. Admitted(q, w)
    BY <1>0, <1>1, Zenon DEF ThreadSound
  <2>2. "publish" \in Inside
    BY DEF Inside
  <2>3. previous'[w] = previous[w] /\ active'[w] = active[w] /\ pending'[q] = pending[q]
        /\ write'[q] = write[q]
    BY <1>0, <2>2, Zenon
  <2>4. Required(q, Units[w])' = Required(q, Units[w])
    BY <2>3, Zenon DEF Required, Wrap, Cursor
  <2>5. Required(q, Units[w]) \in Int
    BY <1>1, Pads
  <2>6. read[q] \in Nat /\ read'[q] \in Nat /\ write[q] \in Nat /\ RingUnits \in Nat /\ read'[q] >= read[q]
    BY <1>0, <1>1 DEF Typed, Sized
  <2>7. Room(q, Units[w])'
    BY <2>1, <2>3, <2>4, <2>5, <2>6 DEF Admitted, Room
  <2> QED
    BY <2>1, <2>3, <2>7, Zenon DEF Admitted, NextPoint
<1>7. /\ op'[t].pc \in Inside => previous'[w] < TimelineMax
      /\ op'[t].pc \in {"await", "settle"} => op'[t].target \in Points
      /\ op'[t].pc \in {"room", "publish"} => producer'[q] = t
  BY <1>0, <1>1, Zenon DEF ThreadSound
<1> QED
  BY <1>3, <1>4, <1>5, <1>6, <1>7, Zenon DEF ThreadSound, Prepared, Alive, WorkOf, QueueFor

\* A step of one dispatching thread, from what the others have locked and what it checks.
LEMMA ThreadMoves ==
  ASSUME Sized, Typed, Typed', ThreadsSound, NEW t \in Threads, Dispatching(t),
         NEW pcs, Moves(t, pcs), UNCHANGED <<deps, phase, previous>>,
         NEW w, w = WorkOf(t), NEW q, q = QueueFor(t),
         op'[t].pc \in Inside => previous[w] < TimelineMax,
         op'[t].pc \in {"room", "publish"} => producer'[q] = t,
         op'[t].pc = "publish" => Admitted(q, w)',
         \A u \in Threads : u # t =>
           /\ op[u].pc \in {"room", "publish"} => producer'[QueueFor(u)] = producer[QueueFor(u)]
           /\ op[u].pc = "publish" =>
                /\ active'[WorkOf(u)] = active[WorkOf(u)]
                /\ pending'[QueueFor(u)] = pending[QueueFor(u)]
                /\ write'[QueueFor(u)] = write[QueueFor(u)] /\ read'[QueueFor(u)] = read[QueueFor(u)]
  PROVE  ThreadsSound'
<1> SUFFICES ASSUME NEW u \in Threads, Dispatching(u)' PROVE ThreadSound(u)'
  BY Zenon DEF ThreadsSound
<1>1. CASE u # t
  <2>1. op'[u] = op[u] /\ Dispatching(u)
    BY <1>1, Zenon DEF Moves, Dispatching
  <2>2. op[u].pc = "publish" => read'[QueueFor(u)] >= read[QueueFor(u)]
    <3>1. QueueFor(u) \in Queues
      BY <2>1, Subject, Zenon
    <3> QED
      BY <1>1, <3>1 DEF Typed
  <2> QED
    BY <1>1, <2>1, <2>2, Stays, Zenon
<1>2. CASE u = t
  <2>1. /\ op'[t].command = op[t].command /\ op'[t].part = op[t].part /\ op'[t].guard = op[t].guard
        /\ op'[t].pc \in {"await", "settle"} => op'[t].target \in Points
    BY <1>2, Zenon DEF Moves, Dispatching
  <2>2. ThreadSound(t)
    BY Zenon DEF ThreadsSound
  <2>3. WorkOf(t)' = w /\ QueueFor(t)' = q
    BY <2>1, Zenon DEF WorkOf, QueueFor
  <2> QED
    BY <1>2, <2>1, <2>2, <2>3, Zenon DEF ThreadSound, Prepared, Alive
<1> QED
  BY <1>1, <1>2, Zenon

LEMMA ExclusiveMoves ==
  ASSUME Exclusive, NEW t \in Threads, NEW pcs, Moves(t, pcs),
         op'[t].pc \in Inside =>
           \/ op[t].pc \in Inside
           \/ \A u \in Threads \ {t} : op[u].pc \in Inside => WorkOf(u) # WorkOf(t)
  PROVE  Exclusive'
<1>0. \A u \in Threads : op'[u].pc \in Inside => WorkOf(u)' = WorkOf(u) /\ (u # t => op[u].pc \in Inside)
  <2>1. "idle" \notin Inside /\ "wait" \notin Inside
    BY DEF Inside
  <2> QED
    BY <2>1, Zenon DEF Moves, WorkOf
<1> SUFFICES ASSUME NEW u \in Threads, NEW v \in Threads, op'[u].pc \in Inside, op'[v].pc \in Inside,
                    WorkOf(u) = WorkOf(v)
             PROVE  u = v
  BY <1>0, Zenon DEF Exclusive
<1> QED
  BY <1>0, Zenon DEF Exclusive

-----------------------------------------------------------------------------
(* What a queue has pending.                                                *)

LEMMA PendingStays ==
  ASSUME Sized, Typed, NEW q \in Queues, NEW o \in 0 .. Len(history[q]), Pending(q, o),
         \A w \in Works : retired'[w] \in Nat /\ retired'[w] >= retired[w],
         history'[q] = history[q], pending'[q] = pending[q], Publishing(q) => Publishing(q)'
  PROVE  Pending(q, o)'
<1>1. history[q] \in Seq(Points)
  BY Zenon DEF Typed
<1>2. ASSUME NEW i \in 1 .. o PROVE retired'[history[q][i].work] >= history[q][i].value
  <2>1. history[q][i] \in Points
    BY <1>1
  <2>2. history[q][i].work \in Works /\ history[q][i].value \in Nat
    BY <2>1 DEF Points
  <2>3. retired[history[q][i].work] >= history[q][i].value
    BY Zenon DEF Pending
  <2>4. retired[history[q][i].work] \in Nat
    BY <2>2, Zenon DEF Typed
  <2>5. retired'[history[q][i].work] \in Nat /\ retired'[history[q][i].work] >= retired[history[q][i].work]
    BY <2>2, Zenon
  <2> QED
    BY <2>2, <2>3, <2>4, <2>5
<1> QED
  BY <1>2, Zenon DEF Pending

\* The threads that publish keep on publishing when others move.
LEMMA PublishersStay ==
  ASSUME NEW t \in Threads, op[t].pc # "publish", \A u \in Threads : u # t => op'[u] = op[u]
  PROVE  \A q : Publishing(q) => Publishing(q)'
<1> SUFFICES ASSUME NEW q, NEW u \in Threads, op[u].pc = "publish", QueueFor(u) = q PROVE Publishing(q)'
  BY Zenon DEF Publishing
<1>1. op'[u] = op[u]
  BY Zenon
<1>2. op'[u].pc = "publish" /\ QueueFor(u)' = q
  BY <1>1, Zenon DEF QueueFor, WorkOf
<1> QED
  BY <1>2, Zenon DEF Publishing

LEMMA PendingKept ==
  ASSUME Sized, Typed, PendingSound, UNCHANGED <<history, pending>>,
         \A w \in Works : retired'[w] \in Nat /\ retired'[w] >= retired[w],
         \A q \in Queues : Publishing(q) => Publishing(q)'
  PROVE  PendingSound'
<1> SUFFICES ASSUME NEW q \in Queues PROVE \E o \in 0 .. Len(history[q]) : Pending(q, o)'
  BY Zenon DEF PendingSound
<1>1. PICK o \in 0 .. Len(history[q]) : Pending(q, o)
  BY Zenon DEF PendingSound
<1>2. Pending(q, o)'
  BY <1>1, PendingStays, Zenon
<1> QED
  BY <1>2, Zenon

\* A thread that publishes holds its queue.
LEMMA Unpublished ==
  ASSUME Sized, ThreadsSound, NEW q \in Queues,
         producer[q] = None \/ \E t \in Threads : producer[q] = t /\ op[t].pc # "publish"
  PROVE  ~Publishing(q)
<1> SUFFICES ASSUME NEW u \in Threads, op[u].pc = "publish", QueueFor(u) = q PROVE FALSE
  BY Zenon DEF Publishing
<1>1. "publish" \notin {"idle", "wait"} /\ "publish" \in {"room", "publish"}
  OBVIOUS
<1>2. Dispatching(u)
  BY <1>1, Zenon DEF Dispatching
<1>3. producer[q] = u
  BY <1>1, <1>2, Zenon DEF ThreadsSound, ThreadSound
<1>4. None \notin Threads
  BY Zenon DEF Sized
<1> QED
  BY <1>3, <1>4, Zenon

-----------------------------------------------------------------------------
(* Frames, and the calls that begin.                                        *)

LEMMA GpuFrame ==
  ASSUME GpuSound, UNCHANGED <<gpu, fence, previous, pending, phase>>
  PROVE  GpuSound'
  BY Zenon DEF GpuSound, Runnable

LEMMA RingFrame ==
  ASSUME RingSound, RingIntact, UNCHANGED <<gpu, read, write, ring>>
  PROVE  RingSound' /\ RingIntact'
<1>1. RingSound'
  BY Zenon DEF RingSound, End
<1>2. RingIntact'
  BY Zenon DEF RingIntact
<1> QED
  BY <1>1, <1>2, Zenon

LEMMA HistoryFrame ==
  ASSUME HistorySound, UNCHANGED <<history, previous>>
  PROVE  HistorySound'
  BY Zenon DEF HistorySound

LEMMA DepsFrame ==
  ASSUME DepsSound, UNCHANGED <<deps, previous, retired, history>>
  PROVE  DepsSound'
<1>1. \A q, p : Before(q, p)' = Before(q, p)
  BY Zenon DEF Before
<1>2. \A w : Dependencies(w)' = Dependencies(w)
  BY Zenon DEF Dependencies
<1>3. ASSUME NEW w, NEW e, NEW all, WaitSound(w, e, all) PROVE WaitSound(w, e, all)'
  <2>1. Before(QueueOf[e.work], e)' = Before(QueueOf[e.work], e)
    BY <1>1, Zenon
  <2>2. \A d \in all : Dependencies(d.work)' = Dependencies(d.work)
    BY <1>2, Zenon
  <2> QED
    BY <1>3, <2>1, <2>2, Zenon DEF WaitSound
<1> QED
  BY <1>3, Zenon DEF DepsSound

LEMMA TimesFrame ==
  ASSUME TimesSound, UNCHANGED <<retired, fence, previous, active, leases>>
  PROVE  TimesSound'
  BY Zenon DEF TimesSound

LEMMA Same == ASSUME Typed PROVE \A w \in Works : retired[w] \in Nat /\ retired[w] >= retired[w]
  BY DEF Typed

\* A step of one thread that moves nothing but that thread and what it has locked.
LEMMA OnlyMoves ==
  ASSUME Inv, NEW t \in Threads, op[t].pc # "publish", op' \in [Threads -> Ops],
         \A u \in Threads : u # t => op'[u] = op[u], producer' \in [Queues -> Threads \union {None}],
         UNCHANGED <<write, read, ring, pending, gpu, fence, active, retired,
                     previous, leases, deps, lost, phase, history>>,
         Typed' => ThreadsSound', Exclusive'
  PROVE  Inv'
<1>1. Typed'
  BY Zenon DEF Inv, Typed
<1>2. PendingSound'
  <2>1. \A q \in Queues : Publishing(q) => Publishing(q)'
    BY PublishersStay, Zenon
  <2>2. \A w \in Works : retired'[w] \in Nat /\ retired'[w] >= retired[w]
    BY Same, Zenon DEF Inv
  <2> QED
    BY <2>1, <2>2, PendingKept, Zenon DEF Inv
<1>3. GpuSound' /\ RingSound' /\ RingIntact' /\ HistorySound' /\ DepsSound' /\ TimesSound'
  BY GpuFrame, RingFrame, HistoryFrame, DepsFrame, TimesFrame, Zenon DEF Inv
<1> QED
  BY <1>1, <1>2, <1>3, Zenon DEF Inv

\* The threads that do not move, when nothing they look at does.
LEMMA OthersStay ==
  ASSUME Sized, Typed, Typed', ThreadsSound, NEW t \in Threads,
         \A u \in Threads : u # t => op'[u] = op[u],
         UNCHANGED <<deps, phase, previous, producer, active, pending, write, read>>,
         Dispatching(t)' => ThreadSound(t)'
  PROVE  ThreadsSound'
<1> SUFFICES ASSUME NEW u \in Threads, u # t, Dispatching(u)' PROVE ThreadSound(u)'
  BY Zenon DEF ThreadsSound
<1>1. op'[u] = op[u] /\ Dispatching(u)
  BY Zenon DEF Dispatching
<1>2. read'[QueueFor(u)] >= read[QueueFor(u)]
  <2>1. QueueFor(u) \in Queues
    BY <1>1, Subject, Zenon
  <2> QED
    BY <2>1 DEF Typed
<1> QED
  BY <1>1, <1>2, Stays, Zenon

LEMMA ExclusiveOutside ==
  ASSUME Exclusive, NEW t \in Threads, \A u \in Threads : u # t => op'[u] = op[u],
         op'[t].pc \notin Inside
  PROVE  Exclusive'
<1>1. \A u \in Threads : op'[u].pc \in Inside => op[u].pc \in Inside /\ WorkOf(u)' = WorkOf(u)
  BY Zenon DEF WorkOf
<1> SUFFICES ASSUME NEW u \in Threads, NEW v \in Threads, op'[u].pc \in Inside, op'[v].pc \in Inside,
                    WorkOf(u) = WorkOf(v)
             PROVE  u = v
  BY <1>1 DEF Exclusive
<1> QED
  BY <1>1, Zenon DEF Exclusive

LEMMA StepDispatch ==
  ASSUME Inv, NEW t \in Threads, NEW c \in Commands, NEW wait \in BOOLEAN, Dispatch(t, c, wait)
  PROVE  Inv'
<1>0. Sized /\ Typed /\ ThreadsSound /\ Exclusive
  BY Zenon DEF Inv
<1>1. PICK r : r = [pc |-> "begin", command |-> c, part |-> 1, wait |-> wait,
                    guard |-> Guard(c), last |-> None, target |-> None, seen |-> FALSE]
  BY Zenon
<1>2. c \in Seq(Works) /\ Len(c) \in Nat /\ Len(c) > 0
  BY <1>0 DEF Sized
<1>3. Guard(c) \in SUBSET Buffers
  <2>1. c[Len(c)] \in Works
    BY <1>2
  <2> QED
    BY <1>0, <2>1, Zenon DEF Guard, Sized
<1>4. r \in Pieces /\ r.pc = "begin" /\ r.command = c /\ r.part = 1 /\ r.guard = Guard(c)
  BY <1>1, <1>3 DEF Pieces
<1>5. op' \in [Threads -> Ops] /\ op'[t] = r /\ \A u \in Threads : u # t => op'[u] = op[u]
  <2>1. Become(t, r) /\ r \in Ops
    BY <1>1, <1>4, Zenon DEF Dispatch, Ops
  <2> QED
    BY <1>0, <2>1, Replaced, Zenon
<1>6. UNCHANGED <<write, read, ring, pending, gpu, producer, fence, active, retired,
                  previous, leases, deps, lost, phase, history>>
      /\ op[t].pc = "idle" /\ Prepared(c) /\ Alive(c)
  BY Zenon DEF Dispatch, Busy
<1>7. "begin" \notin Inside /\ "begin" \notin {"await", "settle"} /\ "begin" \notin {"room", "publish"}
      /\ "idle" # "publish" /\ "begin" # "publish"
  BY DEF Inside
<1>8. 1 <= Len(c)
  BY <1>2
<1>9. ThreadSound(t)'
  BY <1>4, <1>5, <1>6, <1>7, <1>8, Zenon DEF ThreadSound, Prepared, Alive
<1>10. Typed' => ThreadsSound'
  BY <1>0, <1>5, <1>6, <1>9, OthersStay, Zenon
<1>11. Exclusive'
  BY <1>0, <1>4, <1>5, <1>7, ExclusiveOutside, Zenon
<1>12. producer' \in [Queues -> Threads \union {None}]
  BY <1>0, <1>6, Zenon DEF Typed
<1> QED
  BY <1>5, <1>6, <1>7, <1>10, <1>11, <1>12, OnlyMoves, Zenon

LEMMA StepWait ==
  ASSUME Inv, NEW t \in Threads, NEW p \in Points, Wait(t, p)
  PROVE  Inv'
<1>0. Sized /\ Typed /\ ThreadsSound /\ Exclusive
  BY Zenon DEF Inv
<1>1. PICK r : r = [pc |-> "wait", guard |-> {}, target |-> p, seen |-> FALSE]
  BY Zenon
<1>2. r \in Waiters /\ r.pc = "wait"
  BY <1>1 DEF Waiters
<1>3. op' \in [Threads -> Ops] /\ op'[t] = r /\ \A u \in Threads : u # t => op'[u] = op[u]
  <2>1. Become(t, r) /\ r \in Ops
    BY <1>1, <1>2, Zenon DEF Wait, Ops
  <2> QED
    BY <1>0, <2>1, Replaced, Zenon
<1>4. UNCHANGED <<write, read, ring, pending, gpu, producer, fence, active, retired,
                  previous, leases, deps, lost, phase, history>>
      /\ op[t].pc = "idle"
  BY Zenon DEF Wait, Busy
<1>5. "wait" \notin Inside /\ "idle" # "publish"
  BY DEF Inside
<1>6. Typed' => ThreadsSound'
  BY <1>0, <1>2, <1>3, <1>4, OthersStay, Zenon DEF Dispatching
<1>7. Exclusive'
  BY <1>0, <1>2, <1>3, <1>5, ExclusiveOutside, Zenon
<1>8. producer' \in [Queues -> Threads \union {None}]
  BY <1>0, <1>4, Zenon DEF Typed
<1> QED
  BY <1>3, <1>4, <1>5, <1>6, <1>7, <1>8, OnlyMoves, Zenon

-----------------------------------------------------------------------------
(* A part before it has room.                                               *)

LEMMA Places ==
  /\ \A pc \in {"begin", "reap", "room", "await", "publish", "settle"} :
       pc \notin {"idle", "wait"} /\ pc \in Inside \union {"begin", "settle"}
  /\ \A pc \in {"reap", "room", "await", "publish"} : pc \in Inside
  /\ \A pc \in {"idle", "settle", "begin", "wait"} : pc \notin Inside
  /\ \A pc \in {"idle", "settle", "begin", "wait", "reap", "await"} : pc \notin {"room", "publish"} /\ pc # "publish"
  BY DEF Inside

\* A thread that only moves, to a place where it holds no lock.
LEMMA Steps ==
  ASSUME Inv, NEW t \in Threads, Dispatching(t), NEW pcs, Moves(t, pcs), op[t].pc # "publish",
         op'[t].pc \in {"idle", "settle", "reap", "await"},
         op'[t].pc \in Inside =>
           /\ previous[WorkOf(t)] < TimelineMax
           /\ \/ op[t].pc \in Inside
              \/ \A u \in Threads \ {t} : op[u].pc \in Inside => WorkOf(u) # WorkOf(t),
         producer' \in [Queues -> Threads \union {None}],
         \A u \in Threads : u # t /\ op[u].pc \in {"room", "publish"} =>
           producer'[QueueFor(u)] = producer[QueueFor(u)],
         UNCHANGED <<write, read, ring, pending, gpu, fence, active, retired,
                     previous, leases, deps, lost, phase, history>>
  PROVE  Inv'
<1>0. Sized /\ Typed /\ ThreadsSound /\ Exclusive
  BY Zenon DEF Inv
<1>1. PICK w, q : w = WorkOf(t) /\ q = QueueFor(t)
  BY Zenon
<1>2. op'[t].pc \notin {"room", "publish"} /\ op'[t].pc # "publish"
  BY Places, Zenon
<1>3. Typed' => ThreadsSound'
  BY <1>0, <1>1, <1>2, ThreadMoves, Zenon
<1>4. Exclusive'
  BY <1>0, ExclusiveMoves, Zenon
<1>5. op' \in [Threads -> Ops] /\ \A u \in Threads : u # t => op'[u] = op[u]
  BY Zenon DEF Moves
<1> QED
  BY <1>3, <1>4, <1>5, OnlyMoves, Zenon

LEMMA StepBegin ==
  ASSUME Inv, NEW t \in Threads, Begin(t)
  PROVE  Inv'
<1>0. Sized /\ Typed /\ ThreadsSound /\ TimesSound
  BY Zenon DEF Inv
<1>1. op[t].pc = "begin" /\ Dispatching(t) /\ op[t].pc # "publish"
  BY Places, Zenon DEF Begin, Dispatching
<1>2. UNCHANGED <<write, read, ring, pending, gpu, producer, fence, active, retired,
                  previous, leases, deps, lost, phase, history>>
      /\ \A u \in Threads \ {t} : op[u].pc \in Inside => WorkOf(u) # WorkOf(t)
  BY Zenon DEF Begin
<1>3. producer' \in [Queues -> Threads \union {None}]
  BY <1>0, <1>2, Zenon DEF Typed
<1>4. CASE previous[WorkOf(t)] = TimelineMax
  <2>1. Moves(t, {"idle", "settle"})
    BY <1>0, <1>1, <1>4, Fails, Zenon DEF Begin
  <2>2. op'[t].pc \in {"idle", "settle", "reap", "await"} /\ op'[t].pc \notin Inside
    BY <2>1, Places, Zenon DEF Moves
  <2> QED
    BY <1>1, <1>2, <1>3, <2>1, <2>2, Steps, Zenon
<1>5. CASE previous[WorkOf(t)] # TimelineMax
  <2>1. PICK r : r = [op[t] EXCEPT !.pc = "reap"]
    BY Zenon
  <2>2. op[t] \in Pieces /\ "reap" \in Inside \union {"begin", "settle"}
    BY <1>0, <1>1, Shapes, Places, Zenon
  <2>3. r \in Pieces /\ r.pc = "reap" /\ r.command = op[t].command /\ r.part = op[t].part /\ r.guard = op[t].guard
    BY <2>1, <2>2 DEF Pieces
  <2>4. Become(t, r)
    BY <1>5, <2>1, Zenon DEF Begin
  <2>5. Moves(t, {"reap"})
    BY <1>0, <2>3, <2>4, Advances, Zenon
  <2>6. op'[t].pc \in {"idle", "settle", "reap", "await"}
    BY <2>5, Zenon DEF Moves
  <2>7. previous[WorkOf(t)] < TimelineMax
    <3>1. WorkOf(t) \in Works
      BY <1>0, <1>1, Subject, Zenon
    <3>2. previous[WorkOf(t)] \in Nat /\ previous[WorkOf(t)] <= TimelineMax /\ TimelineMax \in Nat
      BY <1>0, <3>1, Zenon DEF TimesSound, Typed, Sized
    <3> QED
      BY <1>5, <3>2
  <2> QED
    BY <1>1, <1>2, <1>3, <2>5, <2>6, <2>7, Steps, Zenon
<1> QED
  BY <1>4, <1>5, Zenon

\* Unlocking the queue one holds takes it from nobody else.
LEMMA Unlocks ==
  ASSUME Sized, Typed, ThreadsSound, NEW t \in Threads, op[t].pc \in {"room", "publish"}, Unlock(t)
  PROVE  /\ producer' \in [Queues -> Threads \union {None}]
         /\ \A u \in Threads : u # t /\ op[u].pc \in {"room", "publish"} =>
              producer'[QueueFor(u)] = producer[QueueFor(u)] /\ QueueFor(u) # QueueFor(t)
<1>1. \A u \in Threads : op[u].pc \in {"room", "publish"} => Dispatching(u)
  BY Places, Zenon DEF Dispatching
<1>2. \A u \in Threads : op[u].pc \in {"room", "publish"} =>
        QueueFor(u) \in Queues /\ producer[QueueFor(u)] = u
  BY <1>1, Subject, Zenon DEF ThreadsSound, ThreadSound
<1>3. producer \in [Queues -> Threads \union {None}]
  BY Zenon DEF Typed
<1> QED
  BY <1>2, <1>3, Zenon DEF Unlock

LEMMA StepRefuse ==
  ASSUME Inv, NEW t \in Threads, Refuse(t)
  PROVE  Inv'
<1>0. Sized /\ Typed /\ ThreadsSound
  BY Zenon DEF Inv
<1>1. op[t].pc = "room" /\ Dispatching(t) /\ op[t].pc # "publish" /\ op[t].pc \in Inside
  <2>1. "room" # "publish"
    OBVIOUS
  <2> QED
    BY <2>1, Places, Zenon DEF Refuse, Dispatching
<1>2. UNCHANGED <<write, read, ring, pending, gpu, fence, active, retired,
                  previous, leases, deps, lost, phase, history>> /\ Unlock(t)
  BY Zenon DEF Refuse
<1>3. /\ producer' \in [Queues -> Threads \union {None}]
      /\ \A u \in Threads : u # t /\ op[u].pc \in {"room", "publish"} =>
           producer'[QueueFor(u)] = producer[QueueFor(u)]
  BY <1>0, <1>1, <1>2, Unlocks, Zenon
<1>4. \/ Moves(t, {"idle", "settle"})
      \/ Moves(t, {"await"})
  <2>1. CASE ~(op[t].wait /\ pending[QueueFor(t)] # <<>>)
    BY <1>0, <1>1, <2>1, Fails, Zenon DEF Refuse
  <2>2. CASE op[t].wait /\ pending[QueueFor(t)] # <<>>
    <3>1. PICK r : r = [op[t] EXCEPT !.pc = "await", !.seen = FALSE, !.target = Head(pending[QueueFor(t)])]
      BY Zenon
    <3>2. Head(pending[QueueFor(t)]) \in Points
      <4>1. QueueFor(t) \in Queues
        BY <1>0, <1>1, Subject, Zenon
      <4>2. pending[QueueFor(t)] \in Seq(Points)
        BY <1>0, <4>1, Zenon DEF Typed
      <4> QED
        BY <2>2, <4>2
    <3>3. op[t] \in Pieces /\ "await" \in Inside \union {"begin", "settle"}
      BY <1>0, <1>1, Shapes, Places, Zenon
    <3>4. /\ r \in Pieces /\ r.pc = "await" /\ r.command = op[t].command /\ r.part = op[t].part
          /\ r.guard = op[t].guard /\ r.target \in Points
      BY Zenon, <3>1, <3>2, <3>3 DEF Pieces
    <3>5. Become(t, r)
      BY <2>2, <3>1, Zenon DEF Refuse
    <3> QED
      BY <1>0, <3>4, <3>5, Advances, Zenon
  <2> QED
    BY <2>1, <2>2, Zenon
<1>5. PICK pcs : Moves(t, pcs) /\ op'[t].pc \in {"idle", "settle", "reap", "await"}
  BY <1>4, Zenon DEF Moves
<1>6. previous[WorkOf(t)] < TimelineMax
  BY <1>1, Zenon DEF Inv, ThreadsSound, ThreadSound
<1> QED
  BY <1>1, <1>2, <1>3, <1>5, <1>6, Steps, Zenon

-----------------------------------------------------------------------------
(* The loss of the device.                                                  *)

\* No thread moves.
LEMMA AllStay ==
  ASSUME Sized, Typed, Typed', ThreadsSound, Exclusive,
         UNCHANGED <<op, phase, previous, producer, active, pending, write>>,
         \A w \in Waits : deps[w] # None => deps'[w] # None,
         \A q \in Queues : read'[q] >= read[q]
  PROVE  ThreadsSound' /\ Exclusive'
<1>1. ASSUME NEW u \in Threads, Dispatching(u)' PROVE ThreadSound(u)'
  <2>1. op'[u] = op[u] /\ Dispatching(u)
    BY <1>1, Zenon DEF Dispatching
  <2>2. read'[QueueFor(u)] >= read[QueueFor(u)]
    BY <2>1, Subject, Zenon
  <2> QED
    BY <2>1, <2>2, Stays, Zenon
<1>2. Exclusive'
  BY Zenon DEF Exclusive, WorkOf
<1> QED
  BY <1>1, <1>2, Zenon DEF ThreadsSound

LEMMA Publishers ==
  ASSUME UNCHANGED op
  PROVE  \A q : Publishing(q) => Publishing(q)'
  BY Zenon DEF Publishing, QueueFor, WorkOf

LEMMA StepLose ==
  ASSUME Inv, Lose
  PROVE  Inv'
<1>1. UNCHANGED <<write, read, ring, pending, gpu, producer, fence, active, retired,
                  previous, leases, deps, op, phase, history>>
  BY Zenon DEF Lose
<1>2. Typed'
  BY <1>1, Zenon DEF Inv, Typed
<1>3. ThreadsSound' /\ Exclusive'
  <2>1. \A q \in Queues : read'[q] >= read[q]
    BY <1>1 DEF Inv, Typed
  <2> QED
    BY <1>1, <1>2, <2>1, AllStay, Zenon DEF Inv
<1>4. PendingSound'
  <2>1. \A w \in Works : retired'[w] \in Nat /\ retired'[w] >= retired[w]
    BY <1>1, Same, Zenon DEF Inv
  <2> QED
    BY <1>1, <2>1, Publishers, PendingKept, Zenon DEF Inv
<1>5. GpuSound' /\ RingSound' /\ RingIntact' /\ HistorySound' /\ DepsSound' /\ TimesSound'
  BY <1>1, GpuFrame, RingFrame, HistoryFrame, DepsFrame, TimesFrame, Zenon DEF Inv
<1> QED
  BY <1>2, <1>3, <1>4, <1>5, Zenon DEF Inv

-----------------------------------------------------------------------------
(* The GPU fetches.                                                         *)

LEMMA EntryTyped ==
  ASSUME Sized, Typed, NEW q \in Queues, NEW i \in DOMAIN gpu[q]
  PROVE  /\ i \in 1 .. Len(gpu[q]) /\ Len(gpu[q]) \in Nat /\ gpu[q][i] \in Entries
         /\ gpu[q][i].point \in Points /\ gpu[q][i].at \in Nat /\ gpu[q][i].fetched \in BOOLEAN
         /\ gpu[q][i].point.work \in Works /\ gpu[q][i].point.value \in Nat
         /\ Units[gpu[q][i].point.work] \in Nat \ {0} /\ End(gpu[q][i]) \in Nat
         /\ End(gpu[q][i]) = gpu[q][i].at + Units[gpu[q][i].point.work]
<1>1. gpu[q] \in Seq(Entries)
  BY Zenon DEF Typed
<1>2. i \in 1 .. Len(gpu[q]) /\ Len(gpu[q]) \in Nat /\ gpu[q][i] \in Entries
  BY <1>1
<1>3. gpu[q][i].point \in Points /\ gpu[q][i].at \in Nat /\ gpu[q][i].fetched \in BOOLEAN
  BY <1>2 DEF Entries
<1>4. gpu[q][i].point.work \in Works /\ gpu[q][i].point.value \in Nat
  BY <1>3 DEF Points
<1>5. Units[gpu[q][i].point.work] \in Nat \ {0}
  BY <1>4, Zenon DEF Sized
<1> QED
  BY <1>2, <1>3, <1>4, <1>5 DEF End

LEMMA StepFetch ==
  ASSUME Inv, NEW q \in Queues, Fetch(q)
  PROVE  Inv'
<1>0. Sized /\ Typed /\ ThreadsSound /\ Exclusive /\ GpuSound /\ RingSound /\ RingIntact
  BY Zenon DEF Inv
<1>1. UNCHANGED <<write, ring, pending, producer, fence, active, retired, previous,
                  leases, deps, op, lost, phase, history>>
  BY Zenon DEF Fetch
<1>2. PICK i \in DOMAIN gpu[q] :
        /\ ~gpu[q][i].fetched /\ \A j \in 1 .. i - 1 : gpu[q][j].fetched
        /\ gpu' = [gpu EXCEPT ![q] = [gpu[q] EXCEPT ![i] = [gpu[q][i] EXCEPT !.fetched = TRUE]]]
        /\ read' = [read EXCEPT ![q] = gpu[q][i].at + Units[gpu[q][i].point.work]]
  BY Zenon DEF Fetch
<1>3. PICK e : e = [gpu[q][i] EXCEPT !.fetched = TRUE]
  BY Zenon
<1>4. PICK g : g = [gpu[q] EXCEPT ![i] = e]
  BY Zenon
<1>5. gpu[q] \in Seq(Entries) /\ gpu \in [Queues -> Seq(Entries)] /\ gpu[q][i] \in Entries
  BY <1>0, EntryTyped, Zenon DEF Typed
<1>6. e \in Entries /\ e.point = gpu[q][i].point /\ e.at = gpu[q][i].at /\ e.fetched = TRUE
  BY <1>3, <1>5, Zenon DEF Entries
<1>7. g \in Seq(Entries) /\ DOMAIN g = DOMAIN gpu[q]
  BY <1>4, <1>5, <1>6
<1>8. g[i] = e /\ \A j \in DOMAIN gpu[q] : j # i => g[j] = gpu[q][j]
  BY <1>4, <1>5, Zenon
<1>9. gpu'[q] = g /\ gpu' \in [Queues -> Seq(Entries)] /\ \A r \in Queues : r # q => gpu'[r] = gpu[r]
  <2>1. gpu' = [gpu EXCEPT ![q] = g]
    BY <1>2, <1>3, <1>4, Zenon
  <2> QED
    BY <1>5, <1>7, <2>1, Zenon
<1>10. \A j \in DOMAIN gpu[q] : /\ g[j].point = gpu[q][j].point /\ g[j].at = gpu[q][j].at
                                /\ End(g[j]) = End(gpu[q][j])
                                /\ g[j].fetched <=> (j = i \/ gpu[q][j].fetched)
  <2>1. \A j \in DOMAIN gpu[q] : /\ g[j].point = gpu[q][j].point /\ g[j].at = gpu[q][j].at
                                 /\ g[j].fetched <=> (j = i \/ gpu[q][j].fetched)
    BY <1>6, <1>8, Zenon
  <2> QED
    BY <2>1, Zenon DEF End
<1>11. read \in [Queues -> Nat] /\ End(gpu[q][i]) \in Nat
  BY <1>0, EntryTyped, Zenon DEF Typed
<1>12. /\ read' \in [Queues -> Nat] /\ read'[q] = End(gpu[q][i])
       /\ \A r \in Queues : r # q => read'[r] = read[r]
  <2>1. read' = [read EXCEPT ![q] = End(gpu[q][i])]
    BY <1>2, Zenon DEF End
  <2> QED
    BY <1>11, <2>1, Zenon
<1>13. Typed'
  BY <1>0, <1>1, <1>9, <1>12, Zenon DEF Typed
<1>14. read[q] <= gpu[q][i].at /\ End(gpu[q][i]) <= write[q] /\ read[q] <= write[q] /\ write[q] < read[q] + RingUnits
  BY <1>0, <1>2, Zenon DEF RingSound
<1>15. /\ write[q] \in Nat /\ read[q] \in Nat /\ RingUnits \in Nat /\ gpu[q][i].at \in Nat
       /\ Units[gpu[q][i].point.work] \in Nat /\ End(gpu[q][i]) = gpu[q][i].at + Units[gpu[q][i].point.work]
  BY <1>0, EntryTyped, Zenon DEF Typed, Sized
<1>16. read'[q] >= read[q] /\ read'[q] <= write[q] /\ write[q] < read'[q] + RingUnits
  BY <1>11, <1>12, <1>14, <1>15
<1>17. ThreadsSound' /\ Exclusive'
  <2>1. \A r \in Queues : read'[r] >= read[r]
    <3>1. \A r \in Queues : read[r] >= read[r]
      BY <1>11
    <3> QED
      BY <1>12, <1>16, <3>1, Zenon
  <2> QED
    BY <1>0, <1>1, <1>13, <2>1, AllStay, Zenon
<1>18. GpuSound'
  <2>1. ASSUME NEW j \in DOMAIN g, NEW k \in DOMAIN g, j < k PROVE Follows(g[j], g[k])
    <3>1. Follows(gpu[q][j], gpu[q][k])
      BY <1>0, <1>7, <2>1, Zenon DEF GpuSound
    <3>2. k = i => gpu[q][j].fetched
      <4>1. k = i => j \in 1 .. i - 1
        BY <1>5, <1>7, <2>1
      <4> QED
        BY <1>2, <4>1, Zenon
    <3> QED
      BY <1>7, <1>10, <3>1, <3>2, Zenon DEF Follows
  <2>2. \A r, p : Runnable(r, p)' <=> Runnable(r, p)
    BY <1>1, Zenon DEF Runnable
  <2>3. \A j \in DOMAIN g : Runnable(q, g[j].point)
    BY <1>0, <1>7, <1>10, Zenon DEF GpuSound
  <2>4. \A r \in Queues : /\ \A j \in DOMAIN gpu'[r] : Runnable(r, gpu'[r][j].point)
                          /\ \A j, k \in DOMAIN gpu'[r] : j < k => Follows(gpu'[r][j], gpu'[r][k])
    <3> SUFFICES ASSUME NEW r \in Queues
                 PROVE  /\ \A j \in DOMAIN gpu'[r] : Runnable(r, gpu'[r][j].point)
                        /\ \A j, k \in DOMAIN gpu'[r] : j < k => Follows(gpu'[r][j], gpu'[r][k])
      BY Zenon
    <3>1. CASE r # q
      BY <1>0, <1>9, <3>1, Zenon DEF GpuSound
    <3>2. CASE r = q
      BY <1>9, <2>1, <2>3, <3>2, Zenon
    <3> QED
      BY <3>1, <3>2, Zenon
  <2>5. \A r \in Queues : \A j \in DOMAIN gpu'[r] : Runnable(r, gpu[r][j].point)'
    <3> SUFFICES ASSUME NEW r \in Queues, NEW j \in DOMAIN gpu'[r] PROVE Runnable(r, gpu[r][j].point)'
      BY Zenon
    <3>1. PICK p : p = gpu'[r][j].point
      BY Zenon
    <3>2. Runnable(r, p)'
      BY <2>2, <2>4, <3>1, Zenon
    <3> QED
      BY <3>1, <3>2, Zenon DEF Runnable
  <2>6. \A r \in Queues : \A j, k \in DOMAIN gpu'[r] : j < k => Follows(gpu[r][j], gpu[r][k])'
    BY <2>4, Zenon DEF Follows
  <2> QED
    BY <2>5, <2>6, Zenon DEF GpuSound
<1>19. RingSound'
  <2>1. ASSUME NEW j \in DOMAIN g
        PROVE  End(g[j]) <= write[q] /\ (~g[j].fetched => read'[q] <= g[j].at)
    <3>1. End(gpu[q][j]) <= write[q]
      BY <1>0, <1>7, Zenon DEF RingSound
    <3>2. ~g[j].fetched => i < j
      <4>1. ~g[j].fetched => j # i /\ j \notin 1 .. i - 1
        BY <1>2, <1>7, <1>10, Zenon
      <4> QED
        BY <1>5, <1>7, <4>1
    <3>3. i < j => End(gpu[q][i]) <= gpu[q][j].at
      BY <1>0, <1>7, Zenon DEF RingSound
    <3> QED
      BY <1>7, <1>10, <1>12, <3>1, <3>2, <3>3, Zenon
  <2>2. \A j, k \in DOMAIN g : j < k => End(g[j]) <= g[k].at
    BY <1>0, <1>7, <1>10, Zenon DEF RingSound
  <2> SUFFICES ASSUME NEW r \in Queues
               PROVE  /\ read'[r] <= write[r] /\ write[r] < read'[r] + RingUnits
                      /\ \A j \in DOMAIN gpu'[r] : End(gpu'[r][j]) <= write[r] /\ (~gpu'[r][j].fetched => read'[r] <= gpu'[r][j].at)
                      /\ \A j, k \in DOMAIN gpu'[r] : j < k => End(gpu'[r][j]) <= gpu'[r][k].at
    BY <1>1, Zenon DEF RingSound, End
  <2>3. CASE r # q
    BY <1>0, <1>9, <1>12, <2>3, Zenon DEF RingSound
  <2>4. CASE r = q
    BY <1>9, <1>16, <2>1, <2>2, <2>4, Zenon
  <2> QED
    BY <2>3, <2>4, Zenon
<1>20. RingIntact'
  <2> SUFFICES ASSUME NEW r \in Queues, NEW j \in DOMAIN gpu'[r], ~gpu'[r][j].fetched
               PROVE  /\ (gpu'[r][j].at % RingUnits) + Units[gpu'[r][j].point.work] <= RingUnits
                      /\ \A k \in gpu'[r][j].at .. gpu'[r][j].at + Units[gpu'[r][j].point.work] - 1 :
                           ring[r][k % RingUnits] = gpu'[r][j].point
    BY <1>1, Zenon DEF RingIntact
  <2>1. /\ j \in DOMAIN gpu[r] /\ ~gpu[r][j].fetched
        /\ gpu'[r][j].at = gpu[r][j].at /\ gpu'[r][j].point = gpu[r][j].point
    BY <1>7, <1>9, <1>10, Zenon
  <2> QED
    BY <1>0, <2>1, Zenon DEF RingIntact
<1>21. PendingSound'
  <2>1. \A x \in Works : retired'[x] \in Nat /\ retired'[x] >= retired[x]
    BY <1>0, <1>1, Same, Zenon
  <2> QED
    BY <1>1, <2>1, Publishers, PendingKept, Zenon DEF Inv
<1>22. HistorySound' /\ TimesSound' /\ DepsSound'
  BY <1>1, HistoryFrame, TimesFrame, DepsFrame, Zenon DEF Inv
<1> QED
  BY <1>0, <1>13, <1>17, <1>18, <1>19, <1>20, <1>21, <1>22, Zenon DEF Inv

-----------------------------------------------------------------------------
(* Admission.                                                               *)

\* Masking both indexes gives the distance between them, since it is less than the ring:
\* a queue that is not full has room for the pad and the command.
LEMMA HasRoom ==
  ASSUME Sized, Typed, RingSound, NEW q \in Queues, NEW n \in Nat, ~Full(q, n)
  PROVE  Room(q, n)
<1>1. /\ write[q] \in Nat /\ read[q] \in Nat /\ RingUnits \in Nat \ {0} /\ Required(q, n) \in Nat
  BY Pads, Zenon
<1>2. read[q] <= write[q] /\ write[q] < read[q] + RingUnits
  BY Zenon DEF RingSound
<1>3. write[q] - read[q] \in 0 .. RingUnits - 1
  BY <1>1, <1>2
<1>4. Outstanding(q) = write[q] - read[q]
  BY <1>1, <1>3, ModSmall, Zenon DEF Outstanding
<1>5. ~(Required(q, n) >= RingUnits - (write[q] - read[q]))
  BY <1>4, Zenon DEF Full
<1> QED
  BY <1>1, <1>3, <1>5 DEF Room

LEMMA NextTyped ==
  ASSUME Sized, Typed, NEW w \in Works, previous[w] < TimelineMax
  PROVE  NextPoint(w) \in Points /\ NextPoint(w).work = w /\ NextPoint(w).value = previous[w] + 1
         /\ previous[w] \in Nat
<1>1. previous[w] \in Nat /\ TimelineMax \in Nat
  BY Zenon DEF Typed, Sized
<1>2. previous[w] + 1 \in 1 .. TimelineMax
  BY <1>1
<1> QED
  BY <1>1, <1>2 DEF NextPoint, Points

LEMMA Appended ==
  ASSUME NEW S, NEW s \in Seq(S), NEW x \in S, NEW a, a = Append(s, x)
  PROVE  /\ a \in Seq(S) /\ Len(s) \in Nat /\ Len(a) = Len(s) + 1 /\ a[Len(a)] = x /\ a[Len(s) + 1] = x
         /\ DOMAIN s = 1 .. Len(s) /\ DOMAIN a = 1 .. Len(s) + 1
         /\ \A i \in DOMAIN s : i \in DOMAIN a /\ a[i] = s[i]
         /\ \A i \in DOMAIN a : i \in DOMAIN s \/ i = Len(s) + 1
         /\ \A i \in DOMAIN s : i < Len(s) + 1
  OBVIOUS

LEMMA StepAdmit ==
  ASSUME Inv, NEW t \in Threads, Admit(t)
  PROVE  Inv'
<1>0. /\ Sized /\ Typed /\ ThreadsSound /\ Exclusive /\ TimesSound /\ GpuSound /\ RingSound
      /\ PendingSound
  BY Zenon DEF Inv
<1>1. op[t].pc = "room" /\ Dispatching(t) /\ op[t].pc # "publish" /\ op[t].pc \in Inside
      /\ op[t].pc \in {"room", "publish"}
  <2>1. "room" # "publish"
    OBVIOUS
  <2> QED
    BY <2>1, Places, Zenon DEF Admit, Dispatching
<1>2. PICK w, q : w = WorkOf(t) /\ q = QueueFor(t)
  BY Zenon
<1>3. /\ w \in Works /\ q \in Queues /\ QueueOf[w] = q /\ Units[w] \in Nat
      /\ previous[w] < TimelineMax /\ producer[q] = t
  BY <1>0, <1>1, <1>2, Subject, Zenon DEF ThreadsSound, ThreadSound, QueueFor
<1>4. UNCHANGED <<write, read, ring, gpu, fence, retired, previous, deps, lost, phase, history>>
      /\ ~Full(q, Units[w])
  BY <1>2, Zenon DEF Admit
<1>5. \A u \in Threads : u # t /\ op[u].pc \in {"room", "publish"} => QueueFor(u) # q /\ QueueFor(u) \in Queues
  <2>1. \A u \in Threads : op[u].pc \in {"room", "publish"} => Dispatching(u)
    BY Places, Zenon DEF Dispatching
  <2>2. \A u \in Threads : op[u].pc \in {"room", "publish"} =>
          QueueFor(u) \in Queues /\ producer[QueueFor(u)] = u
    BY <1>0, <2>1, Subject, Zenon DEF ThreadsSound, ThreadSound
  <2> QED
    BY <1>3, <2>2, Zenon
<1>6. CASE Fail(t) /\ Unlock(t) /\ UNCHANGED <<leases, active, pending>>
  <2>1. Moves(t, {"idle", "settle"})
    BY <1>0, <1>1, <1>6, Fails, Zenon
  <2>2. op'[t].pc \in {"idle", "settle", "reap", "await"} /\ op'[t].pc \notin Inside
    BY <2>1, Places, Zenon DEF Moves
  <2>3. /\ producer' \in [Queues -> Threads \union {None}]
        /\ \A u \in Threads : u # t /\ op[u].pc \in {"room", "publish"} =>
             producer'[QueueFor(u)] = producer[QueueFor(u)]
    BY <1>0, <1>1, <1>6, Unlocks, Zenon
  <2> QED
    BY <1>1, <1>4, <1>6, <2>1, <2>2, <2>3, Steps, Zenon
<1>7. CASE /\ leases' = [leases EXCEPT ![w] = Operands[w]]
           /\ active' = [active EXCEPT ![w] = previous[w] + 1]
           /\ pending' = [pending EXCEPT ![QueueOf[w]] =
                            Append(@, [work |-> w, value |-> previous[w] + 1])]
           /\ Become(t, [op[t] EXCEPT !.pc = "publish"])
           /\ UNCHANGED producer
  <2>1. PICK p, b : p = NextPoint(w) /\ b = Append(pending[q], p)
    BY Zenon
  <2>2. p \in Points /\ previous[w] \in Nat
    BY <1>0, <1>3, <2>1, NextTyped, Zenon
  <2>3. /\ pending \in [Queues -> Seq(Points)] /\ active \in [Works -> Nat]
        /\ leases \in [Works -> SUBSET Buffers] /\ Operands[w] \in SUBSET Buffers
    BY <1>0, <1>3, Zenon DEF Typed, Sized
  <2>4. pending[q] \in Seq(Points)
    BY <1>3, <2>3, Zenon
  <2>5. /\ b \in Seq(Points) /\ Len(pending[q]) \in Nat /\ Len(b) = Len(pending[q]) + 1 /\ b[Len(b)] = p
        /\ DOMAIN pending[q] = 1 .. Len(pending[q]) /\ \A i \in DOMAIN pending[q] : i \in DOMAIN b /\ b[i] = pending[q][i]
    <3>1. b = Append(pending[q], p)
      BY <2>1, Zenon
    <3>2. p \in Points
      BY <2>2, Zenon
    <3>3. PICK s : s = pending[q]
      BY Zenon
    <3>4. /\ b \in Seq(Points) /\ Len(s) \in Nat /\ Len(b) = Len(s) + 1 /\ b[Len(b)] = p
          /\ DOMAIN s = 1 .. Len(s) /\ \A i \in DOMAIN s : i \in DOMAIN b /\ b[i] = s[i]
      BY <2>4, <3>1, <3>2, <3>3, Appended
    <3> QED
      BY <3>3, <3>4, Zenon
  <2>6. /\ pending' \in [Queues -> Seq(Points)] /\ pending'[q] = b
        /\ \A r \in Queues : r # q => pending'[r] = pending[r]
    <3>1. pending' = [pending EXCEPT ![q] = b]
      BY <1>3, <1>7, <2>1, Zenon DEF NextPoint
    <3> QED
      BY <1>3, <2>3, <2>5, <3>1, Zenon
  <2>7. /\ active' \in [Works -> Nat] /\ active'[w] = previous[w] + 1
        /\ \A x \in Works : x # w => active'[x] = active[x]
    <3>1. previous[w] + 1 \in Nat
      BY <2>2
    <3> QED
      BY <1>3, <1>7, <2>3, <3>1, Zenon
  <2>8. /\ leases' \in [Works -> SUBSET Buffers] /\ leases'[w] = Operands[w]
        /\ \A x \in Works : x # w => leases'[x] = leases[x]
    BY <1>3, <1>7, <2>3, Zenon
  <2>9. PICK r : r = [op[t] EXCEPT !.pc = "publish"]
    BY Zenon
  <2>10. op[t] \in Pieces /\ "publish" \in Inside \union {"begin", "settle"}
    BY <1>0, <1>1, Shapes, Places, Zenon
  <2>11. /\ r \in Pieces /\ r.pc = "publish" /\ r.command = op[t].command /\ r.part = op[t].part
         /\ r.guard = op[t].guard /\ r.pc \notin {"await", "settle"}
    BY <2>9, <2>10 DEF Pieces
  <2>12. Moves(t, {"publish"}) /\ op'[t] = r
    BY <1>0, <1>7, <2>9, <2>11, Advances, Zenon
  <2>13. op' \in [Threads -> Ops] /\ op'[t].pc = "publish" /\ \A u \in Threads : u # t => op'[u] = op[u]
    BY <2>12, Zenon DEF Moves
  <2>14. Typed'
    BY <1>0, <1>4, <1>7, <2>6, <2>7, <2>8, <2>13, Zenon DEF Typed
  <2>15. TimesSound'
    <3> SUFFICES ASSUME NEW x \in Works
                 PROVE  /\ retired[x] <= fence[x] /\ fence[x] <= previous[x] /\ previous[x] <= active'[x]
                        /\ previous[x] <= TimelineMax
                        /\ fence[x] < active'[x] => leases'[x] = Operands[x]
      BY <1>4, Zenon DEF TimesSound
    <3>1. /\ retired[x] <= fence[x] /\ fence[x] <= previous[x] /\ previous[x] <= active[x]
          /\ previous[x] <= TimelineMax
          /\ fence[x] < active[x] => leases[x] = Operands[x]
      BY <1>0, Zenon DEF TimesSound
    <3>2. previous[w] <= previous[w] + 1
      BY <2>2
    <3> QED
      BY <2>7, <2>8, <3>1, <3>2, Zenon
  <2>16. Admitted(q, w)'
    <3>1. Room(q, Units[w])
      BY <1>0, <1>3, <1>4, HasRoom, Zenon
    <3>2. Room(q, Units[w])'
      BY <1>4, <3>1, Zenon DEF Room, Required, Wrap, Cursor
    <3>3. Len(b) > 0
      BY <2>5
    <3> QED
      BY <1>4, <2>1, <2>5, <2>6, <2>7, <3>2, <3>3, Zenon DEF Admitted, NextPoint
  <2>17. ThreadsSound'
    <3>1. ASSUME NEW u \in Threads, u # t
          PROVE  /\ op[u].pc \in {"room", "publish"} => producer'[QueueFor(u)] = producer[QueueFor(u)]
                 /\ op[u].pc = "publish" =>
                      /\ active'[WorkOf(u)] = active[WorkOf(u)]
                      /\ pending'[QueueFor(u)] = pending[QueueFor(u)]
                      /\ write'[QueueFor(u)] = write[QueueFor(u)] /\ read'[QueueFor(u)] = read[QueueFor(u)]
      <4> SUFFICES ASSUME op[u].pc = "publish"
                   PROVE  active'[WorkOf(u)] = active[WorkOf(u)] /\ pending'[QueueFor(u)] = pending[QueueFor(u)]
        BY <1>4, <1>7, Zenon
      <4>1. op[u].pc \in {"room", "publish"} /\ op[u].pc \in Inside /\ Dispatching(u)
        BY Places, Zenon DEF Dispatching
      <4>2. WorkOf(u) # w /\ WorkOf(u) \in Works
        BY <1>0, <1>1, <1>2, <3>1, <4>1, Subject, Zenon DEF Exclusive
      <4> QED
        BY <1>5, <2>6, <2>7, <3>1, <4>1, <4>2, Zenon
    <3> QED
      BY <1>0, <1>1, <1>2, <1>3, <1>4, <1>7, <2>12, <2>14, <2>16, <3>1, ThreadMoves, Zenon
  <2>18. Exclusive'
    BY <1>0, <1>1, <2>12, ExclusiveMoves, Zenon
  <2>19. GpuSound'
    <3>1. \A x \in Queues : Range(pending[x]) \subseteq Range(pending'[x])
      BY <2>5, <2>6, Zenon DEF Range
    <3> QED
      BY <1>0, <1>4, <3>1, Zenon DEF GpuSound, Runnable
  <2>20. PendingSound'
    <3>1. \A x \in Works : retired'[x] \in Nat /\ retired'[x] >= retired[x]
      BY <1>0, <1>4, Same, Zenon
    <3>2. \A x : Publishing(x) => Publishing(x)'
      BY <1>1, <2>13, PublishersStay, Zenon
    <3>3. ASSUME NEW x \in Queues, x # q PROVE \E o \in 0 .. Len(history[x]) : Pending(x, o)'
      <4>1. PICK o \in 0 .. Len(history[x]) : Pending(x, o)
        BY <1>0, Zenon DEF PendingSound
      <4>2. pending'[x] = pending[x] /\ history'[x] = history[x]
        BY <1>4, <2>6, <3>3, Zenon
      <4>3. Pending(x, o)'
        BY <1>0, <3>1, <3>2, <4>1, <4>2, PendingStays, Zenon
      <4> QED
        BY <4>3, Zenon
    <3>4. \E o \in 0 .. Len(history[q]) : Pending(q, o)'
      <4>1. PICK o \in 0 .. Len(history[q]) : Pending(q, o)
        BY <1>0, <1>3, Zenon DEF PendingSound
      <4>2. ~Publishing(q)
        BY <1>0, <1>1, <1>3, Unpublished, Zenon
      <4>3. Len(pending[q]) = Len(history[q]) - o /\ Len(history[q]) \in Nat
        <5>1. history[q] \in Seq(Points)
          BY <1>0, <1>3, Zenon DEF Typed
        <5>2. Len(history[q]) \in Nat
          BY <5>1
        <5> QED
          BY <4>1, <4>2, <5>2, Zenon DEF Pending
      <4>4. Len(b) = Len(history[q]) - o + 1
        BY <2>5, <4>3
      <4>5. Publishing(q)'
        <5>1. QueueFor(t)' = q
          BY <1>2, <2>11, <2>12, Zenon DEF QueueFor, WorkOf
        <5> QED
          BY <2>13, <5>1, Zenon DEF Publishing
      <4>6. \A i \in o + 1 .. Len(history[q]) : i - o <= Len(b) /\ b[i - o] = history[q][i]
        <5> SUFFICES ASSUME NEW i \in o + 1 .. Len(history[q]) PROVE i - o <= Len(b) /\ b[i - o] = history[q][i]
          BY Zenon
        <5>1. i - o \in 1 .. Len(pending[q]) /\ i - o <= Len(b)
          BY <4>3, <4>4
        <5>2. pending[q][i - o] = history[q][i]
          BY <4>1, Zenon DEF Pending
        <5> QED
          BY <2>5, <5>1, <5>2, Zenon
      <4>7. Pending(q, o)'
        BY <1>4, <2>6, <4>1, <4>4, <4>5, <4>6, Zenon DEF Pending
      <4> QED
        BY <4>7, Zenon
    <3> QED
      BY <1>4, <3>3, <3>4, Zenon DEF PendingSound
  <2>21. RingSound' /\ RingIntact' /\ HistorySound' /\ DepsSound'
    BY <1>4, RingFrame, HistoryFrame, DepsFrame, Zenon DEF Inv
  <2> QED
    BY <1>0, <2>14, <2>15, <2>17, <2>18, <2>19, <2>20, <2>21, Zenon DEF Inv
<1> QED
  BY <1>2, <1>6, <1>7, Zenon DEF Admit

-----------------------------------------------------------------------------
(* Publication.                                                             *)

\* The place of a published command: in one piece, behind everything the GPU may still fetch.
LEMMA Place ==
  ASSUME Sized, Typed, RingSound, NEW q \in Queues, NEW n \in Nat \ {0}, Room(q, n),
         NEW at, at = write[q] + Wrap(q, n)
  PROVE  /\ at \in Nat /\ write[q] <= at /\ (at % RingUnits) + n <= RingUnits
         /\ at + n < read[q] + RingUnits
<1>1. /\ write[q] \in Nat /\ read[q] \in Nat /\ RingUnits \in Nat \ {0}
      /\ Cursor(q) \in 0 .. RingUnits - 1 /\ Wrap(q, n) \in Nat
  BY Pads, Zenon
<1>2. read[q] <= write[q]
  BY Zenon DEF RingSound
<1>3. write[q] + (Wrap(q, n) + n) < read[q] + RingUnits
  BY Zenon DEF Room, Required
<1>4. at \in Nat /\ write[q] <= at /\ at + n < read[q] + RingUnits
  BY <1>1, <1>3
<1>5. CASE n > RingUnits - Cursor(q)
  <2>1. Wrap(q, n) = RingUnits - Cursor(q)
    BY <1>5, Zenon DEF Wrap
  <2>2. at % RingUnits = 0
    <3>1. at = write[q] + (RingUnits - (write[q] % RingUnits))
      BY <2>1, Zenon DEF Cursor
    <3>2. write[q] \in Int
      BY <1>1
    <3> QED
      BY <1>1, <3>1, <3>2, ModPad, Zenon
  <2>3. n <= RingUnits
    BY <1>1, <1>2, <1>3
  <2> QED
    BY <1>1, <1>4, <2>2, <2>3
<1>6. CASE ~(n > RingUnits - Cursor(q))
  <2>1. Wrap(q, n) = 0
    BY <1>6, Zenon DEF Wrap
  <2>2. at = write[q]
    BY <1>1, <2>1
  <2>3. at % RingUnits = Cursor(q)
    BY <2>2, Zenon DEF Cursor
  <2> QED
    BY <1>1, <1>4, <1>6, <2>3
<1> QED
  BY <1>5, <1>6, Zenon

\* What Publish(t) does to the queue and the work it is about.
Publishes(t, w, q, p, at, e) ==
  /\ w = WorkOf(t) /\ q = QueueFor(t) /\ p = NextPoint(w) /\ at = write[q] + Wrap(q, Units[w])
  /\ e = [point |-> p, at |-> at, fetched |-> FALSE]
  /\ w \in Works /\ q \in Queues /\ QueueOf[w] = q /\ Units[w] \in Nat \ {0} /\ p \in Points
  /\ p.work = w /\ p.value = previous[w] + 1 /\ previous[w] \in Nat /\ previous[w] < TimelineMax
  /\ e \in Entries /\ e.point = p /\ e.at = at /\ e.fetched = FALSE
  /\ op[t].pc = "publish" /\ Dispatching(t) /\ ThreadSound(t) /\ Admitted(q, w)
  /\ at \in Nat /\ write[q] <= at /\ (at % RingUnits) + Units[w] <= RingUnits
  /\ at + Units[w] < read[q] + RingUnits
  /\ \A r \in Queues : r # q => /\ ring'[r] = ring[r] /\ write'[r] = write[r]
                                /\ gpu'[r] = gpu[r] /\ history'[r] = history[r]
  /\ write'[q] = at + Units[w] /\ gpu'[q] = Append(gpu[q], e) /\ history'[q] = Append(history[q], p)
  /\ previous'[w] = previous[w] + 1 /\ \A x \in Works : x # w => previous'[x] = previous[x]
  /\ UNCHANGED <<read, pending, fence, active, retired, leases, deps, lost, phase>>

LEMMA Publication ==
  ASSUME Inv, NEW t \in Threads, Publish(t)
  PROVE  \E w, q, p, at, e : Publishes(t, w, q, p, at, e)
<1>0. Sized /\ Typed /\ ThreadsSound /\ RingSound
  BY Zenon DEF Inv
<1>1. op[t].pc = "publish" /\ Dispatching(t) /\ op[t].pc \in Inside
  BY Places, Zenon DEF Publish, Dispatching
<1>2. ThreadSound(t)
  BY <1>0, <1>1, Zenon DEF ThreadsSound
<1>3. PICK w, q, p : w = WorkOf(t) /\ q = QueueFor(t) /\ p = NextPoint(w)
  BY Zenon
<1>4. /\ w \in Works /\ q \in Queues /\ QueueOf[w] = q /\ Units[w] \in Nat \ {0}
      /\ previous[w] < TimelineMax /\ Admitted(q, w)
  BY <1>0, <1>1, <1>2, <1>3, Subject, Zenon DEF ThreadSound, QueueFor
<1>5. p \in Points /\ p.work = w /\ p.value = previous[w] + 1 /\ previous[w] \in Nat
  BY <1>0, <1>3, <1>4, NextTyped, Zenon
<1>6. PICK at : at = write[q] + Wrap(q, Units[w])
  BY Zenon
<1>7. /\ at \in Nat /\ write[q] <= at /\ (at % RingUnits) + Units[w] <= RingUnits
      /\ at + Units[w] < read[q] + RingUnits
  BY <1>0, <1>4, <1>6, Place, Zenon DEF Admitted
<1>8. PICK e : e = [point |-> p, at |-> at, fetched |-> FALSE]
  BY Zenon
<1>9. e \in Entries /\ e.point = p /\ e.at = at /\ e.fetched = FALSE
  BY <1>5, <1>7, <1>8 DEF Entries
<1>10. /\ ring \in [Queues -> [0 .. RingUnits - 1 -> Points \union {None}]] /\ write \in [Queues -> Nat]
       /\ gpu \in [Queues -> Seq(Entries)] /\ history \in [Queues -> Seq(Points)]
       /\ previous \in [Works -> Nat]
  BY <1>0, Zenon DEF Typed
<1>11. p = [work |-> w, value |-> previous[w] + 1]
  BY <1>3, Zenon DEF NextPoint
<1>12. /\ write' = [write EXCEPT ![q] = at + Units[w]]
       /\ gpu' = [gpu EXCEPT ![q] = Append(@, e)]
       /\ history' = [history EXCEPT ![q] = Append(@, p)]
       /\ previous' = [previous EXCEPT ![w] = p.value]
       /\ \E x : ring' = [ring EXCEPT ![q] = x]
       /\ UNCHANGED <<read, pending, fence, active, retired, leases, deps, lost, phase>>
  BY <1>3, <1>6, <1>8, <1>11, Zenon DEF Publish
<1>13. /\ \A r \in Queues : r # q => /\ ring'[r] = ring[r] /\ write'[r] = write[r]
                                     /\ gpu'[r] = gpu[r] /\ history'[r] = history[r]
       /\ write'[q] = at + Units[w] /\ gpu'[q] = Append(gpu[q], e) /\ history'[q] = Append(history[q], p)
       /\ previous'[w] = p.value /\ \A x \in Works : x # w => previous'[x] = previous[x]
  BY <1>4, <1>10, <1>12, Zenon
<1>14. Publishes(t, w, q, p, at, e)
  BY <1>1, <1>2, <1>3, <1>4, <1>5, <1>6, <1>7, <1>8, <1>9, <1>12, <1>13, Zenon DEF Publishes
<1> QED
  BY <1>14, Zenon

\* The ring after a publication: its own units, and everything the GPU may still fetch.
LEMMA PublishedRing ==
  ASSUME Inv, NEW t \in Threads, Publish(t), NEW w, NEW q, NEW p, NEW at, NEW e,
         Publishes(t, w, q, p, at, e)
  PROVE  /\ ring' \in [Queues -> [0 .. RingUnits - 1 -> Points \union {None}]]
         /\ \A k \in at .. at + Units[w] - 1 : ring'[q][k % RingUnits] = p
         /\ \A k \in Nat : read[q] <= k /\ k < write[q] => ring'[q][k % RingUnits] = ring[q][k % RingUnits]
<1>0. Sized /\ Typed
  BY Zenon DEF Inv
<1>1. PICK mine, padding : /\ mine = {i % RingUnits : i \in at .. at + Units[w] - 1}
                           /\ padding = {i % RingUnits : i \in write[q] .. at - 1}
  BY Zenon
<1>2. PICK x : x = [i \in 0 .. RingUnits - 1 |-> IF i \in mine THEN p ELSE IF i \in padding THEN None ELSE ring[q][i]]
  BY Zenon
<1>3. ring' = [ring EXCEPT ![q] = x]
  BY <1>1, <1>2, Zenon DEF Publishes, Publish, NextPoint
<1>4. q \in Queues /\ p \in Points /\ Units[w] \in Nat \ {0} /\ at \in Nat /\ write[q] <= at
      /\ at + Units[w] < read[q] + RingUnits
  BY Zenon DEF Publishes
<1>5. /\ ring \in [Queues -> [0 .. RingUnits - 1 -> Points \union {None}]]
      /\ RingUnits \in Nat \ {0} /\ write[q] \in Nat /\ read[q] \in Nat
  BY <1>0, <1>4, Zenon DEF Typed, Sized
<1>6. x \in [0 .. RingUnits - 1 -> Points \union {None}]
  BY <1>2, <1>4, <1>5, Zenon
<1>7. ring' \in [Queues -> [0 .. RingUnits - 1 -> Points \union {None}]] /\ ring'[q] = x
  BY <1>3, <1>4, <1>5, <1>6, Zenon
<1>8. \A k \in Nat : k % RingUnits \in 0 .. RingUnits - 1
  BY <1>5
<1>9. ASSUME NEW k \in at .. at + Units[w] - 1 PROVE x[k % RingUnits] = p
  <2>1. k \in Nat
    BY <1>4
  <2> QED
    BY <1>1, <1>2, <1>8, <2>1, Zenon
<1>10. ASSUME NEW k \in Nat, read[q] <= k, k < write[q] PROVE x[k % RingUnits] = ring[q][k % RingUnits]
  <2>1. ASSUME NEW i \in write[q] .. at + Units[w] - 1 PROVE i % RingUnits # k % RingUnits
    <3>1. i \in Int /\ k \in Int /\ k < i /\ i - k < RingUnits
      BY SMTT(20), <1>4, <1>5, <1>10
    <3> QED
      BY <1>5, <3>1, ModDistinct, Zenon
  <2>2. k % RingUnits \notin mine
    <3> SUFFICES ASSUME NEW i \in at .. at + Units[w] - 1 PROVE i % RingUnits # k % RingUnits
      BY <1>1, Zenon
    <3>1. i \in write[q] .. at + Units[w] - 1
      BY <1>4, <1>5
    <3> QED
      BY <2>1, <3>1, Zenon
  <2>3. k % RingUnits \notin padding
    <3> SUFFICES ASSUME NEW i \in write[q] .. at - 1 PROVE i % RingUnits # k % RingUnits
      BY <1>1, Zenon
    <3>1. i \in write[q] .. at + Units[w] - 1
      BY <1>4, <1>5
    <3> QED
      BY <2>1, <3>1, Zenon
  <2> QED
    BY <1>2, <1>8, <2>2, <2>3, Zenon
<1> QED
  BY <1>7, <1>9, <1>10, Zenon

\* An entry that lies in one piece and untouched in its ring (RingIntact is this for all).
Whole(q, e) ==
  /\ (e.at % RingUnits) + Units[e.point.work] <= RingUnits
  /\ \A k \in e.at .. e.at + Units[e.point.work] - 1 : ring[q][k % RingUnits] = e.point

LEMMA PublishedGpu ==
  ASSUME Inv, NEW t \in Threads, Publish(t), NEW w, NEW q, NEW p, NEW at, NEW e,
         Publishes(t, w, q, p, at, e)
  PROVE  /\ gpu' \in [Queues -> Seq(Entries)] /\ GpuSound' /\ RingSound' /\ RingIntact'
<1>0. Sized /\ Typed /\ GpuSound /\ RingSound /\ RingIntact /\ TimesSound
  BY Zenon DEF Inv
<1>1. /\ w \in Works /\ q \in Queues /\ QueueOf[w] = q /\ Units[w] \in Nat \ {0} /\ p \in Points
      /\ p.work = w /\ p.value = previous[w] + 1 /\ previous[w] \in Nat
      /\ e \in Entries /\ e.point = p /\ e.at = at /\ e.fetched = FALSE
      /\ at \in Nat /\ write[q] <= at /\ (at % RingUnits) + Units[w] <= RingUnits
      /\ at + Units[w] < read[q] + RingUnits
      /\ write'[q] = at + Units[w] /\ gpu'[q] = Append(gpu[q], e)
      /\ previous'[w] = previous[w] + 1 /\ \A x \in Works : x # w => previous'[x] = previous[x]
      /\ UNCHANGED <<read, pending, fence, active, retired, leases, deps, lost, phase>>
  BY Zenon DEF Publishes
<1>2. \A r \in Queues : r # q => gpu'[r] = gpu[r] /\ ring'[r] = ring[r] /\ write'[r] = write[r]
  BY Zenon DEF Publishes
<1>3. /\ gpu \in [Queues -> Seq(Entries)] /\ gpu[q] \in Seq(Entries) /\ write[q] \in Nat /\ read[q] \in Nat
      /\ RingUnits \in Nat
  BY <1>0, <1>1, Zenon DEF Typed, Sized
<1>4. PICK g, n : g = gpu[q] /\ n = Len(gpu[q]) + 1
  BY Zenon
<1>5. /\ gpu'[q] \in Seq(Entries) /\ gpu'[q][n] = e /\ n \in DOMAIN gpu'[q]
      /\ \A i \in DOMAIN g : i \in DOMAIN gpu'[q] /\ gpu'[q][i] = g[i] /\ i < n /\ ~(n < i)
      /\ \A i \in DOMAIN gpu'[q] : i \in DOMAIN g \/ i = n
      /\ n \in Nat
  <2>1. PICK a : a = Append(g, e)
    BY Zenon
  <2>2. g \in Seq(Entries) /\ e \in Entries /\ n = Len(g) + 1
    BY <1>1, <1>3, <1>4, Zenon
  <2>3. /\ a \in Seq(Entries) /\ a[n] = e /\ n \in DOMAIN a
        /\ \A i \in DOMAIN g : i \in DOMAIN a /\ a[i] = g[i] /\ i < n /\ ~(n < i)
        /\ \A i \in DOMAIN a : i \in DOMAIN g \/ i = n
        /\ n \in Nat
    BY <2>1, <2>2
  <2>4. gpu'[q] = a
    BY <1>1, <1>4, <2>1, Zenon
  <2> QED
    BY <2>3, <2>4, Zenon
<1>6. gpu' \in [Queues -> Seq(Entries)]
  <2>1. \E x : gpu' = [gpu EXCEPT ![q] = x]
    BY Zenon DEF Publish, Publishes
  <2> QED
    BY <1>1, <1>3, <1>5, <2>1, Zenon
<1>7. \A x \in Works : previous[x] \in Nat /\ previous'[x] \in Nat /\ previous'[x] >= previous[x]
  <2>1. \A x \in Works : previous[x] \in Nat
    BY <1>0, Zenon DEF Typed
  <2> QED
    BY <1>1, <2>1
<1>8. \A r \in Queues : \A i \in DOMAIN gpu[r] : Runnable(r, gpu[r][i].point) /\ gpu[r][i].point.work \in Works
                                                 /\ gpu[r][i].point.value \in Nat
  BY <1>0, EntryTyped, Zenon DEF GpuSound
<1>9. ASSUME NEW r, NEW x, Runnable(r, x), x.work \in Works, x.value \in Nat PROVE Runnable(r, x)'
  <2>1. x.value <= previous'[x.work]
    BY <1>7, <1>9 DEF Runnable
  <2> QED
    BY <1>1, <1>9, <2>1, Zenon DEF Runnable
<1>10. Runnable(q, p)'
  <2>1. fence[w] < p.value /\ p.value <= previous'[w]
    <3>1. fence[w] \in Nat /\ fence[w] <= previous[w]
      BY <1>0, <1>1, Zenon DEF Typed, TimesSound
    <3> QED
      BY <1>1, <3>1
  <2>2. p \in Range(pending[q])
    <3>1. Admitted(q, w) /\ p = NextPoint(w) /\ pending[q] \in Seq(Points)
      BY <1>0, <1>1, Zenon DEF Publishes, Typed
    <3>2. Len(pending[q]) \in DOMAIN pending[q]
      BY <3>1 DEF Admitted
    <3> QED
      BY <3>1, <3>2, Zenon DEF Admitted, Range
  <2>3. phase[q] # "destroyed"
    <3>1. phase[q] = "live"
      BY <1>0, Subject, Zenon DEF Publishes, Inv
    <3> QED
      BY <3>1
  <2> QED
    BY <1>1, <2>1, <2>2, <2>3, Zenon DEF Runnable
<1>11. GpuSound'
  <2>1. ASSUME NEW r \in Queues, NEW i \in DOMAIN gpu'[r] PROVE Runnable(r, gpu[r][i].point)'
    <3>1. PICK x : x = gpu'[r][i].point
      BY Zenon
    <3>2. CASE r = q /\ i = n
      BY <1>1, <1>5, <1>10, <3>1, <3>2, Zenon DEF Runnable
    <3>3. CASE ~(r = q /\ i = n)
      <4>1. i \in DOMAIN gpu[r] /\ gpu'[r][i] = gpu[r][i]
        BY <1>2, <1>4, <1>5, <3>3, Zenon
      <4>2. Runnable(r, x)'
        BY <1>8, <1>9, <3>1, <4>1, Zenon
      <4> QED
        BY <3>1, <4>2, Zenon DEF Runnable
    <3> QED
      BY <3>2, <3>3, Zenon
  <2>2. ASSUME NEW i \in DOMAIN g PROVE Follows(g[i], e)
    <3>1. Runnable(q, g[i].point)
      BY <1>1, <1>4, <1>8, ZenonT(40)
    <3>2. g[i].point.work = w => g[i].point.value < p.value
      BY <1>1, <1>4, <1>8, <3>1 DEF Runnable
    <3> QED
      BY <1>1, <3>2, Zenon DEF Follows
  <2>3. ASSUME NEW r \in Queues, NEW i \in DOMAIN gpu'[r], NEW j \in DOMAIN gpu'[r], i < j
        PROVE  Follows(gpu'[r][i], gpu'[r][j])
    <3>1. CASE r # q
      BY <1>0, <1>2, <2>3, <3>1, Zenon DEF GpuSound
    <3>2. CASE r = q /\ j = n
      <4>1. ~(n < n)
        BY <1>5
      <4>2. i \in DOMAIN g
        BY <1>5, <2>3, <3>2, <4>1, Zenon
      <4> QED
        BY <1>5, <2>2, <3>2, <4>2, Zenon
    <3>3. CASE r = q /\ j # n
      <4>1. i \in DOMAIN g /\ j \in DOMAIN g /\ gpu'[r][i] = g[i] /\ gpu'[r][j] = g[j]
        BY <1>5, <2>3, <3>3, Zenon
      <4> QED
        BY <1>0, <1>1, <1>4, <2>3, <4>1, Zenon DEF GpuSound
    <3> QED
      BY <3>1, <3>2, <3>3, Zenon
  <2>4. \A r \in Queues : \A i, j \in DOMAIN gpu'[r] : i < j => Follows(gpu[r][i], gpu[r][j])'
    BY <2>3, Zenon DEF Follows
  <2> QED
    BY <2>1, <2>4, Zenon DEF GpuSound
<1>12. End(e) = at + Units[w] /\ End(e) <= write'[q] /\ write[q] <= write'[q] /\ read[q] <= at
       /\ read[q] <= write'[q] /\ write'[q] < read[q] + RingUnits
  <2>1. read[q] <= write[q] /\ End(e) = at + Units[w]
    BY <1>0, <1>1, Zenon DEF RingSound, End
  <2> QED
    BY SMTT(20), <1>1, <1>3, <2>1
<1>13. ASSUME NEW i \in DOMAIN g
       PROVE  /\ End(g[i]) <= write[q] /\ End(g[i]) <= write'[q] /\ End(g[i]) <= at
              /\ ~g[i].fetched => read[q] <= g[i].at
  <2>1. End(g[i]) <= write[q] /\ (~g[i].fetched => read[q] <= g[i].at) /\ End(g[i]) \in Nat
    BY <1>0, <1>1, <1>4, EntryTyped, Zenon DEF RingSound
  <2> QED
    BY <1>1, <1>3, <2>1
<1>14. RingSound'
  <2> SUFFICES ASSUME NEW r \in Queues
               PROVE  /\ read[r] <= write'[r] /\ write'[r] < read[r] + RingUnits
                      /\ \A i \in DOMAIN gpu'[r] : End(gpu'[r][i]) <= write'[r] /\ (~gpu'[r][i].fetched => read[r] <= gpu'[r][i].at)
                      /\ \A i, j \in DOMAIN gpu'[r] : i < j => End(gpu'[r][i]) <= gpu'[r][j].at
    BY <1>1, Zenon DEF RingSound, End
  <2>1. CASE r # q
    BY <1>0, <1>2, <2>1, Zenon DEF RingSound
  <2>2. CASE r = q
    <3>1. \A i \in DOMAIN gpu'[q] : End(gpu'[q][i]) <= write'[q] /\ (~gpu'[q][i].fetched => read[q] <= gpu'[q][i].at)
      BY <1>1, <1>5, <1>12, <1>13, ZenonT(40)
    <3>2. ASSUME NEW i \in DOMAIN gpu'[q], NEW j \in DOMAIN gpu'[q], i < j PROVE End(gpu'[q][i]) <= gpu'[q][j].at
      <4>1. CASE j = n
        <5>1. ~(n < n)
          BY <1>5
        <5>2. i \in DOMAIN g
          BY <1>5, <3>2, <4>1, <5>1, Zenon
        <5> QED
          BY <1>1, <1>5, <1>13, <4>1, <5>2, Zenon
      <4>2. CASE j # n
        <5>1. i \in DOMAIN g /\ j \in DOMAIN g /\ gpu'[q][i] = g[i] /\ gpu'[q][j] = g[j]
          BY <1>5, <3>2, <4>2, Zenon
        <5> QED
          BY <1>0, <1>1, <1>4, <3>2, <5>1, Zenon DEF RingSound
      <4> QED
        BY <4>1, <4>2, Zenon
    <3> QED
      BY <1>12, <2>2, <3>1, <3>2, Zenon
  <2> QED
    BY <2>1, <2>2, Zenon
<1>15. /\ \A k \in at .. at + Units[w] - 1 : ring'[q][k % RingUnits] = p
       /\ \A k \in Nat : read[q] <= k /\ k < write[q] => ring'[q][k % RingUnits] = ring[q][k % RingUnits]
  BY PublishedRing
<1>16. \A r \in Queues : \A i \in DOMAIN gpu[r] : ~gpu[r][i].fetched => Whole(r, gpu[r][i])
  BY <1>0, Zenon DEF RingIntact, Whole
<1>17. ASSUME NEW r \in Queues, NEW i \in DOMAIN gpu'[r], ~gpu'[r][i].fetched, NEW x, x = gpu'[r][i]
       PROVE  Whole(r, x)'
  <2>1. CASE r # q
    <3>1. i \in DOMAIN gpu[r] /\ x = gpu[r][i] /\ ~gpu[r][i].fetched /\ ring'[r] = ring[r]
      BY <1>2, <1>17, <2>1, Zenon
    <3>2. Whole(r, x)
      BY <1>16, <3>1, Zenon
    <3> QED
      BY <3>1, <3>2, Zenon DEF Whole
  <2>2. CASE r = q /\ i = n
    <3>1. x = e
      BY <1>5, <1>17, <2>2, Zenon
    <3> QED
      BY <1>1, <1>15, <2>2, <3>1, Zenon DEF Whole
  <2>3. CASE r = q /\ i # n
    <3>1. i \in DOMAIN gpu[q] /\ x = gpu[q][i] /\ ~gpu[q][i].fetched
      BY <1>4, <1>5, <1>17, <2>3, Zenon
    <3>2. PICK lo, m : lo = x.at /\ m = Units[x.point.work]
      BY Zenon
    <3>3. Whole(q, x)
      BY <1>1, <1>16, <3>1, Zenon
    <3>4. lo \in Nat /\ m \in Nat /\ read[q] <= lo /\ lo + m <= write[q]
      <4>1. End(gpu[q][i]) = lo + m /\ lo \in Nat /\ m \in Nat
        BY <1>0, <1>1, <3>1, <3>2, EntryTyped, Zenon
      <4> QED
        BY <1>4, <1>13, <3>1, <3>2, <4>1, Zenon
    <3>5. ASSUME NEW k \in lo .. lo + m - 1 PROVE ring'[q][k % RingUnits] = ring[q][k % RingUnits]
      <4>1. k \in Nat /\ read[q] <= k /\ k < write[q]
        BY <1>3, <3>4
      <4> QED
        BY <1>15, <4>1, Zenon
    <3> QED
      BY <2>3, <3>2, <3>3, <3>5, Zenon DEF Whole
  <2> QED
    BY <2>1, <2>2, <2>3, Zenon
<1>18. RingIntact'
  <2>1. ASSUME NEW r \in Queues, NEW i \in DOMAIN gpu'[r], ~gpu'[r][i].fetched PROVE Whole(r, gpu[r][i])'
    <3>1. PICK x : x = gpu'[r][i]
      BY Zenon
    <3>2. Whole(r, x)'
      BY <1>17, <2>1, <3>1, Zenon
    <3> QED
      BY <3>1, <3>2, Zenon DEF Whole
  <2> QED
    BY <2>1, Zenon DEF RingIntact, Whole
<1> QED
  BY <1>6, <1>11, <1>14, <1>18, Zenon

LEMMA PublishedTimes ==
  ASSUME Inv, NEW t \in Threads, Publish(t), NEW w, NEW q, NEW p, NEW at, NEW e,
         Publishes(t, w, q, p, at, e)
  PROVE  previous' \in [Works -> Nat] /\ TimesSound' /\ \A x \in Works : previous'[x] >= previous[x]
<1>0. Sized /\ Typed /\ TimesSound
  BY Zenon DEF Inv
<1>1. /\ w \in Works /\ previous[w] \in Nat /\ previous[w] < TimelineMax /\ Admitted(q, w)
      /\ p.value = previous[w] + 1
      /\ previous'[w] = previous[w] + 1 /\ \A x \in Works : x # w => previous'[x] = previous[x]
      /\ UNCHANGED <<read, pending, fence, active, retired, leases, deps, lost, phase>>
  BY Zenon DEF Publishes
<1>2. previous \in [Works -> Nat] /\ TimelineMax \in Nat
  BY <1>0, Zenon DEF Typed, Sized
<1>3. previous' = [previous EXCEPT ![w] = p.value]
  BY Zenon DEF Publish, Publishes, NextPoint
<1>4. previous' \in [Works -> Nat]
  BY <1>1, <1>2, <1>3
<1>5. \A x \in Works : previous'[x] >= previous[x]
  BY <1>1, <1>2
<1>6. ASSUME NEW x \in Works
      PROVE  /\ retired[x] <= fence[x] /\ fence[x] <= previous'[x] /\ previous'[x] <= active[x]
             /\ previous'[x] <= TimelineMax /\ (fence[x] < active[x] => leases[x] = Operands[x])
  <2>1. /\ retired[x] <= fence[x] /\ fence[x] <= previous[x] /\ previous[x] <= active[x]
        /\ previous[x] <= TimelineMax /\ (fence[x] < active[x] => leases[x] = Operands[x])
        /\ fence[x] \in Nat /\ active[x] \in Nat
    BY <1>0, Zenon DEF TimesSound, Typed
  <2>2. CASE x # w
    BY <1>1, <2>1, <2>2, Zenon
  <2>3. CASE x = w
    <3>1. active[w] = previous[w] + 1
      BY <1>1, Zenon DEF Admitted
    <3>2. fence[w] <= previous[w] + 1 /\ previous[w] + 1 <= active[w] /\ previous[w] + 1 <= TimelineMax
      BY <1>1, <1>2, <2>1, <2>3, <3>1
    <3> QED
      BY <1>1, <2>1, <2>3, <3>2, Zenon
  <2> QED
    BY <2>2, <2>3, Zenon
<1>7. TimesSound'
  BY <1>1, <1>6, Zenon DEF TimesSound
<1> QED
  BY <1>4, <1>5, <1>7, Zenon

LEMMA PublishedHistory ==
  ASSUME Inv, NEW t \in Threads, Publish(t), NEW w, NEW q, NEW p, NEW at, NEW e,
         Publishes(t, w, q, p, at, e), \A u \in Threads : u # t => op'[u] = op[u]
  PROVE  history' \in [Queues -> Seq(Points)] /\ HistorySound' /\ PendingSound'
<1>0. Sized /\ Typed /\ HistorySound /\ PendingSound
  BY Zenon DEF Inv
<1>1. /\ w \in Works /\ q \in Queues /\ p \in Points /\ p.work = w /\ p.value = previous[w] + 1
      /\ previous[w] \in Nat /\ Admitted(q, w) /\ p = NextPoint(w) /\ q = QueueFor(t)
      /\ history'[q] = Append(history[q], p) /\ \A r \in Queues : r # q => history'[r] = history[r]
      /\ previous'[w] = previous[w] + 1
      /\ UNCHANGED <<read, pending, fence, active, retired, leases, deps, lost, phase>>
  BY Zenon DEF Publishes
<1>2. history \in [Queues -> Seq(Points)] /\ history[q] \in Seq(Points) /\ pending[q] \in Seq(Points)
  BY <1>0, <1>1, Zenon DEF Typed
<1>3. PICK h, a, n : h = history[q] /\ a = Append(h, p) /\ n = Len(h) + 1
  BY Zenon
<1>4. /\ a \in Seq(Points) /\ a[n] = p /\ n \in DOMAIN a /\ n \in Nat /\ Len(a) = n /\ Len(h) \in Nat
      /\ \A i \in DOMAIN h : i \in DOMAIN a /\ a[i] = h[i] /\ i < n /\ ~(n < i)
      /\ \A i \in DOMAIN a : i \in DOMAIN h \/ i = n
      /\ DOMAIN h = 1 .. Len(h)
  <2>1. h \in Seq(Points) /\ p \in Points
    BY <1>1, <1>2, <1>3, Zenon
  <2>2. a = Append(h, p) /\ n = Len(h) + 1
    BY <1>3, Zenon
  <2> QED
    BY <2>1, <2>2
<1>5. history'[q] = a
  BY <1>1, <1>3, Zenon
<1>6. history' \in [Queues -> Seq(Points)]
  <2>1. \E x : history' = [history EXCEPT ![q] = x]
    BY Zenon DEF Publish, Publishes
  <2> QED
    BY <1>1, <1>2, <1>4, <1>5, <2>1, Zenon
<1>7. previous' \in [Works -> Nat] /\ \A x \in Works : previous'[x] >= previous[x]
  BY PublishedTimes
<1>8. ASSUME NEW r \in Queues, NEW i \in DOMAIN history[r]
      PROVE  /\ history[r][i].work \in Works /\ history[r][i].value \in Nat
             /\ history[r][i].value <= previous[history[r][i].work]
             /\ history[r][i].value <= previous'[history[r][i].work]
  <2>1. history[r] \in Seq(Points)
    BY <1>2, Zenon
  <2>2. history[r][i] \in Points
    BY <2>1
  <2>3. history[r][i].work \in Works /\ history[r][i].value \in Nat
    BY <2>2 DEF Points
  <2>4. history[r][i].value <= previous[history[r][i].work] /\ previous[history[r][i].work] \in Nat
        /\ previous'[history[r][i].work] \in Nat
        /\ previous'[history[r][i].work] >= previous[history[r][i].work]
    BY <1>0, <1>7, <2>3, Zenon DEF HistorySound, Typed
  <2> QED
    BY <2>3, <2>4
<1>9. HistorySound'
  <2>1. \A i \in DOMAIN a : a[i].value <= previous'[a[i].work]
    <3>1. p.value <= previous'[p.work]
      BY <1>1
    <3>2. \A i \in DOMAIN h : h[i].value <= previous'[h[i].work]
      BY <1>1, <1>3, <1>8, Zenon
    <3>3. ASSUME NEW i \in DOMAIN a PROVE a[i].value <= previous'[a[i].work]
      <4>1. CASE i = n
        <5>1. a[i] = p
          BY <1>4, <4>1, Zenon
        <5> QED
          BY <3>1, <5>1, Zenon
      <4>2. CASE i \in DOMAIN h
        <5>1. a[i] = h[i]
          BY <1>4, <4>2, Zenon
        <5> QED
          BY <3>2, <4>2, <5>1, Zenon
      <4> QED
        BY <1>4, <4>1, <4>2, Zenon
    <3> QED
      BY <3>3, Zenon
  <2>2. ASSUME NEW i \in DOMAIN a, NEW j \in DOMAIN a, i < j, a[i].work = a[j].work
        PROVE  a[i].value < a[j].value
    <3>1. CASE j = n
      <4>1. i \in DOMAIN h
        <5>1. ~(n < n)
          BY <1>4
        <5> QED
          BY <1>4, <2>2, <3>1, <5>1, Zenon
      <4>2. h[i].value \in Nat /\ h[i].value <= previous[w]
        <5>1. a[i] = h[i] /\ a[j] = p
          BY <1>4, <3>1, <4>1, Zenon
        <5>2. h[i].work = w
          BY <1>1, <2>2, <5>1, Zenon
        <5> QED
          BY <1>1, <1>3, <1>8, <4>1, <5>2, Zenon
      <4>3. h[i].value < p.value
        BY <1>1, <4>2
      <4> QED
        BY <1>4, <3>1, <4>1, <4>3, Zenon
    <3>2. CASE j # n
      <4>1. i \in DOMAIN h /\ j \in DOMAIN h /\ a[i] = h[i] /\ a[j] = h[j]
        BY <1>4, <2>2, <3>2, Zenon
      <4> QED
        BY <1>0, <1>1, <1>3, <2>2, <4>1, ZenonT(30) DEF HistorySound
    <3> QED
      BY <3>1, <3>2, Zenon
  <2> SUFFICES ASSUME NEW r \in Queues
               PROVE  /\ \A i \in DOMAIN history'[r] : history'[r][i].value <= previous'[history'[r][i].work]
                      /\ \A i, j \in DOMAIN history'[r] : i < j /\ history'[r][i].work = history'[r][j].work =>
                           history'[r][i].value < history'[r][j].value
    BY Zenon DEF HistorySound
  <2>3. CASE r = q
    BY <1>5, <2>1, <2>2, <2>3, Zenon
  <2>4. CASE r # q
    <3>1. history'[r] = history[r]
      BY <1>1, <2>4, Zenon
    <3>2. \A i, j \in DOMAIN history[r] : i < j /\ history[r][i].work = history[r][j].work =>
            history[r][i].value < history[r][j].value
      BY <1>0, Zenon DEF HistorySound
    <3> QED
      BY <1>8, <3>1, <3>2, Zenon
  <2> QED
    BY <2>3, <2>4, Zenon
<1>10. ASSUME NEW r \in Queues, r # q PROVE \E o \in 0 .. Len(history'[r]) : Pending(r, o)'
  <2>1. PICK o \in 0 .. Len(history[r]) : Pending(r, o)
    BY <1>0, Zenon DEF PendingSound
  <2>2. pending'[r] = pending[r] /\ history'[r] = history[r]
    BY <1>1, <1>10, Zenon
  <2>3. Publishing(r) => Publishing(r)'
    <3> SUFFICES ASSUME NEW u \in Threads, op[u].pc = "publish", QueueFor(u) = r PROVE Publishing(r)'
      BY Zenon DEF Publishing
    <3>1. op'[u] = op[u]
      BY <1>1, <1>10, Zenon
    <3>2. op'[u].pc = "publish" /\ QueueFor(u)' = r
      BY <3>1, Zenon DEF QueueFor, WorkOf
    <3> QED
      BY <3>2, Zenon DEF Publishing
  <2>4. \A x \in Works : retired'[x] \in Nat /\ retired'[x] >= retired[x]
    BY <1>0, <1>1, Same, Zenon
  <2>5. Pending(r, o)'
    BY <1>0, <2>1, <2>2, <2>3, <2>4, PendingStays, Zenon
  <2> QED
    BY <2>2, <2>5, Zenon
<1>11. \E o \in 0 .. Len(history'[q]) : Pending(q, o)'
  <2>1. PICK o \in 0 .. Len(h) : Pending(q, o)
    BY <1>0, <1>1, <1>3, Zenon DEF PendingSound
  <2>2. PICK b : b = pending[q]
    BY Zenon
  <2>3. b \in Seq(Points) /\ Len(b) \in Nat /\ Len(b) > 0 /\ b[Len(b)] = p
    <3>1. b \in Seq(Points) /\ Len(b) > 0 /\ b[Len(b)] = p
      BY <1>1, <1>2, <2>2, Zenon DEF Admitted
    <3> QED
      BY <3>1
  <2>4. /\ \A i \in 1 .. o : retired[h[i].work] >= h[i].value
        /\ \A i \in o + 1 .. Len(h) : i - o <= Len(b) /\ b[i - o] = h[i]
        /\ Len(b) = Len(h) - o \/ Len(b) = Len(h) - o + 1
    BY <1>3, <2>1, <2>2, Zenon DEF Pending
  <2>5. Len(b) # Len(h) - o
    <3> SUFFICES ASSUME Len(b) = Len(h) - o PROVE FALSE
      BY Zenon
    <3>1. Len(h) \in o + 1 .. Len(h) /\ Len(h) \in DOMAIN h
      BY <1>4, <2>3
    <3>2. h[Len(h)] = p
      BY <2>3, <2>4, <3>1, Zenon
    <3>3. p.value <= previous[w]
      BY <1>1, <1>3, <1>8, <3>1, <3>2, Zenon
    <3> QED
      BY <1>1, <3>3
  <2>6. Len(b) = n - o /\ o \in 0 .. n
    <3>1. Len(b) = Len(h) - o + 1 /\ n = Len(h) + 1
      BY <1>3, <2>4, <2>5, Zenon
    <3> QED
      BY <1>4, <3>1
  <2>7. ASSUME NEW i \in o + 1 .. n PROVE i - o <= Len(b) /\ b[i - o] = a[i]
    <3>1. CASE i = n
      BY <1>4, <2>3, <2>6, <3>1
    <3>2. CASE i # n
      <4>1. i \in o + 1 .. Len(h) /\ i \in DOMAIN h
        <5>1. n = Len(h) + 1
          BY <1>3, Zenon
        <5> QED
          BY <1>4, <3>2, <5>1
      <4> QED
        BY <1>4, <2>4, <4>1, Zenon
    <3> QED
      BY <3>1, <3>2, Zenon
  <2>8. \A i \in 1 .. o : a[i] = h[i]
    <3>1. \A i \in 1 .. o : i \in DOMAIN h
      BY <1>4
    <3> QED
      BY <1>4, <3>1, Zenon
  <2>9. Pending(q, o)'
    BY <1>1, <1>4, <1>5, <2>2, <2>4, <2>6, <2>7, <2>8, Zenon DEF Pending
  <2> QED
    BY <1>4, <1>5, <2>6, <2>9, Zenon
<1>12. PendingSound'
  BY <1>10, <1>11, Zenon DEF PendingSound
<1> QED
  BY <1>6, <1>9, <1>12, Zenon

LEMMA PublishedDeps ==
  ASSUME Inv, NEW t \in Threads, Publish(t), NEW w, NEW q, NEW p, NEW at, NEW e,
         Publishes(t, w, q, p, at, e)
  PROVE  DepsSound'
<1>0. Sized /\ Typed /\ ThreadsSound /\ DepsSound
  BY Zenon DEF Inv
<1>1. /\ w \in Works /\ q \in Queues /\ p \in Points /\ p.work = w /\ p.value = previous[w] + 1
      /\ previous[w] \in Nat /\ w = WorkOf(t) /\ Dispatching(t)
      /\ history'[q] = Append(history[q], p) /\ \A r \in Queues : r # q => history'[r] = history[r]
      /\ \A x \in Works : x # w => previous'[x] = previous[x]
      /\ UNCHANGED <<read, pending, fence, active, retired, leases, deps, lost, phase>>
  BY Zenon DEF Publishes
<1>2. previous' \in [Works -> Nat] /\ \A x \in Works : previous'[x] >= previous[x]
  BY PublishedTimes
<1>3. \A x : Dependencies(x)' = Dependencies(x)
  BY <1>1, Zenon DEF Dependencies
<1>4. ASSUME NEW x \in Points, previous[x.work] >= x.value
      PROVE  /\ previous'[x.work] >= x.value
             /\ \A r \in Queues : Before(r, x)' = Before(r, x)
  <2>1. x.work \in Works /\ x.value \in Nat
    BY DEF Points
  <2>2. previous[x.work] \in Nat /\ previous'[x.work] \in Nat /\ previous'[x.work] >= previous[x.work]
    BY <1>0, <1>2, <2>1, Zenon DEF Typed
  <2>3. previous'[x.work] >= x.value
    BY <1>4, <2>1, <2>2
  <2>4. x # p
    <3> SUFFICES ASSUME x = p PROVE FALSE
      BY Zenon
    <3>1. previous[w] >= previous[w] + 1
      BY <1>1, <1>4, Zenon
    <3> QED
      BY <1>1, <3>1
  <2>5. Before(q, x)' = Before(q, x)
    <3>1. PICK h, a, n : h = history[q] /\ a = Append(h, p) /\ n = Len(h) + 1
      BY Zenon
    <3>2. h \in Seq(Points)
      BY <1>0, <1>1, <3>1, Zenon DEF Typed
    <3>3. /\ a[n] = p /\ \A i \in DOMAIN h : i \in DOMAIN a /\ a[i] = h[i] /\ ~(n <= i)
          /\ \A i \in DOMAIN a : i \in DOMAIN h \/ i = n
      <4>1. a = Append(h, p) /\ n = Len(h) + 1 /\ p \in Points
        BY <1>1, <3>1, Zenon
      <4> QED
        BY <3>2, <4>1
    <3>4. ASSUME NEW y
          PROVE  (\E i \in DOMAIN a : a[i] = y /\ \E j \in DOMAIN a : a[j] = x /\ i <= j) <=>
                 (\E i \in DOMAIN h : h[i] = y /\ \E j \in DOMAIN h : h[j] = x /\ i <= j)
      <4>1. ASSUME NEW i \in DOMAIN a, NEW j \in DOMAIN a, a[i] = y, a[j] = x, i <= j
            PROVE  i \in DOMAIN h /\ j \in DOMAIN h /\ h[i] = y /\ h[j] = x
        <5>1. j \in DOMAIN h
          BY <2>4, <3>3, <4>1, Zenon
        <5>2. i \in DOMAIN h
          BY <3>3, <4>1, <5>1, Zenon
        <5> QED
          BY <3>3, <4>1, <5>1, <5>2, Zenon
      <4>2. ASSUME NEW i \in DOMAIN h, NEW j \in DOMAIN h, h[i] = y, h[j] = x, i <= j
            PROVE  i \in DOMAIN a /\ j \in DOMAIN a /\ a[i] = y /\ a[j] = x
        BY <3>3, <4>2, Zenon
      <4> QED
        BY <4>1, <4>2, Zenon
    <3>5. history[q] = h /\ history'[q] = a
      BY <1>1, <3>1, Zenon
    <3> QED
      BY <3>4, <3>5, Zenon DEF Before
  <2>6. \A r \in Queues : r # q => Before(r, x)' = Before(r, x)
    BY <1>1, Zenon DEF Before
  <2> QED
    BY <2>3, <2>5, <2>6, Zenon
<1>5. ASSUME NEW v \in Waits, deps[v] # None PROVE WaitSound(v, deps[v].event, deps[v].all)'
  <2>1. deps[v] \in Deps
    BY <1>0, <1>5, Zenon DEF Typed
  <2>2. deps[v].event \in Points /\ deps[v].all \in SUBSET Points
    BY <2>1 DEF Deps
  <2>3. PICK x, all : x = deps[v].event /\ all = deps[v].all
    BY Zenon
  <2>4. x \in Points /\ all \in SUBSET Points /\ WaitSound(v, x, all)
    BY <1>0, <1>5, <2>2, <2>3, Zenon DEF DepsSound
  <2>5. x.work \in Works
    BY <2>4 DEF Points
  <2>6. QueueOf[x.work] \in Queues
    BY <1>0, <2>5, Zenon DEF Sized
  <2>7. /\ previous[x.work] >= x.value
        /\ \A d \in all : previous[d.work] >= d.value /\ Dependencies(d.work) \subseteq all
        /\ \A d \in Before(QueueOf[x.work], x) : retired[d.work] >= d.value \/ d \in all
        /\ retired[v] > 0 => \A d \in all : retired[d.work] >= d.value
    BY <2>4, Zenon DEF WaitSound
  <2>8. previous'[x.work] >= x.value /\ Before(QueueOf[x.work], x)' = Before(QueueOf[x.work], x)
    BY <1>4, <2>4, <2>6, <2>7, Zenon
  <2>9. \A d \in all : previous'[d.work] >= d.value /\ Dependencies(d.work)' \subseteq all
    BY <1>3, <1>4, <2>4, <2>7, Zenon
  <2>10. WaitSound(v, x, all)'
    BY <1>1, <2>7, <2>8, <2>9, Zenon DEF WaitSound
  <2> QED
    BY <1>1, <2>3, <2>10, Zenon DEF WaitSound
<1>6. ASSUME NEW v \in Waits, deps[v] = None PROVE previous'[v] = 0
  <2>1. v \in Works /\ v # w /\ previous[v] = 0
    BY <1>0, <1>1, <1>6, Subject, Zenon DEF DepsSound, Sized
  <2> QED
    BY <1>1, <2>1, Zenon
<1>7. deps' = deps
  BY <1>1, Zenon
<1>8. DepsSound' <=> \A v \in Waits : /\ deps[v] = None => previous'[v] = 0
                                      /\ deps[v] # None => WaitSound(v, deps[v].event, deps[v].all)'
  BY <1>7, Zenon DEF DepsSound, WaitSound
<1> QED
  BY <1>5, <1>6, <1>8, Zenon

\* The publisher returns, or goes on with the next part of its command.
LEMMA PublishedMoves ==
  ASSUME Inv, NEW t \in Threads, Publish(t), NEW w, NEW q, NEW p, NEW at, NEW e,
         Publishes(t, w, q, p, at, e)
  PROVE  /\ op' \in [Threads -> Ops] /\ \A u \in Threads : u # t => op'[u] = op[u]
         /\ op'[t].pc \in {"idle", "begin"}
         /\ op'[t].pc = "begin" => /\ op'[t].command = op[t].command /\ op'[t].guard = op[t].guard
                                   /\ op'[t].part <= Len(op[t].command)
<1>0. Sized /\ Typed
  BY Zenon DEF Inv
<1>1. p \in Points /\ Dispatching(t) /\ ThreadSound(t) /\ p = [work |-> WorkOf(t), value |-> previous[WorkOf(t)] + 1]
  BY Zenon DEF Publishes, NextPoint
<1>2. "idle" # "begin" /\ "begin" \in {"idle", "begin"} /\ "idle" \in {"idle", "begin"}
      /\ "begin" \in Inside \union {"begin", "settle"}
  OBVIOUS
<1>3. CASE Return(t)
  BY <1>0, <1>2, <1>3, Returns, Zenon DEF Moves
<1>4. CASE op[t].part # Len(op[t].command) /\ Become(t, [op[t] EXCEPT !.pc = "begin", !.part = @ + 1, !.last = p])
  <2>1. op[t] \in Pieces /\ op[t].command \in Seq(Works) /\ op[t].part \in Nat \ {0}
    BY <1>0, <1>1, Shapes, Zenon
  <2>2. PICK n : n = op[t].part + 1
    BY Zenon
  <2>3. n \in Nat \ {0} /\ n <= Len(op[t].command)
    <3>1. op[t].part <= Len(op[t].command)
      BY <1>1, Zenon DEF ThreadSound
    <3>2. Len(op[t].command) \in Nat
      BY <2>1
    <3> QED
      BY <1>4, <2>1, <2>2, <3>1, <3>2
  <2>4. PICK r : r = [op[t] EXCEPT !.pc = "begin", !.part = n, !.last = p]
    BY Zenon
  <2>5. r \in Pieces /\ r.pc = "begin" /\ r.command = op[t].command /\ r.guard = op[t].guard /\ r.part = n
    BY <1>1, <1>2, <2>1, <2>3, <2>4, Zenon DEF Pieces
  <2>6. Become(t, r)
    BY <1>4, <2>2, <2>4, Zenon
  <2>7. r \in Ops
    BY <2>5, Zenon DEF Ops
  <2>8. op'[t] = r /\ op' \in [Threads -> Ops] /\ \A u \in Threads : u # t => op'[u] = op[u]
    BY <1>0, <2>6, <2>7, Replaced, Zenon
  <2> QED
    BY <1>2, <2>3, <2>5, <2>8, Zenon
<1>5. Return(t) \/ (op[t].part # Len(op[t].command)
                    /\ Become(t, [op[t] EXCEPT !.pc = "begin", !.part = @ + 1, !.last = p]))
  BY <1>1, Zenon DEF Publish
<1> QED
  BY <1>3, <1>4, <1>5, Zenon

LEMMA StepPublish ==
  ASSUME Inv, NEW t \in Threads, Publish(t)
  PROVE  Inv'
<1>0. Sized /\ Typed /\ ThreadsSound /\ Exclusive
  BY Zenon DEF Inv
<1>1. PICK w, q, p, at, e : Publishes(t, w, q, p, at, e)
  BY Publication, Zenon
<1>2. /\ op' \in [Threads -> Ops] /\ \A u \in Threads : u # t => op'[u] = op[u]
      /\ op'[t].pc \in {"idle", "begin"}
      /\ op'[t].pc = "begin" => /\ op'[t].command = op[t].command /\ op'[t].guard = op[t].guard
                                /\ op'[t].part <= Len(op[t].command)
  BY <1>1, PublishedMoves, Zenon
<1>3. previous' \in [Works -> Nat] /\ TimesSound'
  BY <1>1, PublishedTimes, Zenon
<1>4. history' \in [Queues -> Seq(Points)] /\ HistorySound' /\ PendingSound'
  BY <1>1, <1>2, PublishedHistory, Zenon
<1>5. DepsSound'
  BY <1>1, PublishedDeps, Zenon
<1>6. gpu' \in [Queues -> Seq(Entries)] /\ GpuSound' /\ RingSound' /\ RingIntact'
  BY <1>1, PublishedGpu, Zenon
<1>7. ring' \in [Queues -> [0 .. RingUnits - 1 -> Points \union {None}]]
  BY <1>1, PublishedRing, Zenon
<1>8. /\ w = WorkOf(t) /\ q = QueueFor(t) /\ w \in Works /\ q \in Queues /\ at \in Nat /\ Units[w] \in Nat \ {0}
      /\ at = write[q] + Wrap(q, Units[w])
      /\ op[t].pc = "publish" /\ Dispatching(t) /\ ThreadSound(t)
      /\ \A r \in Queues : r # q => write'[r] = write[r]
      /\ \A x \in Works : x # w => previous'[x] = previous[x]
      /\ UNCHANGED <<read, pending, fence, active, retired, leases, deps, lost, phase>>
  BY <1>1, Zenon DEF Publishes
<1>9. op[t].pc \in {"room", "publish"} /\ op[t].pc \in Inside
  BY <1>8, Places, Zenon
<1>10. /\ producer' \in [Queues -> Threads \union {None}]
       /\ \A u \in Threads : u # t /\ op[u].pc \in {"room", "publish"} =>
            producer'[QueueFor(u)] = producer[QueueFor(u)] /\ QueueFor(u) # q
  <2>1. Unlock(t)
    BY Zenon DEF Publish
  <2> QED
    BY <1>0, <1>8, <1>9, <2>1, Unlocks, Zenon
<1>11. write' \in [Queues -> Nat]
  <2>1. at + Units[w] \in Nat
    BY <1>8
  <2>2. write' = [write EXCEPT ![q] = at + Units[w]]
    BY <1>8, Zenon DEF Publish
  <2>3. write \in [Queues -> Nat]
    BY <1>0, Zenon DEF Typed
  <2> QED
    BY <1>8, <2>1, <2>2, <2>3, Zenon
<1>12. Typed'
  BY <1>0, <1>2, <1>3, <1>4, <1>6, <1>7, <1>8, <1>10, <1>11, Zenon DEF Typed
<1>13. op'[t].pc \notin Inside /\ op'[t].pc \notin {"room", "publish"} /\ op'[t].pc # "publish"
       /\ op'[t].pc \notin {"await", "settle"}
  <2>1. \A x \in {"idle", "begin"} : x \in {"idle", "settle", "begin", "wait"} /\ x \notin {"await", "settle"}
                                     /\ x \in {"idle", "settle", "begin", "wait", "reap", "await"}
    OBVIOUS
  <2> QED
    BY <1>2, <2>1, Places, Zenon
<1>14. Exclusive'
  BY <1>0, <1>2, <1>13, ExclusiveOutside, Zenon
<1>15. ThreadsSound'
  <2>1. ASSUME Dispatching(t)' PROVE ThreadSound(t)'
    <3>1. op'[t].pc = "begin"
      BY <1>2, <2>1, Zenon DEF Dispatching
    <3>2. /\ op[t].guard = Guard(op[t].command) /\ Prepared(op[t].command) /\ Alive(op[t].command)
      BY <1>8, Zenon DEF ThreadSound
    <3>3. PICK c : c = op[t].command
      BY Zenon
    <3>4. op'[t].command = c /\ op'[t].guard = Guard(c) /\ op'[t].part <= Len(c) /\ Prepared(c) /\ Alive(c)
      BY <1>2, <3>1, <3>2, <3>3, Zenon
    <3>5. Prepared(c)' /\ Alive(c)'
      BY <1>8, <3>4, Zenon DEF Prepared, Alive
    <3>6. Prepared(op[t].command)' /\ Alive(op[t].command)'
      BY <3>4, <3>5, Zenon DEF Prepared, Alive
    <3>7. op'[t].guard = Guard(op'[t].command)
      BY <3>4, Zenon
    <3> QED
      BY <1>13, <3>4, <3>6, <3>7, Zenon DEF ThreadSound, Guard
  <2>2. ASSUME NEW u \in Threads, u # t, Dispatching(u)' PROVE ThreadSound(u)'
    <3>1. op'[u] = op[u] /\ Dispatching(u)
      BY <1>2, <2>2, Zenon DEF Dispatching
    <3>2. WorkOf(u) \in Works /\ QueueFor(u) \in Queues
      BY <1>0, <3>1, Subject, Zenon
    <3>3. op[u].pc \in Inside => previous'[WorkOf(u)] = previous[WorkOf(u)]
      BY <1>0, <1>8, <1>9, <2>2, <3>2, Zenon DEF Exclusive
    <3>4. op[u].pc \in {"room", "publish"} => producer'[QueueFor(u)] = producer[QueueFor(u)]
      BY <1>10, <2>2, Zenon
    <3>5. op[u].pc = "publish" =>
            /\ active'[WorkOf(u)] = active[WorkOf(u)]
            /\ pending'[QueueFor(u)] = pending[QueueFor(u)]
            /\ write'[QueueFor(u)] = write[QueueFor(u)] /\ read'[QueueFor(u)] >= read[QueueFor(u)]
      <4>1. op[u].pc = "publish" => QueueFor(u) # q
        BY <1>10, <2>2, Zenon
      <4>2. read[QueueFor(u)] \in Nat
        BY <1>0, <3>2, Zenon DEF Typed
      <4>3. read[QueueFor(u)] >= read[QueueFor(u)]
        BY <4>2
      <4> QED
        BY <1>8, <3>2, <4>1, <4>3, Zenon
    <3> QED
      BY <1>0, <1>8, <1>12, <3>1, <3>3, <3>4, <3>5, Stays, Zenon
  <2> QED
    BY <2>1, <2>2, Zenon DEF ThreadsSound
<1> QED
  BY <1>0, <1>3, <1>4, <1>5, <1>6, <1>12, <1>14, <1>15, Zenon DEF Inv

-----------------------------------------------------------------------------
(* The GPU executes.                                                        *)

LEMMA StepExecute ==
  ASSUME Inv, NEW q \in Queues, Execute(q)
  PROVE  Inv'
<1>0. Sized /\ Typed /\ ThreadsSound /\ Exclusive /\ GpuSound /\ RingSound /\ RingIntact /\ TimesSound
  BY Zenon DEF Inv
<1>1. UNCHANGED <<write, read, ring, pending, producer, active, retired, previous,
                  leases, deps, op, lost, phase, history>> /\ gpu[q] # <<>>
  BY Zenon DEF Execute
<1>2. gpu[q] \in Seq(Entries) /\ gpu \in [Queues -> Seq(Entries)] /\ fence \in [Works -> Nat]
  BY <1>0, Zenon DEF Typed
<1>3. PICK g : g = Tail(gpu[q])
  BY Zenon
<1>4. /\ 1 \in DOMAIN gpu[q] /\ Head(gpu[q]) = gpu[q][1] /\ g \in Seq(Entries)
      /\ \A j \in DOMAIN g : j + 1 \in DOMAIN gpu[q] /\ g[j] = gpu[q][j + 1] /\ 1 < j + 1
      /\ \A j, k \in DOMAIN g : j < k => j + 1 < k + 1
  BY <1>1, <1>2, <1>3
<1>5. PICK p : p = gpu[q][1].point
  BY Zenon
<1>6. fence' = [fence EXCEPT ![p.work] = p.value] /\ gpu' = [gpu EXCEPT ![q] = g]
  BY <1>3, <1>4, <1>5, Zenon DEF Execute
<1>7. p.work \in Works /\ p.value \in Nat
  BY <1>0, <1>4, <1>5, EntryTyped, Zenon
<1>8. /\ fence' \in [Works -> Nat] /\ fence'[p.work] = p.value
      /\ \A w \in Works : w # p.work => fence'[w] = fence[w]
  BY <1>2, <1>6, <1>7, Zenon
<1>9. gpu'[q] = g /\ gpu' \in [Queues -> Seq(Entries)] /\ \A r \in Queues : r # q => gpu'[r] = gpu[r]
  BY <1>2, <1>4, <1>6, Zenon
<1>10. Typed'
  BY <1>0, <1>1, <1>8, <1>9, Zenon DEF Typed
<1>11. Runnable(q, p)
  BY <1>0, <1>4, <1>5, Zenon DEF GpuSound
<1>12. TimesSound'
  <2> SUFFICES ASSUME NEW w \in Works
               PROVE  /\ retired[w] <= fence'[w] /\ fence'[w] <= previous[w] /\ previous[w] <= active[w]
                      /\ previous[w] <= TimelineMax
                      /\ fence'[w] < active[w] => leases[w] = Operands[w]
    BY <1>1, Zenon DEF TimesSound
  <2>1. /\ retired[w] <= fence[w] /\ fence[w] <= previous[w] /\ previous[w] <= active[w]
        /\ previous[w] <= TimelineMax
        /\ fence[w] < active[w] => leases[w] = Operands[w]
    BY <1>0, Zenon DEF TimesSound
  <2>2. retired[w] \in Nat /\ fence[w] \in Nat /\ previous[w] \in Nat /\ active[w] \in Nat
    BY <1>0, Zenon DEF Typed
  <2>3. CASE w # p.work
    BY <1>8, <2>1, <2>3, Zenon
  <2>4. CASE w = p.work
    <3>1. fence[w] < p.value /\ p.value <= previous[w] /\ fence'[w] = p.value
      BY <1>8, <1>11, <2>4, Zenon DEF Runnable
    <3> QED
      BY <1>7, <2>1, <2>2, <3>1
  <2> QED
    BY <2>3, <2>4, Zenon
<1>13. ThreadsSound' /\ Exclusive'
  <2>1. \A r \in Queues : read'[r] >= read[r]
    BY <1>0, <1>1 DEF Typed
  <2> QED
    BY <1>0, <1>1, <1>10, <2>1, AllStay, Zenon
<1>14. \A r, x : Runnable(r, x) /\ fence'[x.work] < x.value => Runnable(r, x)'
  BY <1>1, Zenon DEF Runnable
<1>15. ASSUME NEW r \in Queues, NEW j \in DOMAIN gpu'[r]
       PROVE  Runnable(r, gpu'[r][j].point) /\ fence'[gpu'[r][j].point.work] < gpu'[r][j].point.value
  <2>1. CASE r # q
    <3>1. PICK x : x = gpu'[r][j].point
      BY Zenon
    <3>2. gpu'[r] = gpu[r] /\ j \in DOMAIN gpu[r]
      BY <1>9, <2>1, Zenon
    <3>3. Runnable(r, x)
      BY <1>0, <3>1, <3>2, Zenon DEF GpuSound
    <3>4. x.work # p.work /\ fence[x.work] < x.value
      BY <1>11, <2>1, <3>3, Zenon DEF Runnable
    <3>5. x.work \in Works
      BY <1>0, <3>1, <3>2, EntryTyped, Zenon
    <3> QED
      BY <1>8, <3>1, <3>3, <3>4, <3>5, Zenon
  <2>2. CASE r = q
    <3>1. PICK x : x = g[j].point
      BY Zenon
    <3>2. j \in DOMAIN g /\ g[j] = gpu[q][j + 1] /\ j + 1 \in DOMAIN gpu[q] /\ 1 < j + 1
      BY <1>4, <1>9, <2>2, Zenon
    <3>3. Runnable(q, x) /\ x.work \in Works
      BY <1>0, <3>1, <3>2, EntryTyped, Zenon DEF GpuSound
    <3>4. Follows(gpu[q][1], gpu[q][j + 1])
      BY <1>0, <1>4, <3>2, Zenon DEF GpuSound
    <3>5. p.work = x.work => p.value < x.value
      BY <1>5, <3>1, <3>2, <3>4, Zenon DEF Follows
    <3>6. fence'[x.work] < x.value
      BY <1>8, <3>3, <3>5, Zenon DEF Runnable
    <3> QED
      BY <1>9, <2>2, <3>1, <3>3, <3>6, Zenon
  <2> QED
    BY <2>1, <2>2, Zenon
<1>16. GpuSound'
  <2>1. \A r \in Queues : \A j \in DOMAIN gpu'[r] : Runnable(r, gpu[r][j].point)'
    <3> SUFFICES ASSUME NEW r \in Queues, NEW j \in DOMAIN gpu'[r] PROVE Runnable(r, gpu[r][j].point)'
      BY Zenon
    <3>1. PICK x : x = gpu'[r][j].point
      BY Zenon
    <3>2. Runnable(r, x)'
      BY <1>14, <1>15, <3>1, Zenon
    <3> QED
      BY <3>1, <3>2, Zenon DEF Runnable
  <2>2. ASSUME NEW r \in Queues, NEW j \in DOMAIN gpu'[r], NEW k \in DOMAIN gpu'[r], j < k
        PROVE  Follows(gpu'[r][j], gpu'[r][k])
    <3>1. CASE r # q
      BY <1>0, <1>9, <2>2, <3>1, Zenon DEF GpuSound
    <3>2. CASE r = q
      <4>1. /\ j + 1 \in DOMAIN gpu[q] /\ gpu'[r][j] = gpu[q][j + 1]
            /\ k + 1 \in DOMAIN gpu[q] /\ gpu'[r][k] = gpu[q][k + 1] /\ j + 1 < k + 1
        BY <1>4, <1>9, <2>2, <3>2, Zenon
      <4> QED
        BY <1>0, <4>1, Zenon DEF GpuSound
    <3> QED
      BY <3>1, <3>2, Zenon
  <2>3. \A r \in Queues : \A j, k \in DOMAIN gpu'[r] : j < k => Follows(gpu[r][j], gpu[r][k])'
    BY <2>2, Zenon DEF Follows
  <2> QED
    BY <2>1, <2>3, Zenon DEF GpuSound
<1>17. \A r \in Queues : \A j \in DOMAIN gpu'[r] : \E k \in DOMAIN gpu[r] : gpu'[r][j] = gpu[r][k]
  <2> SUFFICES ASSUME NEW r \in Queues, NEW j \in DOMAIN gpu'[r] PROVE \E k \in DOMAIN gpu[r] : gpu'[r][j] = gpu[r][k]
    BY Zenon
  <2>1. CASE r # q
    BY <1>9, <2>1, Zenon
  <2>2. CASE r = q
    <3>1. j + 1 \in DOMAIN gpu[r] /\ gpu'[r][j] = gpu[r][j + 1]
      BY <1>4, <1>9, <2>2, Zenon
    <3> QED
      BY <3>1, Zenon
  <2> QED
    BY <2>1, <2>2, Zenon
<1>18. RingSound'
  <2>1. ASSUME NEW r \in Queues, NEW j \in DOMAIN gpu'[r], NEW k \in DOMAIN gpu'[r], j < k
        PROVE  End(gpu'[r][j]) <= gpu'[r][k].at
    <3>1. CASE r # q
      BY <1>0, <1>9, <2>1, <3>1, Zenon DEF RingSound
    <3>2. CASE r = q
      <4>1. /\ j + 1 \in DOMAIN gpu[q] /\ gpu'[r][j] = gpu[q][j + 1]
            /\ k + 1 \in DOMAIN gpu[q] /\ gpu'[r][k] = gpu[q][k + 1] /\ j + 1 < k + 1
        BY <1>4, <1>9, <2>1, <3>2, Zenon
      <4> QED
        BY <1>0, <4>1, Zenon DEF RingSound
    <3> QED
      BY <3>1, <3>2, Zenon
  <2>2. \A r \in Queues : \A j \in DOMAIN gpu'[r] :
          End(gpu'[r][j]) <= write[r] /\ (~gpu'[r][j].fetched => read[r] <= gpu'[r][j].at)
    BY <1>0, <1>17, ZenonT(30) DEF RingSound
  <2>3. \A r \in Queues : read[r] <= write[r] /\ write[r] < read[r] + RingUnits
    BY <1>0, Zenon DEF RingSound
  <2> QED
    BY <1>1, <2>1, <2>2, <2>3, Zenon DEF RingSound, End
<1>19. RingIntact'
  <2> SUFFICES ASSUME NEW r \in Queues, NEW j \in DOMAIN gpu'[r], ~gpu'[r][j].fetched
               PROVE  /\ (gpu'[r][j].at % RingUnits) + Units[gpu'[r][j].point.work] <= RingUnits
                      /\ \A k \in gpu'[r][j].at .. gpu'[r][j].at + Units[gpu'[r][j].point.work] - 1 :
                           ring[r][k % RingUnits] = gpu'[r][j].point
    BY <1>1, Zenon DEF RingIntact
  <2>1. PICK i \in DOMAIN gpu[r] : gpu'[r][j] = gpu[r][i]
    BY <1>17, Zenon
  <2> QED
    BY <1>0, <2>1, Zenon DEF RingIntact
<1>20. PendingSound'
  <2>1. \A x \in Works : retired'[x] \in Nat /\ retired'[x] >= retired[x]
    BY <1>0, <1>1, Same, Zenon
  <2> QED
    BY <1>1, <2>1, Publishers, PendingKept, Zenon DEF Inv
<1>21. HistorySound' /\ DepsSound'
  BY <1>1, HistoryFrame, DepsFrame, Zenon DEF Inv
<1> QED
  BY <1>0, <1>10, <1>12, <1>13, <1>16, <1>18, <1>19, <1>20, <1>21, Zenon DEF Inv

-----------------------------------------------------------------------------
(* Retirement, and the poll.                                                *)

\* Whatever it visits, a retirement moves no timeline past the fence and drops no leases of
\* an invocation in flight.
LEMMA RetireKeeps ==
  ASSUME Sized, Typed, TimesSound, NEW ws, Retire(ws), UNCHANGED <<fence, active, previous>>
  PROVE  /\ retired' \in [Works -> Nat] /\ leases' \in [Works -> SUBSET Buffers] /\ TimesSound'
         /\ \A w \in Works : retired'[w] >= retired[w]
<1>1. \A w \in Works : /\ fence[w] \in Nat /\ retired[w] \in Nat /\ previous[w] \in Nat
                       /\ active[w] \in Nat /\ leases[w] \in SUBSET Buffers
  BY Zenon DEF Typed
<1>2. retired' \in [Works -> Nat] /\ leases' \in [Works -> SUBSET Buffers]
  <2>1. \A w \in Works : (IF w \in ws THEN fence[w] ELSE retired[w]) \in Nat
    BY <1>1, Zenon
  <2>2. \A w \in Works : (IF w \in ws /\ fence[w] >= active[w] THEN {} ELSE leases[w]) \in SUBSET Buffers
    BY <1>1, Zenon
  <2> QED
    BY <2>1, <2>2, Zenon DEF Retire
<1>3. \A w \in Works :
        /\ retired'[w] = IF w \in ws THEN fence[w] ELSE retired[w]
        /\ leases'[w] = IF w \in ws /\ fence[w] >= active[w] THEN {} ELSE leases[w]
  BY Zenon DEF Retire
<1>4. ASSUME NEW w \in Works
      PROVE  /\ retired'[w] >= retired[w] /\ retired'[w] <= fence[w]
             /\ fence[w] < active[w] => leases'[w] = Operands[w]
  <2>1. retired[w] <= fence[w] /\ (fence[w] < active[w] => leases[w] = Operands[w])
    BY Zenon DEF TimesSound
  <2> QED
    BY <1>1, <1>3, <2>1
<1>5. TimesSound'
  BY <1>4, Zenon DEF TimesSound
<1> QED
  BY <1>2, <1>4, <1>5, Zenon

\* A visited work has signalled what it depends on, which was retired before or is visited, too.
LEMMA VisitedClosed ==
  ASSUME Sized, Typed, TimesSound, DepsSound, NEW points \in SUBSET Points,
         \A p \in points : Settled(p.work, p.value),
         NEW w \in VisitedBy(points)
  PROVE  /\ w \in Works
         /\ \A d \in Dependencies(w) :
              fence[d.work] >= d.value /\ (retired[d.work] >= d.value \/ d.work \in VisitedBy(points))
<1>0. \A p \in Points : p.work \in Works /\ p.value \in Nat
  BY DEF Points
<1>1. PICK p \in points : w \in Visited(p.work, p.value)
  BY Zenon DEF VisitedBy
<1>2. p \in Points /\ p.work \in Works /\ p.value \in Nat
  BY <1>0, Zenon
<1>3. ~(retired[p.work] >= p.value)
  BY <1>1, Zenon DEF Visited
<1>4. \A d \in Dependencies(p.work) : fence[d.work] >= d.value
  BY <1>1, <1>3, Zenon DEF Settled
<1>5. Dependencies(p.work) \subseteq Points
  <2>1. p.work \in Waits /\ deps[p.work] # None => deps[p.work] \in Deps
    BY Zenon DEF Typed
  <2>2. p.work \in Waits /\ deps[p.work] # None => deps[p.work].all \subseteq Points
    BY <2>1 DEF Deps
  <2> QED
    BY <2>2, Zenon DEF Dependencies
<1>6. \A d \in Dependencies(p.work) : retired[d.work] >= d.value \/ d.work \in Visited(p.work, p.value)
  <2> SUFFICES ASSUME NEW d \in Dependencies(p.work), ~(retired[d.work] >= d.value)
               PROVE  d.work \in Visited(p.work, p.value)
    BY Zenon
  <2>1. d.work \in Works /\ d.value \in Nat
    BY <1>0, <1>5, Zenon
  <2>2. retired[d.work] < d.value
    BY <2>1 DEF Typed
  <2> QED
    BY <1>3, <2>2, Zenon DEF Visited
<1>7. w = p.work \/ \E d \in Dependencies(p.work) : w = d.work
  BY <1>1, <1>3, Zenon DEF Visited
<1>8. Visited(p.work, p.value) \subseteq VisitedBy(points)
  BY Zenon DEF VisitedBy
<1>9. Dependencies(w) \subseteq Dependencies(p.work)
  <2>1. CASE w = p.work
    BY <2>1, Zenon
  <2>2. CASE \E d \in Dependencies(p.work) : w = d.work
    <3>1. PICK d \in Dependencies(p.work) : w = d.work
      BY <2>2, Zenon
    <3>2. p.work \in Waits /\ deps[p.work] # None /\ Dependencies(p.work) = deps[p.work].all
      BY <3>1, Zenon DEF Dependencies
    <3>3. Dependencies(d.work) \subseteq deps[p.work].all
      BY <3>1, <3>2, Zenon DEF DepsSound, WaitSound
    <3> QED
      BY <3>1, <3>2, <3>3, Zenon
  <2> QED
    BY <1>7, <2>1, <2>2, Zenon
<1>10. w \in Works
  BY <1>0, <1>2, <1>5, <1>7, Zenon
<1> QED
  BY <1>4, <1>6, <1>8, <1>9, <1>10, Zenon

\* Retiring settled points retires them, and no wait before all that it stands for.
LEMMA RetireDeps ==
  ASSUME Sized, Typed, TimesSound, DepsSound, NEW points \in SUBSET Points,
         \A p \in points : Settled(p.work, p.value),
         Retire(VisitedBy(points)), UNCHANGED <<fence, active, previous, deps, history>>
  PROVE  DepsSound' /\ \A p \in points : retired'[p.work] >= p.value
<1>0. \A p \in Points : p.work \in Works /\ p.value \in Nat
  BY DEF Points
<1>1. \A w \in Works : /\ fence[w] \in Nat /\ retired[w] \in Nat /\ retired'[w] \in Nat
                       /\ retired'[w] = (IF w \in VisitedBy(points) THEN fence[w] ELSE retired[w])
                       /\ retired'[w] >= retired[w] /\ retired[w] <= fence[w]
  <2>1. retired' \in [Works -> Nat] /\ \A w \in Works : retired'[w] >= retired[w]
    BY RetireKeeps, Zenon
  <2> QED
    BY <2>1, Zenon DEF Typed, Retire, TimesSound
<1>2. \A p \in Points : retired[p.work] >= p.value => retired'[p.work] >= p.value
  BY <1>0, <1>1
<1>3. ASSUME NEW p \in points PROVE retired'[p.work] >= p.value
  <2>1. CASE retired[p.work] >= p.value
    BY <1>2, <2>1, Zenon
  <2>2. CASE ~(retired[p.work] >= p.value)
    <3>1. fence[p.work] >= p.value
      BY <2>2, Zenon DEF Settled
    <3>2. p.work \in VisitedBy(points)
      <4>1. p.work \in Visited(p.work, p.value)
        BY <2>2, Zenon DEF Visited
      <4> QED
        BY <4>1, Zenon DEF VisitedBy
    <3> QED
      BY <1>0, <1>1, <3>1, <3>2, Zenon
  <2> QED
    BY <2>1, <2>2, Zenon
<1>4. ASSUME NEW w \in Waits, deps[w] # None, NEW e, NEW all, e = deps[w].event, all = deps[w].all
      PROVE  /\ \A d \in Before(QueueOf[e.work], e) : retired'[d.work] >= d.value \/ d \in all
             /\ retired'[w] > 0 => \A d \in all : retired'[d.work] >= d.value
  <2>0. w \in Works /\ deps[w] \in Deps
    BY <1>4, Zenon DEF Sized, Typed
  <2>1. e \in Points /\ all \subseteq Points
    BY <1>4, <2>0 DEF Deps
  <2>2. QueueOf[e.work] \in Queues
    BY <1>0, <2>1, Zenon DEF Sized
  <2>3. Before(QueueOf[e.work], e) \subseteq Points
    <3>1. history[QueueOf[e.work]] \in Seq(Points)
      BY <2>2, Zenon DEF Typed
    <3>2. \A i \in DOMAIN history[QueueOf[e.work]] : history[QueueOf[e.work]][i] \in Points
      BY <3>1
    <3> QED
      BY <3>2, Zenon DEF Before
  <2>4. \A d \in Before(QueueOf[e.work], e) : retired[d.work] >= d.value \/ d \in all
    BY <1>4, Zenon DEF DepsSound, WaitSound
  <2>5. retired'[w] > 0 => \A d \in all : retired'[d.work] >= d.value
    <3>1. CASE w \in VisitedBy(points)
      <4>1. \A d \in all : /\ fence[d.work] >= d.value
                           /\ retired[d.work] >= d.value \/ d.work \in VisitedBy(points)
        BY <1>4, <3>1, VisitedClosed, Zenon DEF Dependencies
      <4> QED
        BY <1>0, <1>1, <1>2, <2>1, <4>1, Zenon
    <3>2. CASE w \notin VisitedBy(points)
      <4>1. retired[w] > 0 => \A d \in all : retired[d.work] >= d.value
        BY <1>4, Zenon DEF DepsSound, WaitSound
      <4> QED
        BY <1>1, <1>2, <2>0, <2>1, <3>2, <4>1, Zenon
    <3> QED
      BY <3>1, <3>2, Zenon
  <2> QED
    BY <1>2, <2>1, <2>3, <2>4, <2>5, Zenon
<1>5. DepsSound'
  <2>1. \A q, p : Before(q, p)' = Before(q, p)
    BY Zenon DEF Before
  <2>2. \A w : Dependencies(w)' = Dependencies(w)
    BY Zenon DEF Dependencies
  <2> SUFFICES ASSUME NEW w \in Waits, deps[w] # None, NEW e, NEW all, e = deps[w].event, all = deps[w].all
               PROVE  WaitSound(w, e, all)'
    <3>1. \A w \in Waits : deps[w] = None => previous[w] = 0
      BY Zenon DEF DepsSound
    <3> QED
      BY <3>1, Zenon DEF DepsSound
  <2>3. WaitSound(w, e, all)
    BY Zenon DEF DepsSound
  <2>4. /\ \A d \in Before(QueueOf[e.work], e)' : retired'[d.work] >= d.value \/ d \in all
        /\ retired'[w] > 0 => \A d \in all : retired'[d.work] >= d.value
    <3>1. /\ \A d \in Before(QueueOf[e.work], e) : retired'[d.work] >= d.value \/ d \in all
          /\ retired'[w] > 0 => \A d \in all : retired'[d.work] >= d.value
      BY <1>4
    <3>2. Before(QueueOf[e.work], e)' = Before(QueueOf[e.work], e)
      BY <2>1, Zenon
    <3> QED
      BY <3>1, <3>2, Zenon
  <2>5. /\ previous'[e.work] >= e.value
        /\ \A d \in all : previous'[d.work] >= d.value /\ Dependencies(d.work)' \subseteq all
    BY <2>2, <2>3, Zenon DEF WaitSound
  <2> QED
    BY <2>4, <2>5, Zenon DEF WaitSound
<1> QED
  BY <1>3, <1>5, Zenon

\* A step that retires and moves one thread.
LEMMA OnlyRetires ==
  ASSUME Inv, NEW t \in Threads, op[t].pc # "publish", op' \in [Threads -> Ops],
         \A u \in Threads : u # t => op'[u] = op[u],
         NEW p \in Points, Settled(p.work, p.value), Retire(Visited(p.work, p.value)),
         UNCHANGED <<write, read, ring, pending, gpu, producer, fence, active,
                     previous, deps, lost, phase, history>>,
         Typed' => ThreadsSound', Exclusive'
  PROVE  Inv'
<1>0. Sized /\ Typed /\ TimesSound /\ DepsSound
  BY Zenon DEF Inv
<1>1. Retire(VisitedBy({p}))
  <2>1. VisitedBy({p}) = Visited(p.work, p.value)
    BY Zenon DEF VisitedBy
  <2> QED
    BY <2>1, Zenon
<1>2. {p} \in SUBSET Points /\ \A x \in {p} : Settled(x.work, x.value)
  BY Zenon
<1>3. DepsSound'
  BY <1>0, <1>1, <1>2, RetireDeps, Zenon
<1>4. /\ retired' \in [Works -> Nat] /\ leases' \in [Works -> SUBSET Buffers] /\ TimesSound'
      /\ \A w \in Works : retired'[w] >= retired[w]
  BY <1>0, <1>1, RetireKeeps, Zenon
<1>5. Typed'
  BY <1>0, <1>4, Zenon DEF Typed
<1>6. PendingSound'
  <2>1. \A q \in Queues : Publishing(q) => Publishing(q)'
    BY PublishersStay, Zenon
  <2>2. \A w \in Works : retired'[w] \in Nat /\ retired'[w] >= retired[w]
    BY <1>4, Zenon
  <2> QED
    BY <2>1, <2>2, PendingKept, Zenon DEF Inv
<1>7. GpuSound' /\ RingSound' /\ RingIntact' /\ HistorySound'
  BY GpuFrame, RingFrame, HistoryFrame, Zenon DEF Inv
<1> QED
  BY <1>3, <1>4, <1>5, <1>6, <1>7, Zenon DEF Inv

LEMMA StepPoll ==
  ASSUME Inv, NEW t \in Threads, Poll(t)
  PROVE  Inv'
<1>0. Sized /\ Typed /\ ThreadsSound /\ Exclusive
  BY Zenon DEF Inv
<1>1. op[t].pc \in {"await", "settle", "wait"} /\ op[t].pc # "publish"
  <2>1. op[t].pc \in {"await", "settle", "wait"}
    BY Zenon DEF Poll, Waiting
  <2> QED
    BY <2>1, Places, Zenon
<1>2. op[t].pc # "wait" => Dispatching(t)
  BY <1>1, Places, Zenon DEF Dispatching
<1>3. PICK p : p = op[t].target
  BY Zenon
<1>4. p \in Points
  <2>1. CASE op[t].pc = "wait"
    BY <1>0, <1>3, <2>1, Shapes, Zenon
  <2>2. CASE op[t].pc # "wait"
    <3>1. op[t].pc \in {"await", "settle"}
      BY <1>1, <2>2, Zenon
    <3> QED
      BY <1>0, <1>2, <1>3, <2>2, <3>1, Zenon DEF ThreadsSound, ThreadSound
  <2> QED
    BY <2>1, <2>2, Zenon
<1>5. UNCHANGED <<write, read, ring, pending, gpu, producer, fence, active, previous,
                  deps, lost, phase, history>>
  BY Zenon DEF Poll
<1>6. op[t].pc \in Inside => previous[WorkOf(t)] < TimelineMax
  <2>1. op[t].pc \in Inside => Dispatching(t)
    BY <1>1, <1>2, Places, Zenon
  <2> QED
    BY <1>0, <2>1, Zenon DEF ThreadsSound, ThreadSound
<1>7. producer' \in [Queues -> Threads \union {None}]
  BY <1>0, <1>5, Zenon DEF Typed
<1>8. CASE /\ Settled(p.work, p.value) /\ Retire(Visited(p.work, p.value))
           /\ Become(t, [op[t] EXCEPT !.seen = TRUE])
  <2>1. PICK r : r = [op[t] EXCEPT !.seen = TRUE]
    BY Zenon
  <2>2. Become(t, r)
    BY <1>8, <2>1, Zenon
  <2>3. CASE op[t].pc = "wait"
    <3>1. op[t] \in Waiters
      BY <1>0, <2>3, Shapes, Zenon
    <3>2. r \in Waiters /\ r.pc = "wait"
      BY Zenon, <2>1, <3>1 DEF Waiters
    <3>3. op' \in [Threads -> Ops] /\ op'[t] = r /\ \A u \in Threads : u # t => op'[u] = op[u]
      <4>1. r \in Ops
        BY <3>2, Zenon DEF Ops
      <4> QED
        BY <1>0, <2>2, <4>1, Replaced, Zenon
    <3>4. Typed' => ThreadsSound'
      BY <1>0, <1>5, <3>2, <3>3, OthersStay, Zenon DEF Dispatching
    <3>5. Exclusive'
      BY <1>0, <3>2, <3>3, Places, ExclusiveOutside, Zenon
    <3> QED
      BY <1>1, <1>4, <1>5, <1>8, <3>3, <3>4, <3>5, OnlyRetires, Zenon
  <2>4. CASE op[t].pc # "wait"
    <3>1. op[t] \in Pieces
      BY <1>0, <1>2, <2>4, Shapes, Zenon
    <3>2. /\ r \in Pieces /\ r.pc = op[t].pc /\ r.command = op[t].command /\ r.part = op[t].part
          /\ r.guard = op[t].guard /\ r.target = p
      BY Zenon, <1>3, <2>1, <3>1 DEF Pieces
    <3>3. Moves(t, {r.pc}) /\ op'[t] = r
      BY <1>0, <1>4, <2>2, <3>2, Advances, Zenon
    <3>4. op'[t].pc = op[t].pc /\ op'[t].pc \notin {"room", "publish"} /\ op'[t].pc # "publish"
      BY <1>1, <3>2, <3>3, Places, Zenon
    <3>5. PICK w, q : w = WorkOf(t) /\ q = QueueFor(t)
      BY Zenon
    <3>6. Typed' => ThreadsSound'
      BY <1>0, <1>2, <1>5, <1>6, <2>4, <3>3, <3>4, <3>5, ThreadMoves, Zenon
    <3>7. Exclusive'
      BY <1>0, <3>3, <3>4, ExclusiveMoves, Zenon
    <3>8. op' \in [Threads -> Ops] /\ \A u \in Threads : u # t => op'[u] = op[u]
      BY <3>3, Zenon DEF Moves
    <3> QED
      BY <1>1, <1>4, <1>5, <1>8, <3>6, <3>7, <3>8, OnlyRetires, Zenon
  <2> QED
    BY <2>3, <2>4, Zenon
<1>9. CASE (IF op[t].pc = "await" THEN Fail(t) ELSE Return(t)) /\ UNCHANGED <<leases, retired>>
  <2>1. Moves(t, {"idle", "settle"})
    <3>1. CASE op[t].pc = "await"
      <4>1. Dispatching(t)
        BY <3>1, Places, Zenon DEF Dispatching
      <4> QED
        BY <1>0, <1>9, <3>1, <4>1, Fails, Zenon
    <3>2. CASE op[t].pc # "await"
      BY <1>0, <1>9, <3>2, Returns, Zenon DEF Moves
    <3> QED
      BY <3>1, <3>2, Zenon
  <2>2. op'[t].pc \in {"idle", "settle", "reap", "await"} /\ op'[t].pc \notin Inside
    BY <2>1, Places, Zenon DEF Moves
  <2>3. CASE op[t].pc # "wait"
    BY <1>1, <1>2, <1>5, <1>7, <1>9, <2>1, <2>2, <2>3, Steps, Zenon
  <2>4. CASE op[t].pc = "wait"
    <3>1. "wait" # "await"
      OBVIOUS
    <3>2. Moves(t, {"idle"})
      BY <1>0, <1>9, <2>4, <3>1, Returns, Zenon
    <3>3. op' \in [Threads -> Ops] /\ op'[t].pc = "idle" /\ \A u \in Threads : u # t => op'[u] = op[u]
      BY <3>2, Zenon DEF Moves
    <3>4. Typed' => ThreadsSound'
      BY <1>0, <1>5, <3>3, OthersStay, Zenon DEF Dispatching
    <3>5. Exclusive'
      BY <1>0, <2>2, <3>3, ExclusiveOutside, Zenon
    <3> QED
      BY <1>1, <1>5, <1>7, <1>9, <3>3, <3>4, <3>5, OnlyMoves, Zenon
  <2> QED
    BY <2>3, <2>4, Zenon
<1> QED
  BY <1>3, <1>8, <1>9, Zenon DEF Poll

-----------------------------------------------------------------------------
(* The preparation of a wait.                                               *)

LEMMA DependenciesTyped ==
  ASSUME Typed, NEW w
  PROVE  Dependencies(w) \in SUBSET Points
<1>1. w \in Waits /\ deps[w] # None => deps[w] \in Deps
  BY Zenon DEF Typed
<1>2. w \in Waits /\ deps[w] # None => deps[w].all \in SUBSET Points
  BY <1>1 DEF Deps
<1> QED
  BY <1>2, Zenon DEF Dependencies

\* What an event stands for: published points, among them all those before it that are
\* not retired.
LEMMA Prefixes ==
  ASSUME Inv, NEW q \in Queues, producer[q] = None, NEW p \in Points, previous[p.work] >= p.value
  PROVE  /\ Prefix(q, p) \in SUBSET Points
         /\ \A d \in Prefix(q, p) : previous[d.work] >= d.value
         /\ \A d \in Before(q, p) : retired[d.work] >= d.value \/ d \in Prefix(q, p)
<1>0. Sized /\ Typed /\ ThreadsSound /\ PendingSound /\ HistorySound
  BY Zenon DEF Inv
<1>1. PICK h, b : h = history[q] /\ b = pending[q]
  BY Zenon
<1>2. h \in Seq(Points) /\ b \in Seq(Points)
  BY <1>0, <1>1, Zenon DEF Typed
<1>3. PICK o \in 0 .. Len(h) : Pending(q, o)
  BY <1>0, <1>1, Zenon DEF PendingSound
<1>4. /\ Len(b) = Len(h) - o /\ \A i \in 1 .. o : retired[h[i].work] >= h[i].value
      /\ \A i \in o + 1 .. Len(h) : b[i - o] = h[i]
  BY <1>0, <1>1, <1>3, Unpublished, Zenon DEF Pending
<1>5. \A i \in DOMAIN b : i + o \in DOMAIN h /\ b[i] = h[i + o] /\ b[i] \in Points
  <2> SUFFICES ASSUME NEW i \in DOMAIN b PROVE i + o \in DOMAIN h /\ b[i] = h[i + o] /\ b[i] \in Points
    BY Zenon
  <2>1. Len(h) \in Nat /\ Len(b) \in Nat /\ i \in 1 .. Len(b) /\ DOMAIN h = 1 .. Len(h) /\ b[i] \in Points
    BY <1>2
  <2>2. i + o \in o + 1 .. Len(h) /\ (i + o) - o = i /\ i + o \in 1 .. Len(h)
    BY <1>4, <2>1
  <2> QED
    BY <1>4, <2>1, <2>2
<1>6. \A i \in DOMAIN h : h[i].value <= previous[h[i].work] /\ h[i] \in Points
  BY <1>0, <1>1, <1>2 DEF HistorySound
<1>7. \A x \in Points : x.work \in Works /\ x.value \in Nat
  BY DEF Points
<1>8. \A i \in DOMAIN h : previous[h[i].work] >= h[i].value
  <2> SUFFICES ASSUME NEW i \in DOMAIN h PROVE previous[h[i].work] >= h[i].value
    BY Zenon
  <2>1. h[i].work \in Works /\ h[i].value \in Nat /\ h[i].value <= previous[h[i].work]
    BY <1>6, <1>7, Zenon
  <2>2. previous[h[i].work] \in Nat
    BY <1>0, <2>1, Zenon DEF Typed
  <2> QED
    BY <2>1, <2>2
<1>9. PICK at : at = {i \in DOMAIN b : b[i] = p}
  BY Zenon
<1>10. CASE at = {}
  <2>1. Prefix(q, p) = {p}
    BY <1>1, <1>9, <1>10, Zenon DEF Prefix
  <2>2. ASSUME NEW i \in DOMAIN h, NEW j \in DOMAIN h, h[j] = p, i <= j PROVE i \in 1 .. o
    <3>1. j \in 1 .. Len(h) /\ i \in 1 .. Len(h) /\ Len(h) \in Nat /\ Len(b) \in Nat
      BY <1>2, <2>2
    <3>2. j <= o
      <4> SUFFICES ASSUME ~(j <= o) PROVE FALSE
        BY Zenon
      <4>1. j \in o + 1 .. Len(h) /\ j - o \in 1 .. Len(b) /\ DOMAIN b = 1 .. Len(b)
        BY <1>2, <1>4, <3>1
      <4>2. b[j - o] = p
        BY <1>4, <2>2, <4>1, Zenon
      <4> QED
        BY <1>9, <1>10, <4>1, <4>2, Zenon
    <3> QED
      BY <2>2, <3>1, <3>2
  <2>3. \A d \in Before(q, p) : retired[d.work] >= d.value
    BY <1>1, <1>4, <2>2, Zenon DEF Before
  <2> QED
    BY <2>1, <2>3, Zenon
<1>11. CASE at # {}
  <2>1. PICK k : k = CHOOSE i \in at : TRUE
    BY Zenon
  <2>2. k \in DOMAIN b /\ b[k] = p
    <3>1. k \in at
      BY <1>11, <2>1, Zenon
    <3> QED
      BY <1>9, <3>1, Zenon
  <2>3. Prefix(q, p) = {b[i] : i \in 1 .. k}
    BY <1>1, <1>9, <1>11, <2>1, Zenon DEF Prefix
  <2>4. \A i \in 1 .. k : i \in DOMAIN b
    BY <1>2, <2>2
  <2>5. /\ Prefix(q, p) \in SUBSET Points
        /\ \A d \in Prefix(q, p) : previous[d.work] >= d.value
    BY <1>5, <1>8, <2>3, <2>4, Zenon
  <2>6. ASSUME NEW i \in DOMAIN h, NEW j \in DOMAIN h, h[j] = p, i <= j
        PROVE  i \in 1 .. o \/ h[i] \in Prefix(q, p)
    <3>0. h[k + o] = p /\ k + o \in DOMAIN h
      BY <1>5, <2>2, Zenon
    <3>1. j \in 1 .. Len(h) /\ i \in 1 .. Len(h) /\ Len(h) \in Nat /\ Len(b) \in Nat /\ k \in 1 .. Len(b)
      BY <1>2, <2>2, <2>6
    <3>2. j = k + o
      <4>1. ~(j < k + o)
        <5> SUFFICES ASSUME j < k + o PROVE FALSE
          BY Zenon
        <5>1. p.value < p.value
          BY <1>0, <1>1, <2>6, <3>0, Zenon DEF HistorySound
        <5> QED
          BY <1>7, <5>1
      <4>2. ~(k + o < j)
        <5> SUFFICES ASSUME k + o < j PROVE FALSE
          BY Zenon
        <5>1. p.value < p.value
          BY <1>0, <1>1, <2>6, <3>0, Zenon DEF HistorySound
        <5> QED
          BY <1>7, <5>1
      <4> QED
        BY <3>1, <4>1, <4>2
    <3>3. CASE i <= o
      BY <3>1, <3>3
    <3>4. CASE ~(i <= o)
      <4>1. i - o \in 1 .. k /\ i \in o + 1 .. Len(h)
        BY <2>6, <3>1, <3>2, <3>4
      <4> QED
        BY <1>4, <2>3, <4>1, Zenon
    <3> QED
      BY <3>3, <3>4, Zenon
  <2>7. \A d \in Before(q, p) : retired[d.work] >= d.value \/ d \in Prefix(q, p)
    BY <1>1, <1>4, <2>6, Zenon DEF Before
  <2> QED
    BY <2>5, <2>7, Zenon
<1> QED
  BY <1>10, <1>11, Zenon

LEMMA StepPrepareWait ==
  ASSUME Inv, NEW w \in Waits, NEW p \in Points, PrepareWait(w, p)
  PROVE  Inv'
<1>0. Sized /\ Typed /\ ThreadsSound /\ Exclusive /\ DepsSound /\ TimesSound
  BY Zenon DEF Inv
<1>1. /\ deps[w] = None /\ previous[p.work] >= p.value /\ producer[QueueOf[p.work]] = None
      /\ UNCHANGED <<write, read, ring, pending, gpu, producer, fence, active, retired,
                     previous, leases, op, lost, phase, history>>
  BY Zenon DEF PrepareWait
<1>2. PICK q : q = QueueOf[p.work]
  BY Zenon
<1>3. p.work \in Works /\ q \in Queues
  <2>1. p.work \in Works
    BY DEF Points
  <2> QED
    BY <1>0, <1>2, <2>1, Zenon DEF Sized
<1>4. PICK all : all = Prefix(q, p) \union UNION {Dependencies(d.work) : d \in Prefix(q, p)}
  BY Zenon
<1>5. PICK r : r = [event |-> p, all |-> all]
  BY Zenon
<1>6. deps' = [deps EXCEPT ![w] = r]
  BY <1>2, <1>4, <1>5, Zenon DEF PrepareWait
<1>7. /\ Prefix(q, p) \in SUBSET Points
      /\ \A d \in Prefix(q, p) : previous[d.work] >= d.value
      /\ \A d \in Before(q, p) : retired[d.work] >= d.value \/ d \in Prefix(q, p)
  BY <1>1, <1>2, <1>3, Prefixes, Zenon
<1>8. all \in SUBSET Points
  BY <1>0, <1>4, <1>7, DependenciesTyped, Zenon
<1>9. r \in Deps /\ r.event = p /\ r.all = all
  BY <1>5, <1>8 DEF Deps
<1>10. r # None
  BY <1>0, <1>9, Zenon DEF Sized
<1>11. deps \in [Waits -> Deps \union {None}]
  BY <1>0, Zenon DEF Typed
<1>12. deps' \in [Waits -> Deps \union {None}] /\ deps'[w] = r /\ \A x \in Waits : x # w => deps'[x] = deps[x]
  BY <1>6, <1>9, <1>11, Zenon
<1>13. Typed'
  BY <1>0, <1>1, <1>12, Zenon DEF Typed
<1>14. ThreadsSound' /\ Exclusive'
  <2>1. \A x \in Waits : deps[x] # None => deps'[x] # None
    BY <1>10, <1>12, Zenon
  <2>2. \A x \in Queues : read'[x] >= read[x]
    BY <1>0, <1>1 DEF Typed
  <2> QED
    BY <1>0, <1>1, <1>13, <2>1, <2>2, AllStay, Zenon
<1>15. ASSUME NEW y, NEW d \in Dependencies(y)
       PROVE  /\ previous[d.work] >= d.value
              /\ Dependencies(d.work) \in SUBSET Dependencies(y)
  <2>1. y \in Waits /\ deps[y] # None /\ Dependencies(y) = deps[y].all
    BY <1>15, Zenon DEF Dependencies
  <2> QED
    BY <1>0, <2>1, Zenon DEF DepsSound, WaitSound
<1>16. \A d \in all : previous[d.work] >= d.value /\ Dependencies(d.work) \in SUBSET all
  <2> SUFFICES ASSUME NEW d \in all PROVE previous[d.work] >= d.value /\ Dependencies(d.work) \in SUBSET all
    BY Zenon
  <2>1. CASE d \in Prefix(q, p)
    BY <1>4, <1>7, <2>1, Zenon
  <2>2. CASE d \notin Prefix(q, p)
    <3>1. PICK e \in Prefix(q, p) : d \in Dependencies(e.work)
      BY <1>4, <2>2, Zenon
    <3>2. Dependencies(e.work) \in SUBSET all
      BY <1>4, <3>1, Zenon
    <3> QED
      BY <1>15, <3>1, <3>2, Zenon
  <2> QED
    BY <2>1, <2>2, Zenon
<1>17. previous[w] = 0 /\ retired[w] = 0
  <2>1. previous[w] = 0 /\ w \in Works
    BY <1>0, <1>1, Zenon DEF DepsSound, Sized
  <2> QED
    BY <1>0, <2>1 DEF TimesSound, Typed
<1>18. \A d \in Points : previous[d.work] >= d.value => Dependencies(d.work)' = Dependencies(d.work)
  <2> SUFFICES ASSUME NEW d \in Points, previous[d.work] >= d.value PROVE Dependencies(d.work)' = Dependencies(d.work)
    BY ZenonT(30)
  <2>1. d.work # w
    BY <1>17 DEF Points
  <2> QED
    BY <1>12, <2>1, Zenon DEF Dependencies
<1>19. \A x, y : Before(x, y)' = Before(x, y)
  BY <1>1, Zenon DEF Before
<1>20. ASSUME NEW x \in Waits, x # w, deps'[x] # None PROVE WaitSound(x, deps[x].event, deps[x].all)'
  <2>1. PICK e, a : e = deps[x].event /\ a = deps[x].all
    BY Zenon
  <2>2. deps[x] # None /\ deps'[x] = deps[x] /\ WaitSound(x, e, a)
    BY <1>0, <1>12, <1>20, <2>1, Zenon DEF DepsSound
  <2>3. a \in SUBSET Points
    <3>1. deps[x] \in Deps
      BY <1>11, <2>2, Zenon
    <3> QED
      BY <2>1, <3>1 DEF Deps
  <2>4. \A d \in a : previous'[d.work] >= d.value /\ Dependencies(d.work)' \subseteq a
    <3> SUFFICES ASSUME NEW d \in a PROVE previous'[d.work] >= d.value /\ Dependencies(d.work)' \subseteq a
      BY Zenon
    <3>1. previous[d.work] >= d.value /\ Dependencies(d.work) \subseteq a /\ d \in Points
      BY <2>2, <2>3, Zenon DEF WaitSound
    <3>2. Dependencies(d.work)' = Dependencies(d.work)
      BY <1>18, <3>1, Zenon
    <3> QED
      BY <1>1, <3>1, <3>2, Zenon
  <2>5. Before(QueueOf[e.work], e)' = Before(QueueOf[e.work], e)
    BY <1>19, Zenon
  <2>6. WaitSound(x, e, a)'
    BY <1>1, <2>2, <2>4, <2>5, Zenon DEF WaitSound
  <2>7. deps'[x].event = e /\ deps'[x].all = a
    BY <2>1, <2>2, Zenon
  <2> QED
    BY <2>6, <2>7, Zenon
<1>21. WaitSound(w, p, all)'
  <2>1. \A d \in all : previous'[d.work] >= d.value /\ Dependencies(d.work)' \subseteq all
    <3> SUFFICES ASSUME NEW d \in all PROVE previous'[d.work] >= d.value /\ Dependencies(d.work)' \subseteq all
      BY Zenon
    <3>1. previous[d.work] >= d.value /\ Dependencies(d.work) \in SUBSET all /\ d \in Points
      BY <1>8, <1>16, Zenon
    <3>2. Dependencies(d.work)' = Dependencies(d.work)
      BY <1>18, <3>1, Zenon
    <3> QED
      BY <1>1, <3>1, <3>2, Zenon
  <2>2. \A d \in Before(QueueOf[p.work], p)' : retired'[d.work] >= d.value \/ d \in all
    <3>1. Before(QueueOf[p.work], p)' = Before(q, p)
      BY <1>2, <1>19, Zenon
    <3> QED
      BY <1>1, <1>4, <1>7, <3>1, Zenon
  <2>3. ~(retired'[w] > 0)
    BY <1>1, <1>17
  <2> QED
    BY <1>1, <2>1, <2>2, <2>3, Zenon DEF WaitSound
<1>22. DepsSound'
  <2>1. \A x \in Waits : deps'[x] = None => previous'[x] = 0
    BY <1>0, <1>1, <1>10, <1>12, Zenon DEF DepsSound
  <2>2. ASSUME NEW x \in Waits, deps'[x] # None PROVE WaitSound(x, deps[x].event, deps[x].all)'
    <3>1. CASE x # w
      BY <1>20, <2>2, <3>1, Zenon
    <3>2. CASE x = w
      <4>1. deps'[x].event = p /\ deps'[x].all = all
        BY <1>9, <1>12, <3>2, Zenon
      <4> QED
        BY <1>21, <3>2, <4>1, Zenon
    <3> QED
      BY <3>1, <3>2, Zenon
  <2> QED
    BY <2>1, <2>2, Zenon DEF DepsSound
<1>23. PendingSound'
  <2>1. \A x \in Works : retired'[x] \in Nat /\ retired'[x] >= retired[x]
    BY <1>0, <1>1, Same, Zenon
  <2> QED
    BY <1>1, <2>1, Publishers, PendingKept, Zenon DEF Inv
<1>24. GpuSound' /\ RingSound' /\ RingIntact' /\ HistorySound' /\ TimesSound'
  BY <1>1, GpuFrame, RingFrame, HistoryFrame, TimesFrame, Zenon DEF Inv
<1> QED
  BY <1>0, <1>13, <1>14, <1>22, <1>23, <1>24, Zenon DEF Inv

-----------------------------------------------------------------------------
(* The completed prefix of a queue, by induction over its length.           *)

INSTANCE WellFoundedInduction

\* Induction from 0 up to a number, for a set.
LEMMA Upward ==
  ASSUME NEW N \in Nat, NEW T, 0 \in T, \A n \in 1 .. N : n - 1 \in T => n \in T
  PROVE  \A n \in 0 .. N : n \in T
<1> DEFINE Bad == {n \in 0 .. N : n \notin T}
<1> SUFFICES ASSUME Bad # {} PROVE FALSE
  BY Zenon
<1>1. Bad \in SUBSET Nat
  OBVIOUS
<1>2. PICK x \in Bad : \A y \in Bad : ~(<<y, x>> \in OpToRel(<, Nat))
  BY <1>1, WFMin, NatLessThanWellFounded, Zenon
<1>3. \A y \in Bad : ~(y < x)
  BY Zenon, <1>1, <1>2 DEF OpToRel
<1>4. x - 1 \notin Bad /\ x \in 1 .. N
  BY <1>3
<1> QED
  BY <1>4

LEMMA ReapsSettled ==
  ASSUME Typed, NEW q \in Queues
  PROVE  /\ Reapable(q) \in 0 .. Len(pending[q])
         /\ \A i \in 1 .. Reapable(q) : Settled(pending[q][i].work, pending[q][i].value)
<1> DEFINE L == Len(pending[q])
           ready(n) == \A i \in 1 .. n : Settled(pending[q][i].work, pending[q][i].value)
           last(n) == ready(n) /\ (n < Len(pending[q]) => ~ready(n + 1))
<1>1. L \in Nat
  BY DEF Typed
<1>2. Reapable(q) = CHOOSE n \in 0 .. Len(pending[q]) : last(n)
  BY Zenon DEF Reapable
<1>3. \E n \in 0 .. L : last(n)
  <2> SUFFICES ASSUME \A n \in 0 .. L : ~last(n) PROVE FALSE
    BY Zenon
  <2> DEFINE T == {n \in 0 .. L : ready(n)}
  <2> HIDE DEF L
  <2>1. 0 \in T
    <3>1. ready(0)
      OBVIOUS
    <3>2. 0 \in 0 .. L
      BY <1>1
    <3> QED
      BY <3>1, <3>2, ZenonT(30)
  <2>2. ASSUME NEW n \in 1 .. L, n - 1 \in T PROVE n \in T
    <3>1. n - 1 \in 0 .. L /\ n - 1 < L /\ n - 1 + 1 = n /\ n \in 0 .. L
      BY <1>1
    <3>2. ready(n - 1) /\ ~last(n - 1)
      BY <2>2, <3>1, Zenon
    <3>3. ready(n - 1 + 1)
      BY <3>1, <3>2, Zenon DEF L
    <3> QED
      BY <3>1, <3>3, Zenon
  <2>3. \A n \in 0 .. L : n \in T
    <3> HIDE DEF T
    <3> QED
      BY <1>1, <2>1, <2>2, Upward, Zenon
  <2>4. L \in 0 .. L /\ ~(L < L)
    BY <1>1
  <2> QED
    BY <2>3, <2>4, Zenon DEF L
<1>4. Reapable(q) \in 0 .. L /\ last(Reapable(q))
  <2> HIDE DEF last
  <2> QED
    BY <1>2, <1>3, Zenon
<1> QED
  BY <1>4, Zenon

\* Retiring the completed prefix of a queue.
LEMMA Reaped ==
  ASSUME Sized, Typed, TimesSound, DepsSound, NEW q \in Queues, NEW n, n = Reapable(q),
         Retire(VisitedBy(Range(SubSeq(pending[q], 1, n)))),
         UNCHANGED <<fence, active, previous, deps, history>>
  PROVE  /\ retired' \in [Works -> Nat] /\ leases' \in [Works -> SUBSET Buffers]
         /\ TimesSound' /\ DepsSound' /\ \A w \in Works : retired'[w] >= retired[w]
         /\ n \in 0 .. Len(pending[q])
         /\ \A i \in 1 .. n : /\ fence[pending[q][i].work] >= pending[q][i].value
                              /\ retired'[pending[q][i].work] >= pending[q][i].value
<1>1. n \in 0 .. Len(pending[q]) /\ \A i \in 1 .. n : Settled(pending[q][i].work, pending[q][i].value)
  BY ReapsSettled, Zenon
<1>2. pending[q] \in Seq(Points)
  BY Zenon DEF Typed
<1>3. \A i \in 1 .. n : pending[q][i] \in Points
  BY <1>1, <1>2
<1>4. PICK ps : ps = Range(SubSeq(pending[q], 1, n))
  BY Zenon
<1>5. ps = {pending[q][i] : i \in 1 .. n}
  <2>1. DOMAIN SubSeq(pending[q], 1, n) = 1 .. n /\ \A i \in 1 .. n : SubSeq(pending[q], 1, n)[i] = pending[q][i]
    BY <1>1, <1>2
  <2> QED
    BY <1>4, <2>1, Zenon DEF Range
<1>6. ps \in SUBSET Points /\ \A p \in ps : Settled(p.work, p.value)
  BY <1>1, <1>3, <1>5, Zenon
<1>7. DepsSound' /\ \A p \in ps : retired'[p.work] >= p.value
  BY <1>4, <1>6, RetireDeps, Zenon
<1>8. \A i \in 1 .. n : retired'[pending[q][i].work] >= pending[q][i].value
  BY <1>5, <1>7, Zenon
<1>9. ASSUME NEW i \in 1 .. n PROVE fence[pending[q][i].work] >= pending[q][i].value
  <2>1. pending[q][i].work \in Works /\ pending[q][i].value \in Nat
    BY <1>3 DEF Points
  <2>2. fence[pending[q][i].work] \in Nat /\ retired[pending[q][i].work] \in Nat
        /\ retired[pending[q][i].work] <= fence[pending[q][i].work]
    BY <2>1, Zenon DEF Typed, TimesSound
  <2>3. retired[pending[q][i].work] >= pending[q][i].value \/ fence[pending[q][i].work] >= pending[q][i].value
    BY <1>1, Zenon DEF Settled
  <2> QED
    BY <2>1, <2>2, <2>3
<1> QED
  BY <1>1, <1>7, <1>8, <1>9, RetireKeeps, Zenon

\* Nothing that leaves the pending queue can still run.
LEMMA GpuReaps ==
  ASSUME Sized, Typed, GpuSound, NEW q \in Queues, NEW n \in 0 .. Len(pending[q]),
         \A i \in 1 .. n : fence[pending[q][i].work] >= pending[q][i].value,
         pending' = [pending EXCEPT ![q] = SubSeq(@, n + 1, Len(@))],
         UNCHANGED <<gpu, fence, previous>>,
         \A r \in Queues : DOMAIN gpu[r] # {} => phase'[r] # "destroyed"
  PROVE  pending' \in [Queues -> Seq(Points)] /\ GpuSound'
<1>1. pending[q] \in Seq(Points) /\ pending \in [Queues -> Seq(Points)]
  BY Zenon DEF Typed
<1>2. SubSeq(pending[q], n + 1, Len(pending[q])) \in Seq(Points)
  BY <1>1
<1>3. pending'[q] = SubSeq(pending[q], n + 1, Len(pending[q])) /\ \A r \in Queues : r # q => pending'[r] = pending[r]
  BY <1>1, Zenon
<1>4. pending' \in [Queues -> Seq(Points)]
  BY <1>1, <1>2, Zenon
<1>5. ASSUME NEW i \in DOMAIN gpu[q] PROVE gpu[q][i].point \in Range(pending'[q])
  <2>1. PICK p : p = gpu[q][i].point
    BY Zenon
  <2>2. p \in Range(pending[q]) /\ fence[p.work] < p.value
    BY <2>1, Zenon DEF GpuSound, Runnable
  <2>3. PICK j \in DOMAIN pending[q] : p = pending[q][j]
    BY <2>2, Zenon DEF Range
  <2>4. p \in Points
    BY <1>1, <2>3
  <2>5. p.work \in Works /\ p.value \in Nat
    BY <2>4 DEF Points
  <2>6. ~(fence[p.work] >= p.value)
    BY <2>2, <2>5 DEF Typed
  <2>7. j \notin 1 .. n
    BY <2>3, <2>6, Zenon
  <2>8. j - n \in DOMAIN SubSeq(pending[q], n + 1, Len(pending[q]))
        /\ SubSeq(pending[q], n + 1, Len(pending[q]))[j - n] = p
    BY <1>1, <2>3, <2>7
  <2> QED
    BY <1>3, <2>1, <2>8, Zenon DEF Range
<1>6. \A r \in Queues : \A i \in DOMAIN gpu[r] : gpu[r][i].point \in Range(pending'[r])
  BY <1>3, <1>5, Zenon DEF GpuSound, Runnable
<1>7. GpuSound'
  <2>1. \A r \in Queues : \A i \in DOMAIN gpu[r] : phase'[r] # "destroyed"
    BY Zenon
  <2> QED
    BY <1>6, <2>1, Zenon DEF GpuSound, Runnable
<1> QED
  BY <1>4, <1>7, Zenon

LEMMA Suffix ==
  ASSUME NEW S, NEW p \in Seq(S), NEW n \in 0 .. Len(p), NEW s, s = SubSeq(p, n + 1, Len(p))
  PROVE  Len(s) = Len(p) - n /\ \A i \in n + 1 .. Len(p) : s[i - n] = p[i]
<1>1. Len(p) \in Nat /\ n \in Nat
  OBVIOUS
<1>2. Len(s) = Len(p) - n
  BY <1>1
<1>3. ASSUME NEW i \in n + 1 .. Len(p) PROVE s[i - n] = p[i]
  <2>1. i - n \in 1 .. Len(s) /\ n + (i - n) = i
    BY <1>1, <1>2
  <2>2. SubSeq(p, n + 1, Len(p))[i - n] = p[n + 1 + (i - n) - 1]
    BY <1>1, <2>1
  <2> QED
    BY <2>1, <2>2
<1> QED
  BY <1>2, <1>3, Zenon

\* The reaped prefix of the pending queue joins the retired prefix of the history.
LEMMA PendingReaps ==
  ASSUME Sized, Typed, Typed', ThreadsSound, PendingSound, NEW q \in Queues, producer[q] = None,
         NEW n \in 0 .. Len(pending[q]),
         \A i \in 1 .. n : retired'[pending[q][i].work] >= pending[q][i].value,
         pending' = [pending EXCEPT ![q] = SubSeq(@, n + 1, Len(@))], UNCHANGED history,
         \A w \in Works : retired'[w] >= retired[w],
         \A r \in Queues : Publishing(r) => Publishing(r)'
  PROVE  PendingSound'
<1>0. /\ pending[q] \in Seq(Points) /\ pending \in [Queues -> Seq(Points)] /\ history[q] \in Seq(Points)
      /\ \A w \in Works : retired'[w] \in Nat
  BY Zenon DEF Typed
<1>1. pending'[q] = SubSeq(pending[q], n + 1, Len(pending[q])) /\ \A r \in Queues : r # q => pending'[r] = pending[r]
  BY <1>0, Zenon
<1>2. ASSUME NEW r \in Queues, r # q PROVE \E o \in 0 .. Len(history[r]) : Pending(r, o)'
  <2>1. PICK o \in 0 .. Len(history[r]) : Pending(r, o)
    BY Zenon DEF PendingSound
  <2>2. pending'[r] = pending[r] /\ history'[r] = history[r]
    BY <1>1, <1>2, Zenon
  <2>3. Pending(r, o)'
    BY <1>0, <2>1, <2>2, PendingStays, Zenon
  <2> QED
    BY <2>3, Zenon
<1>3. PICK o \in 0 .. Len(history[q]) : Pending(q, o)
  BY Zenon DEF PendingSound
<1>4. Len(pending[q]) = Len(history[q]) - o
  BY <1>3, Unpublished, Zenon DEF Pending
<1>5. PICK h, p, s : h = history[q] /\ p = pending[q] /\ s = pending'[q]
  BY Zenon
<1>6. h \in Seq(Points) /\ p \in Seq(Points) /\ n \in 0 .. Len(p) /\ o \in 0 .. Len(h) /\ s = SubSeq(p, n + 1, Len(p)) /\ Len(p) = Len(h) - o
      /\ \A i \in o + 1 .. Len(h) : i - o <= Len(p) /\ p[i - o] = h[i]
  BY <1>0, <1>1, <1>3, <1>4, <1>5, Zenon DEF Pending
<1>7. o + n \in 0 .. Len(h) /\ Len(s) = Len(h) - (o + n)
  <2>1. Len(h) \in Nat /\ Len(p) \in Nat
    BY <1>6
  <2>2. Len(s) = Len(p) - n
    BY <1>6, Suffix, Zenon
  <2> QED
    BY <1>6, <2>1, <2>2
<1>8. ASSUME NEW i \in o + n + 1 .. Len(h) PROVE i - (o + n) <= Len(s) /\ s[i - (o + n)] = h[i]
  <2>0. Len(h) \in Nat /\ Len(p) \in Nat /\ Len(p) = Len(h) - o /\ n \in Nat /\ o \in Nat
    BY <1>6
  <2>1. i - o \in n + 1 .. Len(p) /\ i \in o + 1 .. Len(h) /\ (i - o) - n = i - (o + n)
    BY <2>0
  <2>2. s[(i - o) - n] = p[i - o]
    BY <1>6, <2>1, Suffix, Zenon
  <2>3. p[i - o] = h[i]
    BY <1>6, <2>1, Zenon
  <2>4. i - (o + n) <= Len(s)
    BY <1>7, <2>0
  <2> QED
    BY <2>1, <2>2, <2>3, <2>4, Zenon
<1>9. ASSUME NEW i \in 1 .. o + n PROVE retired'[h[i].work] >= h[i].value
  <2>1. h[i] \in Points
    BY <1>6, <1>7
  <2>2. h[i].work \in Works /\ h[i].value \in Nat
    BY <2>1 DEF Points
  <2>3. CASE i \in 1 .. o
    <3>1. retired[h[i].work] >= h[i].value
      BY <1>3, <1>5, <2>3, Zenon DEF Pending
    <3>2. retired[h[i].work] \in Nat /\ retired'[h[i].work] \in Nat /\ retired'[h[i].work] >= retired[h[i].work]
      BY <1>0, <2>2, Zenon DEF Typed
    <3> QED
      BY <2>2, <3>1, <3>2
  <2>4. CASE i \notin 1 .. o
    <3>1. i \in o + 1 .. Len(h) /\ i - o \in 1 .. n
      BY <1>6, <1>7, <2>4
    <3> QED
      BY <1>5, <1>6, <3>1, Zenon
  <2> QED
    BY <2>3, <2>4, Zenon
<1>10. Pending(q, o + n)'
  BY <1>5, <1>7, <1>8, <1>9, Zenon DEF Pending
<1>11. \E m \in 0 .. Len(history[q]) : Pending(q, m)'
  BY <1>5, <1>7, <1>10, Zenon
<1> QED
  BY <1>2, <1>11, Zenon DEF PendingSound

\* A step that reaps a queue nobody holds and moves one thread.
LEMMA OnlyReaps ==
  ASSUME Inv, NEW t \in Threads, op[t].pc # "publish", op' \in [Threads -> Ops],
         \A u \in Threads : u # t => op'[u] = op[u],
         NEW q \in Queues, producer[q] = None, ReapPrefix(q), producer' \in [Queues -> Threads \union {None}],
         UNCHANGED <<write, read, ring, gpu, fence, active, previous, deps, lost, phase, history>>,
         Typed' => ThreadsSound', Exclusive'
  PROVE  Inv'
<1>0. Sized /\ Typed /\ TimesSound /\ DepsSound /\ GpuSound /\ ThreadsSound /\ PendingSound
  BY Zenon DEF Inv
<1>1. PICK n : n = Reapable(q)
  BY Zenon
<1>2. /\ Retire(VisitedBy(Range(SubSeq(pending[q], 1, n))))
      /\ pending' = [pending EXCEPT ![q] = SubSeq(@, n + 1, Len(@))]
  BY <1>1, Zenon DEF ReapPrefix
<1>3. /\ retired' \in [Works -> Nat] /\ leases' \in [Works -> SUBSET Buffers]
      /\ TimesSound' /\ DepsSound' /\ \A w \in Works : retired'[w] >= retired[w]
      /\ n \in 0 .. Len(pending[q])
      /\ \A i \in 1 .. n : fence[pending[q][i].work] >= pending[q][i].value
      /\ \A i \in 1 .. n : retired'[pending[q][i].work] >= pending[q][i].value
  BY <1>0, <1>1, <1>2, Reaped, Zenon
<1>4. pending' \in [Queues -> Seq(Points)] /\ GpuSound'
  <2>1. \A r \in Queues : DOMAIN gpu[r] # {} => phase'[r] # "destroyed"
    BY <1>0, Zenon DEF GpuSound, Runnable
  <2> QED
    BY <1>0, <1>2, <1>3, <2>1, GpuReaps, Zenon
<1>5. Typed'
  BY <1>0, <1>3, <1>4, Zenon DEF Typed
<1>6. \A r \in Queues : Publishing(r) => Publishing(r)'
  BY PublishersStay, Zenon
<1>7. PendingSound'
  BY <1>0, <1>2, <1>3, <1>5, <1>6, PendingReaps, Zenon
<1>8. RingSound' /\ RingIntact' /\ HistorySound'
  BY RingFrame, HistoryFrame, Zenon DEF Inv
<1> QED
  BY <1>3, <1>4, <1>5, <1>7, <1>8, Zenon DEF Inv

\* The threads that hold a queue hold another one, whose pending entries stay.
LEMMA HoldersApart ==
  ASSUME Sized, Typed, ThreadsSound, NEW q \in Queues, producer[q] = None, ReapPrefix(q)
  PROVE  \A u \in Threads : op[u].pc \in {"room", "publish"} =>
           QueueFor(u) \in Queues /\ QueueFor(u) # q /\ pending'[QueueFor(u)] = pending[QueueFor(u)]
<1>1. \A u \in Threads : op[u].pc \in {"room", "publish"} => Dispatching(u)
  BY Places, Zenon DEF Dispatching
<1>2. \A u \in Threads : op[u].pc \in {"room", "publish"} =>
        QueueFor(u) \in Queues /\ producer[QueueFor(u)] = u
  BY <1>1, Subject, Zenon DEF ThreadsSound, ThreadSound
<1>3. None \notin Threads
  BY Zenon DEF Sized
<1>4. pending \in [Queues -> Seq(Points)]
  BY Zenon DEF Typed
<1>5. \A r \in Queues : r # q => pending'[r] = pending[r]
  BY <1>4, Zenon DEF ReapPrefix
<1> QED
  BY <1>2, <1>3, <1>5, Zenon

LEMMA StepReap ==
  ASSUME Inv, NEW t \in Threads, Reap(t)
  PROVE  Inv'
<1>0. Sized /\ Typed /\ ThreadsSound /\ Exclusive
  BY Zenon DEF Inv
<1>1. op[t].pc = "reap" /\ Dispatching(t) /\ op[t].pc # "publish" /\ op[t].pc \in Inside
  BY Places, Zenon DEF Reap, Dispatching
<1>2. PICK w, q : w = WorkOf(t) /\ q = QueueFor(t)
  BY Zenon
<1>3. q \in Queues /\ previous[w] < TimelineMax
  BY <1>0, <1>1, <1>2, Subject, Zenon DEF ThreadsSound, ThreadSound
<1>4. /\ producer[q] = None /\ ReapPrefix(q)
      /\ UNCHANGED <<write, read, ring, gpu, fence, active, previous, deps, lost, phase, history>>
  BY <1>2, Zenon DEF Reap
<1>5. \A u \in Threads : op[u].pc \in {"room", "publish"} =>
        QueueFor(u) \in Queues /\ QueueFor(u) # q /\ pending'[QueueFor(u)] = pending[QueueFor(u)]
  BY <1>0, <1>3, <1>4, HoldersApart, Zenon
<1>6. producer \in [Queues -> Threads \union {None}]
  BY <1>0, Zenon DEF Typed
<1>7. ASSUME NEW pcs, Moves(t, pcs), producer' \in [Queues -> Threads \union {None}],
             \A r \in Queues : r # q => producer'[r] = producer[r],
             op'[t].pc \in {"room", "publish"} => producer'[q] = t, op'[t].pc # "publish"
      PROVE  Inv'
  <2>1. \A u \in Threads : u # t =>
          /\ op[u].pc \in {"room", "publish"} => producer'[QueueFor(u)] = producer[QueueFor(u)]
          /\ op[u].pc = "publish" =>
               /\ active'[WorkOf(u)] = active[WorkOf(u)]
               /\ pending'[QueueFor(u)] = pending[QueueFor(u)]
               /\ write'[QueueFor(u)] = write[QueueFor(u)] /\ read'[QueueFor(u)] = read[QueueFor(u)]
    BY <1>4, <1>5, <1>7, Zenon
  <2>2. Typed' => ThreadsSound'
    BY <1>0, <1>1, <1>2, <1>3, <1>4, <1>7, <2>1, ThreadMoves, Zenon
  <2>3. Exclusive'
    BY <1>0, <1>1, <1>7, ExclusiveMoves, Zenon
  <2>4. op' \in [Threads -> Ops] /\ \A u \in Threads : u # t => op'[u] = op[u]
    BY <1>7, Zenon DEF Moves
  <2> QED
    BY <1>1, <1>3, <1>4, <1>7, <2>2, <2>3, <2>4, OnlyReaps, Zenon
<1>8. CASE Fail(t) /\ UNCHANGED producer
  <2>1. Moves(t, {"idle", "settle"})
    BY <1>0, <1>1, <1>8, Fails, Zenon
  <2>2. op'[t].pc \notin {"room", "publish"} /\ op'[t].pc # "publish"
    BY <2>1, Places, Zenon DEF Moves
  <2> QED
    BY <1>6, <1>7, <1>8, <2>1, <2>2, Zenon
<1>9. CASE Become(t, [op[t] EXCEPT !.pc = "room"]) /\ producer' = [producer EXCEPT ![QueueFor(t)] = t]
  <2>1. PICK r : r = [op[t] EXCEPT !.pc = "room"]
    BY Zenon
  <2>2. op[t] \in Pieces /\ "room" \in Inside \union {"begin", "settle"}
    BY <1>0, <1>1, Shapes, Places, Zenon
  <2>3. /\ r \in Pieces /\ r.pc = "room" /\ r.command = op[t].command /\ r.part = op[t].part
        /\ r.guard = op[t].guard /\ r.pc \notin {"await", "settle"}
    BY <2>1, <2>2 DEF Pieces
  <2>4. Become(t, r)
    BY <1>9, <2>1, Zenon
  <2>5. Moves(t, {"room"})
    BY <1>0, <2>3, <2>4, Advances, Zenon
  <2>6. op'[t].pc # "publish"
    BY <2>5 DEF Moves
  <2>7. /\ producer' \in [Queues -> Threads \union {None}] /\ producer'[q] = t
        /\ \A r2 \in Queues : r2 # q => producer'[r2] = producer[r2]
    BY <1>2, <1>3, <1>6, <1>9, Zenon
  <2> QED
    BY <1>7, <2>5, <2>6, <2>7, Zenon
<1> QED
  BY <1>8, <1>9, Zenon DEF Reap

LEMMA StepReapAfter ==
  ASSUME Inv, NEW t \in Threads, ReapAfter(t)
  PROVE  Inv'
<1>0. Sized /\ Typed /\ ThreadsSound /\ Exclusive
  BY Zenon DEF Inv
<1>1. op[t].pc \in {"await", "settle", "wait"} /\ op[t].pc # "publish"
  <2>1. op[t].pc \in {"await", "settle", "wait"}
    BY Zenon DEF ReapAfter, Waiting
  <2> QED
    BY <2>1, Places, Zenon
<1>2. op[t].pc # "wait" => Dispatching(t)
  BY <1>1, Places, Zenon DEF Dispatching
<1>3. PICK q : q = QueueOf[op[t].target.work]
  BY Zenon
<1>4. q \in Queues
  <2>1. op[t].target \in Points
    <3>1. CASE op[t].pc = "wait"
      BY <1>0, <3>1, Shapes, Zenon
    <3>2. CASE op[t].pc # "wait"
      <4>1. op[t].pc \in {"await", "settle"}
        BY <1>1, <3>2, Zenon
      <4> QED
        BY <1>0, <1>2, <3>2, <4>1, Zenon DEF ThreadsSound, ThreadSound
    <3> QED
      BY <3>1, <3>2, Zenon
  <2>2. op[t].target.work \in Works
    BY <2>1 DEF Points
  <2> QED
    BY <1>0, <1>3, <2>2, Zenon DEF Sized
<1>5. /\ producer[q] = None /\ ReapPrefix(q)
      /\ UNCHANGED <<write, read, ring, gpu, producer, fence, active, previous, deps, lost, phase, history>>
  BY <1>3, Zenon DEF ReapAfter
<1>6. \A u \in Threads : op[u].pc \in {"room", "publish"} =>
        QueueFor(u) \in Queues /\ QueueFor(u) # q /\ pending'[QueueFor(u)] = pending[QueueFor(u)]
  BY <1>0, <1>4, <1>5, HoldersApart, Zenon
<1>7. producer' \in [Queues -> Threads \union {None}]
  BY <1>0, <1>5, Zenon DEF Typed
<1>8. \A u \in Threads : u # t =>
        /\ op[u].pc \in {"room", "publish"} => producer'[QueueFor(u)] = producer[QueueFor(u)]
        /\ op[u].pc = "publish" =>
             /\ active'[WorkOf(u)] = active[WorkOf(u)]
             /\ pending'[QueueFor(u)] = pending[QueueFor(u)]
             /\ write'[QueueFor(u)] = write[QueueFor(u)] /\ read'[QueueFor(u)] = read[QueueFor(u)]
  BY <1>5, <1>6, Zenon
<1>9. CASE op[t].pc = "await"
  <2>1. Dispatching(t) /\ op[t].pc \in Inside
    BY <1>9, Places, Zenon DEF Dispatching
  <2>2. Moves(t, {"idle", "settle"}) \/ Moves(t, {"reap"})
    <3>1. CASE Fail(t)
      BY <1>0, <2>1, <3>1, Fails, Zenon
    <3>2. CASE Become(t, [op[t] EXCEPT !.pc = "reap"])
      <4>1. PICK r : r = [op[t] EXCEPT !.pc = "reap"]
        BY Zenon
      <4>2. op[t] \in Pieces /\ "reap" \in Inside \union {"begin", "settle"}
        BY <1>0, <2>1, Shapes, Places, Zenon
      <4>3. /\ r \in Pieces /\ r.pc = "reap" /\ r.command = op[t].command /\ r.part = op[t].part
            /\ r.guard = op[t].guard /\ r.pc \notin {"await", "settle"}
        BY <4>1, <4>2 DEF Pieces
      <4> QED
        BY <1>0, <3>2, <4>1, <4>3, Advances, Zenon
    <3> QED
      BY <1>3, <1>9, <3>1, <3>2, Zenon DEF ReapAfter
  <2>3. PICK pcs : Moves(t, pcs) /\ op'[t].pc \in {"idle", "settle", "reap"}
    BY <2>2, Zenon DEF Moves
  <2>4. op'[t].pc \notin {"room", "publish"} /\ op'[t].pc # "publish"
    BY <2>3, Places, Zenon
  <2>5. PICK w, q2 : w = WorkOf(t) /\ q2 = QueueFor(t)
    BY Zenon
  <2>6. previous[w] < TimelineMax
    BY <1>0, <2>1, <2>5, Zenon DEF ThreadsSound, ThreadSound
  <2>7. Typed' => ThreadsSound'
    BY <1>0, <1>5, <1>8, <2>1, <2>3, <2>4, <2>5, <2>6, ThreadMoves, Zenon
  <2>8. Exclusive'
    BY <1>0, <2>1, <2>3, ExclusiveMoves, Zenon
  <2>9. op' \in [Threads -> Ops] /\ \A u \in Threads : u # t => op'[u] = op[u]
    BY <2>3, Zenon DEF Moves
  <2> QED
    BY <1>1, <1>4, <1>5, <1>7, <2>7, <2>8, <2>9, OnlyReaps, Zenon
<1>10. CASE op[t].pc # "await"
  <2>1. Moves(t, {"idle"})
    BY <1>0, <1>3, <1>10, Returns, Zenon DEF ReapAfter
  <2>2. op' \in [Threads -> Ops] /\ op'[t].pc = "idle" /\ \A u \in Threads : u # t => op'[u] = op[u]
    BY <2>1, Zenon DEF Moves
  <2>3. Exclusive'
    BY <1>0, <2>2, Places, ExclusiveOutside, Zenon
  <2>4. ASSUME Typed', NEW u \in Threads, Dispatching(u)' PROVE ThreadSound(u)'
    <3>1. u # t
      BY <2>2, <2>4, Zenon DEF Dispatching
    <3>2. op'[u] = op[u] /\ Dispatching(u)
      BY <2>2, <2>4, <3>1, Zenon DEF Dispatching
    <3>3. read'[QueueFor(u)] >= read[QueueFor(u)]
      <4>1. QueueFor(u) \in Queues
        BY <1>0, <3>2, Subject, Zenon
      <4> QED
        BY <1>0, <1>5, <4>1 DEF Typed
    <3> QED
      BY <1>0, <1>5, <1>8, <2>4, <3>1, <3>2, <3>3, Stays, Zenon
  <2>5. Typed' => ThreadsSound'
    BY <2>4, Zenon DEF ThreadsSound
  <2> QED
    BY <1>1, <1>4, <1>5, <1>7, <2>2, <2>3, <2>5, OnlyReaps, Zenon
<1> QED
  BY <1>9, <1>10, Zenon

\* When everything that is pending has signalled, the GPU has nothing left to run.
LEMMA Drained ==
  ASSUME Sized, Typed, GpuSound, NEW q \in Queues,
         \A i \in 1 .. Len(pending[q]) : fence[pending[q][i].work] >= pending[q][i].value
  PROVE  DOMAIN gpu[q] = {}
<1> SUFFICES ASSUME NEW i \in DOMAIN gpu[q] PROVE FALSE
  BY Zenon
<1>1. PICK p : p = gpu[q][i].point
  BY Zenon
<1>2. p \in Range(pending[q]) /\ fence[p.work] < p.value
  BY <1>1, Zenon DEF GpuSound, Runnable
<1>3. PICK j \in DOMAIN pending[q] : p = pending[q][j]
  BY <1>2, Zenon DEF Range
<1>4. pending[q] \in Seq(Points)
  BY Zenon DEF Typed
<1>5. p \in Points /\ j \in 1 .. Len(pending[q])
  BY <1>3, <1>4
<1>6. p.work \in Works /\ p.value \in Nat
  BY <1>5 DEF Points
<1>7. ~(fence[p.work] >= p.value)
  BY <1>2, <1>6 DEF Typed
<1> QED
  BY <1>3, <1>5, <1>7, Zenon

LEMMA StepDrop ==
  ASSUME Inv, NEW q \in Queues, Drop(q)
  PROVE  Inv'
<1>0. Sized /\ Typed /\ ThreadsSound /\ Exclusive /\ TimesSound /\ DepsSound /\ GpuSound /\ PendingSound
  BY Zenon DEF Inv
<1>1. PICK n : n = Reapable(q)
  BY Zenon
<1>2. /\ UNCHANGED <<write, read, ring, gpu, producer, fence, active, previous, deps, op, lost, history>>
      /\ producer[q] = None /\ \A t \in Threads : ~Dispatching(t)
  BY Zenon DEF Drop, Busy, Dispatching
<1>3. Retire(VisitedBy(Range(SubSeq(pending[q], 1, n))))
  BY <1>1, Zenon DEF Drop, ReapPrefix
<1>4. /\ retired' \in [Works -> Nat] /\ leases' \in [Works -> SUBSET Buffers]
      /\ TimesSound' /\ DepsSound' /\ \A w \in Works : retired'[w] >= retired[w]
      /\ n \in 0 .. Len(pending[q])
      /\ \A i \in 1 .. n : fence[pending[q][i].work] >= pending[q][i].value
      /\ \A i \in 1 .. n : retired'[pending[q][i].work] >= pending[q][i].value
  BY <1>0, <1>1, <1>2, <1>3, Reaped, Zenon
<1>5. ThreadsSound' /\ Exclusive'
  BY <1>0, <1>2, Zenon DEF ThreadsSound, Dispatching, Exclusive, WorkOf
<1>6. RingSound' /\ RingIntact' /\ HistorySound'
  BY <1>2, RingFrame, HistoryFrame, Zenon DEF Inv
<1>7. phase' \in [Queues -> {"live", "destroyed", "leaked"}]
  BY <1>0, Zenon DEF Drop, Typed
<1>8. \A r \in Queues : Publishing(r) => Publishing(r)'
  BY <1>2, Publishers, Zenon
<1>9. phase \in [Queues -> {"live", "destroyed", "leaked"}]
  BY <1>0, Zenon DEF Typed
<1>10. CASE n = Len(pending[q]) /\ ReapPrefix(q) /\ phase' = [phase EXCEPT ![q] = "destroyed"]
  <2>1. pending' = [pending EXCEPT ![q] = SubSeq(@, n + 1, Len(@))]
    BY <1>1, <1>10, Zenon DEF ReapPrefix
  <2>2. \A r \in Queues : DOMAIN gpu[r] # {} => phase'[r] # "destroyed"
    <3>1. DOMAIN gpu[q] = {}
      BY <1>0, <1>4, <1>10, Drained, Zenon
    <3>2. \A r \in Queues : r # q => phase'[r] = phase[r]
      BY <1>9, <1>10, Zenon
    <3> QED
      BY <1>0, <3>1, <3>2, Zenon DEF GpuSound, Runnable
  <2>3. pending' \in [Queues -> Seq(Points)] /\ GpuSound'
    BY <1>0, <1>2, <1>4, <2>1, <2>2, GpuReaps, Zenon
  <2>4. Typed'
    BY <1>0, <1>2, <1>4, <1>7, <2>3, Zenon DEF Typed
  <2>5. PendingSound'
    BY <1>0, <1>2, <1>4, <1>8, <2>1, <2>4, PendingReaps, Zenon
  <2> QED
    BY <1>0, <1>4, <1>5, <1>6, <2>3, <2>4, <2>5, Zenon DEF Inv
<1>11. CASE phase' = [phase EXCEPT ![q] = "leaked"] /\ UNCHANGED pending
  <2>1. Typed'
    BY <1>0, <1>2, <1>4, <1>7, <1>11, Zenon DEF Typed
  <2>2. GpuSound'
    <3>1. phase'[q] = "leaked" /\ \A r \in Queues : r # q => phase'[r] = phase[r]
      BY <1>9, <1>11, Zenon
    <3>2. "leaked" # "destroyed"
      OBVIOUS
    <3>3. \A r \in Queues : \A i \in DOMAIN gpu[r] : phase'[r] # "destroyed"
      BY <1>0, <3>1, <3>2, Zenon DEF GpuSound, Runnable
    <3> QED
      BY <1>0, <1>2, <1>11, <3>3, Zenon DEF GpuSound, Runnable
  <2>3. PendingSound'
    BY <1>0, <1>2, <1>4, <1>8, <1>11, PendingKept, Zenon
  <2> QED
    BY <1>0, <1>4, <1>5, <1>6, <2>1, <2>2, <2>3, Zenon DEF Inv
<1> QED
  BY <1>1, <1>10, <1>11, Zenon DEF Drop

-----------------------------------------------------------------------------
(* All steps, and the theorems.                                             *)

LEMMA InitInv == ASSUME Sized, Init PROVE Inv
<1>1. /\ write = [q \in Queues |-> 0] /\ read = [q \in Queues |-> 0]
      /\ ring = [q \in Queues |-> [i \in 0 .. RingUnits - 1 |-> None]]
      /\ pending = [q \in Queues |-> <<>>] /\ gpu = [q \in Queues |-> <<>>]
      /\ producer = [q \in Queues |-> None]
      /\ fence = [w \in Works |-> 0] /\ active = [w \in Works |-> 0]
      /\ retired = [w \in Works |-> 0] /\ previous = [w \in Works |-> 0]
      /\ leases = [w \in Works |-> {}]
      /\ deps = [w \in Waits |-> None]
      /\ op = [t \in Threads |-> Idle]
      /\ phase = [q \in Queues |-> "live"] /\ history = [q \in Queues |-> <<>>]
  BY Zenon DEF Init
<1>2. <<>> \in Seq(Points) /\ <<>> \in Seq(Entries) /\ 0 \in Nat /\ "live" \in {"live", "destroyed", "leaked"}
      /\ Idle \in Ops /\ Idle.pc = "idle" /\ DOMAIN <<>> = {} /\ Len(<<>>) = 0
      /\ "idle" \notin Inside /\ "idle" \in {"idle", "wait"} /\ "idle" # "publish"
  BY DEF Ops, Idle, Inside
<1>3. Typed
  BY <1>1, <1>2, Zenon DEF Typed
<1>4. TimesSound
  <2>1. 0 <= 0 /\ ~(0 < 0) /\ 0 <= TimelineMax
    BY DEF Sized
  <2> QED
    BY <1>1, <2>1, Zenon DEF TimesSound
<1>5. ThreadsSound /\ Exclusive
  BY <1>1, <1>2, Zenon DEF ThreadsSound, Dispatching, Exclusive
<1>6. GpuSound /\ RingIntact
  BY <1>1, <1>2, Zenon DEF GpuSound, RingIntact
<1>7. RingSound
  <2>1. 0 <= 0 /\ 0 < 0 + RingUnits
    BY DEF Sized
  <2>2. ASSUME NEW q \in Queues PROVE read[q] = 0 /\ write[q] = 0 /\ gpu[q] = <<>>
    BY <1>1, Zenon
  <2>3. \A q \in Queues : read[q] <= write[q] /\ write[q] < read[q] + RingUnits /\ DOMAIN gpu[q] = {}
    BY <1>2, <2>1, <2>2
  <2> QED
    BY <2>3, Zenon DEF RingSound
<1>8. PendingSound
  <2>1. 0 = 0 - 0 /\ 0 \in 0 .. 0 /\ 1 .. 0 = {} /\ 0 + 1 .. 0 = {}
    OBVIOUS
  <2>2. \A q \in Queues : Pending(q, 0)
    BY <1>1, <1>2, <2>1, Zenon DEF Pending
  <2> QED
    BY <1>1, <1>2, <2>1, <2>2, Zenon DEF PendingSound
<1>9. HistorySound
  BY <1>1, <1>2, Zenon DEF HistorySound
<1>10. DepsSound
  BY <1>1, Zenon DEF DepsSound, Sized
<1> QED
  BY <1>3, <1>4, <1>5, <1>6, <1>7, <1>8, <1>9, <1>10, Zenon DEF Inv

LEMMA StepInv == ASSUME Inv, [Next]_vars PROVE Inv'
<1>1. CASE UNCHANGED vars
  <2>1. UNCHANGED <<write, read, ring, pending, gpu, producer, fence, active, retired,
                    previous, leases, deps, op, lost, phase, history>>
    BY <1>1, Zenon DEF vars
  <2>2. Typed' /\ TimesSound'
    BY <2>1, Zenon DEF Inv, Typed, TimesSound
  <2>3. ThreadsSound' /\ Exclusive'
    BY <2>1, Zenon DEF Inv, ThreadsSound, ThreadSound, Dispatching, Prepared, Alive, Admitted, Room, Required,
      Wrap, Cursor, NextPoint, QueueFor, WorkOf, Exclusive
  <2>4. GpuSound' /\ RingSound' /\ RingIntact'
    BY <2>1, Zenon DEF Inv, GpuSound, Runnable, RingSound, RingIntact
  <2>5. PendingSound' /\ HistorySound'
    BY <2>1, Zenon DEF Inv, PendingSound, Pending, Publishing, QueueFor, WorkOf, HistorySound
  <2>6. DepsSound'
    BY <2>1, DepsFrame, Zenon DEF Inv
  <2> QED
    BY <2>2, <2>3, <2>4, <2>5, <2>6, Zenon DEF Inv
<1>2. CASE \E t \in Threads : \/ \E c \in Commands, wait \in BOOLEAN : Dispatch(t, c, wait)
                              \/ \E p \in Points : Wait(t, p)
  BY <1>2, StepDispatch, StepWait, Zenon
<1>3. CASE \E t \in Threads : Step(t)
  BY <1>3, StepBegin, StepReap, StepRefuse, StepAdmit, StepPublish, StepPoll, StepReapAfter, Zenon DEF Step
<1>4. CASE \E w \in Waits, p \in Points : PrepareWait(w, p)
  BY <1>4, StepPrepareWait, Zenon
<1>5. CASE \E q \in Queues : Fetch(q) \/ Execute(q) \/ Drop(q)
  BY <1>5, StepFetch, StepExecute, StepDrop, Zenon
<1>6. CASE Lose
  BY <1>6, StepLose, Zenon
<1> QED
  BY <1>1, <1>2, <1>3, <1>4, <1>5, <1>6, Zenon DEF Next

-----------------------------------------------------------------------------
INSTANCE FiniteSetTheorems

\* A buffer that a thread guards is in use.
LEMMA GuardCounts ==
  ASSUME Sized, NEW t \in Threads, Busy(t), NEW b \in op[t].guard
  PROVE  Uses(b) > 0
<1>1. PICK ws, ts : /\ ws = {w \in Works : b \in leases[w]}
                    /\ ts = {u \in Threads : Busy(u) /\ b \in op[u].guard}
  BY Zenon
<1>2. ws \subseteq Works /\ ts \subseteq Threads /\ t \in ts
  BY <1>1, Zenon
<1>3. IsFiniteSet(ws) /\ IsFiniteSet(ts)
  BY <1>2, FS_Subset, Zenon DEF Sized
<1>4. Cardinality(ws) \in Nat /\ Cardinality(ts) \in Nat /\ Cardinality(ts) # 0
  BY <1>2, <1>3, FS_CardinalityType, FS_EmptySet, Zenon
<1>5. Cardinality(ws) + Cardinality(ts) > 0
  BY <1>4
<1> QED
  BY <1>1, <1>5, Zenon DEF Uses

LEMMA InvLeases == ASSUME Inv PROVE LeasesCoverUse
<1>0. Sized /\ Typed /\ TimesSound /\ ThreadsSound /\ GpuSound
  BY Zenon DEF Inv
<1>1. ASSUME NEW q \in Queues, NEW i \in DOMAIN gpu[q]
      PROVE  leases[gpu[q][i].point.work] = Operands[gpu[q][i].point.work] /\ phase[q] # "destroyed"
  <2>1. gpu[q] \in Seq(Entries)
    BY <1>0, Zenon DEF Typed
  <2>2. gpu[q][i] \in Entries
    BY <2>1
  <2>3. gpu[q][i].point \in Points
    BY <2>2 DEF Entries
  <2>4. PICK x : x = gpu[q][i].point
    BY Zenon
  <2>5. x.work \in Works /\ x.value \in Nat
    BY <2>3, <2>4 DEF Points
  <2>6. fence[x.work] < x.value /\ x.value <= previous[x.work] /\ phase[q] # "destroyed"
    BY <1>0, <2>4, Zenon DEF GpuSound, Runnable
  <2>7. /\ previous[x.work] <= active[x.work] /\ fence[x.work] \in Nat /\ previous[x.work] \in Nat
        /\ active[x.work] \in Nat /\ (fence[x.work] < active[x.work] => leases[x.work] = Operands[x.work])
    BY <1>0, <2>5, Zenon DEF TimesSound, Typed
  <2>8. fence[x.work] < active[x.work]
    BY <2>5, <2>6, <2>7
  <2> QED
    BY <2>4, <2>6, <2>7, <2>8, Zenon
<1>2. ASSUME NEW t \in Threads, Busy(t), op[t].pc # "wait", Len(op[t].command) > 1,
             NEW b \in Operands[op[t].command[Len(op[t].command)]]
      PROVE  Uses(b) > 0
  <2>1. Dispatching(t)
    BY <1>2, Zenon DEF Busy, Dispatching
  <2>2. op[t].guard = Guard(op[t].command)
    BY <1>0, <2>1, Zenon DEF ThreadsSound, ThreadSound
  <2>3. Len(op[t].command) # 1
    <3>1. ~(1 > 1)
      OBVIOUS
    <3> QED
      BY <1>2, <3>1, Zenon
  <2>4. b \in op[t].guard
    BY <1>2, <2>2, <2>3, Zenon DEF Guard
  <2> QED
    BY <1>0, <1>2, <2>4, GuardCounts, Zenon
<1> QED
  BY <1>1, <1>2, Zenon DEF LeasesCoverUse

LEMMA InvPrefix == ASSUME Inv PROVE PrefixRetired
<1>0. Sized /\ Typed /\ TimesSound /\ PendingSound /\ DepsSound
  BY Zenon DEF Inv
<1>1. ASSUME NEW w \in Waits, retired[w] > 0, NEW d \in Before(QueueOf[deps[w].event.work], deps[w].event)
      PROVE  retired[d.work] >= d.value
  <2>1. w \in Works
    BY <1>0, Zenon DEF Sized
  <2>2. retired[w] <= fence[w] /\ fence[w] <= previous[w] /\ retired[w] \in Nat /\ fence[w] \in Nat /\ previous[w] \in Nat
    BY <1>0, <2>1, Zenon DEF TimesSound, Typed
  <2>3. previous[w] # 0
    BY <1>1, <2>2
  <2>4. deps[w] # None
    BY <1>0, <2>3, Zenon DEF DepsSound
  <2>5. WaitSound(w, deps[w].event, deps[w].all)
    BY <1>0, <2>4, Zenon DEF DepsSound
  <2> QED
    BY <1>1, <2>5, Zenon DEF WaitSound
<1>2. ASSUME NEW q \in Queues, pending[q] = <<>>, NEW i \in DOMAIN history[q]
      PROVE  retired[history[q][i].work] >= history[q][i].value
  <2>1. PICK h : h = history[q]
    BY Zenon
  <2>2. PICK o \in 0 .. Len(h) : Pending(q, o)
    BY <1>0, <2>1, Zenon DEF PendingSound
  <2>3. h \in Seq(Points)
    BY <1>0, <2>1, Zenon DEF Typed
  <2>4. 0 = Len(h) - o \/ 0 = Len(h) - o + 1
    <3>1. Len(pending[q]) = 0
      BY <1>2
    <3> QED
      BY <2>1, <2>2, <3>1, Zenon DEF Pending
  <2>5. i \in DOMAIN h
    BY <1>2, <2>1, Zenon
  <2>6. i \in 1 .. o
    BY <2>2, <2>3, <2>4, <2>5
  <2> QED
    BY <2>1, <2>2, <2>6, Zenon DEF Pending
<1> QED
  BY <1>1, <1>2, Zenon DEF PrefixRetired

\* A command that waits in the ring is whole, whatever the two indexes, the
\* pad at the end of the ring and the other producers do (queue.rs:1518).
THEOREM RingKept == ASSUME Sized PROVE Spec => []RingIntact
<1>1. Init => Inv
  BY InitInv, Zenon
<1>2. Inv /\ [Next]_vars => Inv'
  BY StepInv, Zenon
<1>3. Inv => RingIntact
  BY ZenonT(30) DEF Inv
<1> QED
  BY <1>1, <1>2, <1>3, PTL DEF Spec

\* Operands are leased, and queues exist, as long as the GPU can use them
\* (queue.rs:139-164, 1405, 1548-1569).
THEOREM LeasesKept == ASSUME Sized PROVE Spec => []LeasesCoverUse
<1>1. Init => Inv
  BY InitInv, Zenon
<1>2. Inv /\ [Next]_vars => Inv'
  BY StepInv, Zenon
<1>3. Inv => LeasesCoverUse
  BY InvLeases, ZenonT(30)
<1> QED
  BY <1>1, <1>2, <1>3, PTL DEF Spec

\* What an event stands for is retired with the wait on it, and an empty
\* pending queue has retired its whole history (queue.rs:101-102, 1056-1060).
THEOREM PrefixesKept == ASSUME Sized PROVE Spec => []PrefixRetired
<1>1. Init => Inv
  BY InitInv, Zenon
<1>2. Inv /\ [Next]_vars => Inv'
  BY StepInv, Zenon
<1>3. Inv => PrefixRetired
  BY InvPrefix, Zenon
<1> QED
  BY <1>1, <1>2, <1>3, PTL DEF Spec
=============================================================================
