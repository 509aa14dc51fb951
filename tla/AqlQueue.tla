----------------------------- MODULE AqlQueue -----------------------------
(***************************************************************************)
(* The AQL producer of src/fabric/aql.rs: absolute 64-bit ring indexes, a  *)
(* completion signal that counts down from i64::MAX, leases shared by all  *)
(* invocations of a prepared dispatch, and optional firmware timestamps    *)
(* which live in the signal and are captured before the next invocation.   *)
(***************************************************************************)
EXTENDS Naturals, Sequences, FiniteSets, SequencesExt

CONSTANTS
  AqlWorks, AqlThreads,
  Packets,       \* packets of a prepared dispatch: publication, clear, kernel
  RingSlots,     \* ring_byte_length / 64
  AqlPending,    \* 4096 in the code
  SignalMax,     \* i64::MAX in the code
  Nobody

VARIABLES
  profiled,      \* the queue was created with timestamps
  produced, consumed, slots, waiting, onGpu, holder,
  signal, current, settled, leased, nextPoint,
  ticks,         \* the signal's timestamp words: 0 or the invocation that wrote them
  capture,       \* Work::timing: the invocation whose sample is to be captured
  sample,        \* the OnceLock of every completion
  task, failed, closed

aqlVars == <<profiled, produced, consumed, slots, waiting, onGpu, holder, signal, current,
             settled, leased, nextPoint, ticks, capture, sample, task, failed, closed>>

AqlPoints == [work : AqlWorks, point : 1 .. SignalMax]
Resting == [pc |-> "idle"]

AqlInit ==
  /\ profiled \in BOOLEAN
  /\ produced = 0 /\ consumed = 0
  /\ slots = [i \in 0 .. RingSlots - 1 |-> Nobody]
  /\ waiting = <<>> /\ onGpu = <<>> /\ holder = Nobody
  /\ signal = [w \in AqlWorks |-> SignalMax]
  /\ current = [w \in AqlWorks |-> 0] /\ settled = [w \in AqlWorks |-> 0]
  /\ leased = [w \in AqlWorks |-> FALSE] /\ nextPoint = [w \in AqlWorks |-> 0]
  /\ ticks = [w \in AqlWorks |-> 0] /\ capture = [w \in AqlWorks |-> 0]
  /\ sample = [p \in AqlPoints |-> Nobody]
  /\ task = [t \in AqlThreads |-> Resting]
  /\ failed = FALSE /\ closed = "live"

Completed(w) == SignalMax - signal[w]
Turn(t, state) == task' = [task EXCEPT ![t] = state]

-----------------------------------------------------------------------------
(* Work::refresh. `seen` is the signal as read before the lease lock.       *)

\* Mutant: leases and sample are taken whatever invocation is active.
LastInvocation_Any(w, seen) == TRUE

LastInvocation(w, seen) == seen >= current[w]

\* The locked half of refresh, for a set of works and the counts seen for them.
Settle(ws, seen) ==
  /\ leased' = [w \in AqlWorks |-> IF w \in ws /\ LastInvocation(w, seen[w]) THEN FALSE ELSE leased[w]]
  /\ sample' = [p \in AqlPoints |->
                  IF /\ p.work \in ws /\ LastInvocation(p.work, seen[p.work])
                     /\ capture[p.work] = p.point /\ sample[p] = Nobody
                  THEN ticks[p.work] ELSE sample[p]]
  /\ settled' = [w \in AqlWorks |->
                   IF w \in ws /\ seen[w] > settled[w] THEN seen[w] ELSE settled[w]]

Finished(p) == settled[p.work] >= p.point \/ Completed(p.work) >= p.point

Drained ==
  CHOOSE n \in 0 .. Len(waiting) :
    /\ \A i \in 1 .. n : Finished(waiting[i])
    /\ n < Len(waiting) => ~Finished(waiting[n + 1])

DrainPrefix ==
  /\ Settle({w \in AqlWorks : \E i \in 1 .. Drained :
               waiting[i].work = w /\ settled[w] < waiting[i].point},
            [w \in AqlWorks |-> Completed(w)])
  /\ waiting' = SubSeq(waiting, Drained + 1, Len(waiting))

-----------------------------------------------------------------------------
Start(t, w) ==
  /\ task[t].pc = "idle" /\ closed = "live"
  /\ \A u \in AqlThreads : task[u].pc \in {"reserve", "write"} => task[u].work # w
  /\ nextPoint[w] < SignalMax
  /\ Turn(t, [pc |-> "drain", work |-> w])
  /\ UNCHANGED <<profiled, produced, consumed, slots, waiting, onGpu, holder, signal, current,
                 settled, leased, nextPoint, ticks, capture, sample, failed, closed>>

\* Reap under the producer lock.
Drain(t) ==
  /\ task[t].pc = "drain" /\ holder = Nobody
  /\ \A u \in AqlThreads : task[u].pc \in {"reserve", "write"} => task[u].work # task[t].work
  /\ DrainPrefix
  /\ holder' = t
  /\ Turn(t, [task[t] EXCEPT !.pc = "reserve"])
  /\ UNCHANGED <<profiled, produced, consumed, slots, onGpu, signal, current, nextPoint, ticks,
                 capture, failed, closed>>

\* Mutant: a free slot too many.
NoRoom_OffByOne(w) ==
  Len(waiting) = AqlPending \/ produced + Packets[w] > consumed + RingSlots + 1

NoRoom(w) == Len(waiting) = AqlPending \/ produced + Packets[w] > consumed + RingSlots

\* Mutant: a profiled dispatch may overtake its own running invocation.
Executing_Never(w) == FALSE

Executing(w) == profiled /\ current[w] > settled[w]

Reject(t) ==
  /\ task[t].pc = "reserve" /\ (NoRoom(task[t].work) \/ Executing(task[t].work))
  /\ holder' = Nobody /\ Turn(t, Resting)
  /\ UNCHANGED <<profiled, produced, consumed, slots, waiting, onGpu, signal, current,
                 settled, leased, nextPoint, ticks, capture, sample, failed, closed>>

\* Timestamps cleared, sample bound, leases taken, point active: one lease lock.
\* A lease that cannot be taken leaves the new capture behind without a point.
Reserve(t) ==
  /\ task[t].pc = "reserve"
  /\ LET w == task[t].work
         p == [work |-> w, point |-> nextPoint[w] + 1]
     IN
     /\ ~NoRoom(w) /\ ~Executing(w)
     /\ ticks' = IF profiled THEN [ticks EXCEPT ![w] = 0] ELSE ticks
     /\ \/ /\ capture' = IF profiled THEN [capture EXCEPT ![w] = p.point] ELSE capture
           /\ leased' = [leased EXCEPT ![w] = TRUE]
           /\ current' = [current EXCEPT ![w] = p.point]
           /\ waiting' = Append(waiting, p)
           /\ produced' = produced + Packets[w]
           /\ Turn(t, [pc |-> "write", work |-> w, packet |-> 0])
           /\ UNCHANGED holder
        \/ /\ ~leased[w]
           /\ capture' = IF profiled THEN [capture EXCEPT ![w] = 0] ELSE capture
           /\ holder' = Nobody /\ Turn(t, Resting)
           /\ UNCHANGED <<leased, current, waiting, produced>>
  /\ UNCHANGED <<profiled, consumed, slots, onGpu, signal, settled, nextPoint, sample, failed,
                 closed>>

\* Packets become valid one at a time, header last, each with its doorbell.
Write(t) ==
  /\ task[t].pc = "write"
  /\ LET w == task[t].work
         n == task[t].packet
         p == [work |-> w, point |-> nextPoint[w] + 1]
         index == produced - Packets[w] + n
         entry == [owner |-> p, index |-> index, final |-> n + 1 = Packets[w]]
     IN
     /\ slots' = [slots EXCEPT ![index % RingSlots] = entry]
     /\ onGpu' = Append(onGpu, entry)
     /\ IF entry.final
          THEN /\ nextPoint' = [nextPoint EXCEPT ![w] = p.point]
               /\ holder' = Nobody /\ Turn(t, Resting)
          ELSE /\ Turn(t, [task[t] EXCEPT !.packet = n + 1])
               /\ UNCHANGED <<nextPoint, holder>>
  /\ UNCHANGED <<profiled, produced, consumed, waiting, signal, current, settled, leased,
                 ticks, capture, sample, failed, closed>>

-----------------------------------------------------------------------------
(* AqlCompletion::refresh, wait_timeout and wait.                           *)

Observe(t, p) ==
  /\ task[t].pc = "idle" /\ closed = "live" /\ nextPoint[p.work] >= p.point
  /\ \/ /\ settled[p.work] >= p.point
        /\ Turn(t, [pc |-> "reap"])
     \/ /\ settled[p.work] < p.point /\ Completed(p.work) >= p.point
        /\ Turn(t, [pc |-> "settle", work |-> p.work, seen |-> Completed(p.work)])
  /\ UNCHANGED <<profiled, produced, consumed, slots, waiting, onGpu, holder, signal, current,
                 settled, leased, nextPoint, ticks, capture, sample, failed, closed>>

SettleSeen(t) ==
  /\ task[t].pc = "settle"
  /\ Settle({task[t].work}, [w \in AqlWorks |-> task[t].seen])
  /\ Turn(t, [pc |-> "reap"])
  /\ UNCHANGED <<profiled, produced, consumed, slots, waiting, onGpu, holder, signal, current,
                 nextPoint, ticks, capture, failed, closed>>

ReapWaiting(t) ==
  /\ task[t].pc = "reap" /\ holder = Nobody
  /\ DrainPrefix
  /\ Turn(t, Resting)
  /\ UNCHANGED <<profiled, produced, consumed, slots, onGpu, holder, signal, current,
                 nextPoint, ticks, capture, failed, closed>>

-----------------------------------------------------------------------------
(* The packet processor (external): packets in order; the last packet of a  *)
(* dispatch writes its timestamps and then decrements its signal.           *)

Process ==
  /\ ~failed /\ onGpu # <<>>
  /\ consumed' = Head(onGpu).index + 1
  /\ IF Head(onGpu).final
       THEN LET p == Head(onGpu).owner IN
            /\ ticks' = IF profiled THEN [ticks EXCEPT ![p.work] = p.point] ELSE ticks
            /\ signal' = [signal EXCEPT ![p.work] = @ - 1]
       ELSE UNCHANGED <<ticks, signal>>
  /\ onGpu' = Tail(onGpu)
  /\ UNCHANGED <<profiled, produced, slots, waiting, holder, current, settled, leased,
                 nextPoint, capture, sample, task, failed, closed>>

FailQueue ==
  /\ ~failed /\ failed' = TRUE
  /\ UNCHANGED <<profiled, produced, consumed, slots, waiting, onGpu, holder, signal, current,
                 settled, leased, nextPoint, ticks, capture, sample, task, closed>>

\* QueueState::drop settles what ends within ten seconds; unless that is all of
\* it and the provider destroys the queue, queue, scratch and leases are leaked.
DropQueue ==
  /\ closed = "live" /\ \A t \in AqlThreads : task[t].pc = "idle"
  /\ DrainPrefix
  /\ \/ Drained = Len(waiting) /\ closed' = "destroyed"
     \/ closed' = "leaked"
  /\ UNCHANGED <<profiled, produced, consumed, slots, onGpu, holder, signal, current,
                 nextPoint, ticks, capture, task, failed>>

AqlStep(t) == Drain(t) \/ Reject(t) \/ Reserve(t) \/ Write(t) \/ SettleSeen(t) \/ ReapWaiting(t)

AqlNext ==
  \/ \E t \in AqlThreads :
       (\E w \in AqlWorks : Start(t, w)) \/ (\E p \in AqlPoints : Observe(t, p)) \/ AqlStep(t)
  \/ Process \/ FailQueue \/ DropQueue

AqlSpec == AqlInit /\ [][AqlNext]_aqlVars

-----------------------------------------------------------------------------
\* No packet is overwritten before the processor has consumed it, although the
\* ring may be completely full (aql.rs:647), and everything a running dispatch
\* touches stays leased by its work until that work's last invocation ends.
PacketsIntact ==
  /\ \A i \in DOMAIN onGpu : slots[onGpu[i].index % RingSlots] = onGpu[i]
  /\ \A i \in DOMAIN onGpu : leased[onGpu[i].owner.work] /\ closed # "destroyed"

\* "Samples remain valid after later replays" (aql.rs:152): a completion's
\* timestamps are those of its own invocation, never unwritten or another's,
\* and they are there as soon as its retirement is visible.
SamplesOwn ==
  /\ \A p \in AqlPoints : sample[p] # Nobody => sample[p] = p.point
  /\ profiled => \A p \in AqlPoints :
       settled[p.work] >= p.point => sample[p] = p.point
=============================================================================
