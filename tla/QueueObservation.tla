-------------------------- MODULE QueueObservation --------------------------
(***************************************************************************)
(* What a program may observe of its command queues.  First instrumented   *)
(* batches (src/fabric/profile.rs): ProfiledGpu::run submits a             *)
(* batch whose markers write the device counter before and after every     *)
(* command, waits, and reads one sample.                                   *)
(***************************************************************************)
EXTENDS Naturals, Sequences, FiniteSets, SequencesExt

CONSTANTS
  Labels,        \* commands of the batch: 1 .. n
  Ticks,         \* largest counter value
  RunLimit       \* bound: submissions

VARIABLES
  counter,       \* the device counter (external)
  slots,         \* timestamp buffer: label -> [start, end, run], run for the proof
  submitted,     \* submissions accepted
  marker,        \* markers of the oldest unfinished submission already written
  finished,      \* submissions the GPU has completed
  waiting,       \* run is between dispatch and read
  previousEnd, execution, \* ProfileCapture
  samples        \* what run has returned

profileVars == <<counter, slots, submitted, marker, finished, waiting, previousEnd, execution,
                 samples>>

ProfileInit ==
  /\ counter = 1 /\ slots = [l \in Labels |-> [start |-> 0, end |-> 0, run |-> 0]]
  /\ submitted = 0 /\ marker = 0 /\ finished = 0 /\ waiting = FALSE
  /\ previousEnd = 0 /\ execution = 0 /\ samples = <<>>

-----------------------------------------------------------------------------
(* The GPU (external).                                                      *)

\* The next marker of the oldest submission.  Time has passed or not, or the
\* counter has started again because the device was reset or slept.
WriteMarker(tick) ==
  /\ finished < submitted
  /\ tick \in {counter, counter + 1, 1} /\ counter' = tick
  /\ LET label == marker \div 2 + 1 IN
     slots' = [slots EXCEPT ![label] =
                 IF marker % 2 = 0 THEN [@ EXCEPT !.start = tick, !.run = finished + 1]
                                   ELSE [@ EXCEPT !.end = tick]]
  /\ IF marker + 1 = 2 * Cardinality(Labels)
     THEN marker' = 0 /\ finished' = finished + 1
     ELSE marker' = marker + 1 /\ UNCHANGED finished
  /\ UNCHANGED <<submitted, waiting, previousEnd, execution, samples>>

-----------------------------------------------------------------------------
(* ProfiledGpu::run.                                                        *)

Run ==
  /\ ~waiting /\ submitted < RunLimit
  /\ submitted' = submitted + 1 /\ waiting' = TRUE
  /\ UNCHANGED <<counter, slots, marker, finished, previousEnd, execution, samples>>

\* The wait fails; the submission stays with the GPU.
WaitFails ==
  /\ waiting /\ waiting' = FALSE
  /\ UNCHANGED <<counter, slots, submitted, marker, finished, previousEnd, execution, samples>>

Ordered(intervals) == SortSeq(intervals, LAMBDA a, b : a.start < b.start)
Malformed(i) == i.start = 0 \/ i.end < i.start

\* Mutant: a shorter interval inside the last one pulls its end back.
Extended_Last(end, i) == i.end

Extended(end, i) == Max({end, i.end})

\* interval_totals of well-formed intervals: their union and span in ticks.
Totals(intervals) ==
  LET first == Head(Ordered(intervals)).start
      step(state, i) ==
        LET start == Max({state.end, i.start}) IN
        [union |-> state.union + (IF i.end > start THEN i.end - start ELSE 0),
         end |-> Extended(state.end, i)]
      total == FoldLeft(step, [union |-> 0, end |-> first], Ordered(intervals))
  IN  [union |-> total.union, span |-> total.end - first]

\* Mutant: only the first interval is compared with the last sample.
Fresh_First(intervals) == intervals[1].start > previousEnd

Fresh(intervals) == \A i \in ToSet(intervals) : i.start > previousEnd

\* ProfileCapture::read, once the leases of every submission have retired.
Read ==
  /\ waiting /\ finished = submitted /\ waiting' = FALSE
  /\ LET intervals == [l \in Labels |-> slots[l]] IN
     IF (\E i \in ToSet(intervals) : Malformed(i)) \/ ~Fresh(intervals)
     THEN UNCHANGED <<previousEnd, execution, samples>>
     ELSE /\ previousEnd' = Max({i.end : i \in ToSet(intervals)})
          /\ execution' = execution + 1
          /\ samples' = Append(samples, [execution |-> execution', intervals |-> intervals,
                                         totals |-> Totals(intervals)])
  /\ UNCHANGED <<counter, slots, submitted, marker, finished>>

ProfileNext == (\E tick \in 1 .. Ticks : WriteMarker(tick)) \/ Run \/ WaitFails \/ Read

ProfileSpec == ProfileInit /\ [][ProfileNext]_profileVars

-----------------------------------------------------------------------------
Covered(intervals) == UNION {i.start .. i.end - 1 : i \in ToSet(intervals)}

TotalsRight(intervals) ==
  LET starts == {i.start : i \in ToSet(intervals)}
      ends == {i.end : i \in ToSet(intervals)}
  IN  /\ Totals(intervals).union = Cardinality(Covered(intervals))
      /\ Totals(intervals).span = Max(ends) - Min(starts)

\* All interval lists a buffer of three pairs could hold, for Totals.
Lists == UNION {[1 .. n -> {i \in [start : 1 .. 4, end : 1 .. 5] : i.start <= i.end}] : n \in 1 .. 3}

\* A sample is one execution: all its ticks were written by the same submission,
\* also after a failed wait or a reset counter; samples of a recorder follow each
\* other on the counter ("stale or reset GPU profile counter", profile.rs:169);
\* the union counts every tick inside some interval once ("Union of measured
\* intervals", profile.rs:107).
SamplesExact ==
  /\ \A k \in DOMAIN samples :
       /\ \A i, j \in ToSet(samples[k].intervals) : i.run = j.run
       /\ samples[k].totals.union = Cardinality(Covered(samples[k].intervals))
       /\ k > 1 => \A i \in ToSet(samples[k].intervals), j \in ToSet(samples[k - 1].intervals) :
            j.end < i.start
  /\ submitted = 0 /\ counter = 1 => \A intervals \in Lists : TotalsRight(intervals)

-----------------------------------------------------------------------------
(***************************************************************************)
(* PreparedGpu::command_snapshot (src/fabric/queue.rs): what the ring of a *)
(* PM4 queue still retains of a retired command. Words are counted in      *)
(* blocks of eight, to which every frame is padded.                        *)
(***************************************************************************)
CONSTANTS
  Lengths,       \* command -> blocks of its frame
  Consumer,      \* command -> command whose fence it waits for, or itself
  RingBlocks,    \* a power of two
  PublishLimit   \* bound: publications

VARIABLES
  ring,          \* position -> block
  write, read,   \* absolute positions of producer and GPU
  sequence, retired, \* command -> last value published, and retired
  frames,        \* publications so far: command, value, start
  snapshot       \* the last snapshot: <<>>, or command, value and starts

ringVars == <<ring, write, read, sequence, retired, frames, snapshot>>

Commands == DOMAIN Lengths
Block(op, command, value) == [op |-> op, command |-> command, value |-> value]

RingInit ==
  /\ ring = [p \in 0 .. RingBlocks - 1 |-> Block("pad", 0, 0)]
  /\ write = 0 /\ read = 0 /\ frames = <<>> /\ snapshot = <<>>
  /\ sequence = [c \in Commands |-> 0] /\ retired = [c \in Commands |-> 0]

\* A frame ends in its fence, with the value of this publication.  A consumer
\* (prepare_wait) compares its producer's fence with the value it waits for.
FenceAt(c) == Lengths[c] - 1
Frame(c, value) ==
  [i \in 0 .. Lengths[c] - 1 |->
     IF i = FenceAt(c) THEN Block("fence", c, value)
     ELSE IF i = 0 /\ Consumer[c] # c THEN Block("wait", Consumer[c], sequence[Consumer[c]])
     ELSE Block("run", c, 0)]

At(position) == position % RingBlocks

\* dispatch_one: a frame that does not fit before the end starts over at zero.
Publish(c) ==
  /\ Len(frames) < PublishLimit
  /\ LET cursor == At(write)
         wrap == IF Lengths[c] > RingBlocks - cursor THEN RingBlocks - cursor ELSE 0
         start == write + wrap
         value == sequence[c] + 1
     IN  /\ wrap + Lengths[c] < RingBlocks - At(write - read)
         /\ ring' = [p \in DOMAIN ring |->
              IF p >= At(start) /\ p < At(start) + Lengths[c] THEN Frame(c, value)[p - At(start)]
              ELSE IF wrap # 0 /\ p >= cursor THEN Block("pad", 0, 0) ELSE ring[p]]
         /\ write' = start + Lengths[c]
         /\ sequence' = [sequence EXCEPT ![c] = value]
         /\ frames' = Append(frames, [command |-> c, value |-> value, start |-> start])
  /\ UNCHANGED <<read, retired, snapshot>>

\* The GPU consumes a block (external).
Consume ==
  /\ read < write /\ read' = read + 1
  /\ LET block == ring[At(read)] IN
     retired' = IF block.op = "fence" THEN [retired EXCEPT ![block.command] = block.value]
                                      ELSE retired
  /\ UNCHANGED <<ring, write, sequence, frames, snapshot>>

-----------------------------------------------------------------------------
\* Mutant: a block with the sequence value is taken for the fence.
Matches_Value(position, c) == ring[position].value = sequence[c]

\* The complete fence packet.
Matches(position, c) == ring[position] = Block("fence", c, sequence[c])

\* No frame is looked for before the first dispatch.
Found(c) ==
  {a \in (IF write > RingBlocks THEN write - RingBlocks ELSE 0) .. write - 1 :
     /\ a + Lengths[c] <= write /\ At(a) + Lengths[c] <= RingBlocks
     /\ sequence[c] # 0 /\ Matches(At(a + FenceAt(c)), c)}

\* Of a single kernel; Busy unless its last publication has retired.
Snapshot(c) ==
  /\ Consumer[c] = c /\ retired[c] >= sequence[c]
  /\ snapshot' = <<[command |-> c, value |-> sequence[c], starts |-> Found(c),
                    words |-> [a \in Found(c) |->
                                 [i \in 0 .. Lengths[c] - 1 |-> ring[At(a + i)]]]]>>
  /\ UNCHANGED <<ring, write, read, sequence, retired, frames>>

RingNext == Consume \/ \E c \in Commands : Publish(c) \/ Snapshot(c)

RingSpec == RingInit /\ [][RingNext]_ringVars

-----------------------------------------------------------------------------
\* "Match the complete fence packet, not just a sequence value: consumers can
\* also reference the producer's fence address" and "consumed commands may
\* already be overwritten" (queue.rs:1306, 1211): a snapshot reports exactly the
\* last publication of its command while the ring still holds it, with the words
\* that were published, and otherwise none.
SnapshotExact ==
  \A s \in ToSet(snapshot) :
    LET own == {f.start : f \in {g \in ToSet(frames) : g.command = s.command /\ g.value = s.value}}
    IN  /\ s.starts \subseteq own
        /\ \A a \in s.starts : \A i \in 0 .. Lengths[s.command] - 1 :
             s.words[a][i] = IF i = FenceAt(s.command)
                             THEN Block("fence", s.command, s.value)
                             ELSE Block("run", s.command, 0)
        /\ \A start \in own : write <= start + RingBlocks => start \in s.starts
=============================================================================
