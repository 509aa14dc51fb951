-------------------------- MODULE SanitizedKernel ---------------------------
(***************************************************************************)
(* Instrumented kernels (src/fabric/executable.rs, sanitizer.rs and the    *)
(* preparation in aql.rs): loading against the globals of an image, the    *)
(* private code and shadow of each prepared dispatch, the packets that     *)
(* clear and run it, and the feedback channel all of them share.  The      *)
(* sizes and contents of the shadow are worked out in the second part.     *)
(***************************************************************************)
EXTENDS Naturals, Sequences, FiniteSets, SequencesExt

CONSTANTS
  AddressShadow, \* shadow bytes the bound ranges of a dispatch may need
  RaceShadow,    \* shadow bytes its grid and local memory may need
  MaximumShadow, \* maximum_shadow_bytes
  Capacity,      \* of the channel, in 64-byte units
  PrepareLimit,  \* bound: prepared dispatches
  LaunchLimit,   \* bound: launches
  ReportLimit    \* bound: reports produced

VARIABLES
  image,         \* nonempty globals of the image: "feedback", "race", "address"
  options,       \* whether SanitizerRuntimeOptions were given
  kernel,        \* "none", "refused", "loaded"
  dispatches,    \* PreparedAql commands
  ring,          \* packets not executed yet: [dispatch, step, last]
  dirty,         \* dispatches whose race shadow holds marks
  raced,         \* a kernel started on marks of another invocation
  channel,       \* packets in the channel: [kind, id]
  dropped,       \* the channel's drop count
  produced,      \* reports kernels have made
  delivered,     \* reports drains have returned, in order
  counted        \* drops drains have returned

sanitizerVars == <<image, options, kernel, dispatches, ring, dirty, raced, channel, dropped,
                   produced, delivered, counted>>

SanitizerInit ==
  /\ image \in SUBSET {"feedback", "race", "address"} /\ options \in BOOLEAN
  /\ kernel = "none" /\ dispatches = <<>> /\ ring = <<>> /\ dirty = {} /\ raced = FALSE
  /\ channel = <<>> /\ dropped = 0 /\ produced = 0 /\ delivered = <<>> /\ counted = 0

\* load_image: options and the feedback global come together, and shadow globals
\* only with options.
Load ==
  /\ kernel = "none"
  /\ LET instrumented == image \intersect {"race", "address"} # {} IN
     kernel' = IF ("feedback" \in image) = options /\ (instrumented => options)
               THEN "loaded" ELSE "refused"
  /\ UNCHANGED <<image, options, dispatches, ring, dirty, raced, channel, dropped, produced,
                 delivered, counted>>

-----------------------------------------------------------------------------
New == Len(dispatches) + 1
Instrumented == image \intersect {"race", "address"} # {}

\* Storage of dispatch n, <<kind, n>>; the loaded kernel's is <<kind, 0>>.
Code(n) == IF Instrumented THEN <<"code", n>> ELSE <<"code", 0>>
AddressState(n) == IF "address" \in image THEN {<<"shadow", n>>} ELSE {}
RaceState(n) == IF "race" \in image THEN {<<"race", n>>, <<"queue state", n>>} ELSE {}
Feedback == IF options THEN {<<"feedback", 0>>} ELSE {}

\* What the configurations in a code image point at.
Configured(n) == Feedback \union AddressState(n) \union RaceState(n)

\* Kernel::arguments: the resources of a launch.
Resources(n) == {<<"bound", 0>>, Code(n)} \union Configured(n)

\* Mutant: the utility's code and arguments are not kept for the clear packet.
ClearBuffers_None(n) == {}

ClearBuffers(n) ==
  IF "race" \in image
  THEN {<<"clear code", n>>, <<"race", n>>, <<"clear arguments", n>>, <<"clear publication", n>>}
  ELSE {}

\* Mutant: one clear at preparation is enough.
Steps_Once == <<"publish", "run">>

Steps == IF "race" \in image THEN <<"publish", "clear", "run">> ELSE <<"publish", "run">>

StepReach(n, step) ==
  CASE step = "publish" -> {<<"publication", n>>}
    [] step = "clear" -> {<<"clear code", n>>, <<"clear arguments", n>>, <<"race", n>>}
    [] step = "run" -> {Code(n), <<"arguments", n>>, <<"bound", 0>>, <<"signal", n>>}
                         \union Configured(n)

\* Mutant: each kind of shadow may use the whole limit.
RaceRoom_Whole(address) == MaximumShadow

RaceRoom(address) == MaximumShadow - address

\* AqlQueue::prepare over Kernel::for_aql: either shadow over its limit fails.
Prepare(address, race) ==
  /\ kernel = "loaded" /\ Len(dispatches) < PrepareLimit
  /\ ("address" \in image) = (address > 0) /\ ("race" \in image) = (race > 0)
  /\ address <= MaximumShadow /\ race <= RaceRoom(address)
  /\ dispatches' = Append(dispatches,
       [shadow |-> address + race, steps |-> Steps,
        buffers |-> Resources(New) \union ClearBuffers(New)
                      \union {<<"arguments", New>>, <<"publication", New>>}])
  /\ dirty' = IF "race" \in image THEN dirty \union {New} ELSE dirty \* not cleared at birth
  /\ UNCHANGED <<image, options, kernel, ring, raced, channel, dropped, produced, delivered,
                 counted>>

-----------------------------------------------------------------------------
(* Launch and execution.  Barrier bits make the queue run packet by packet  *)
(* (external); the last packet of a launch signals its completion.          *)

Launches == Cardinality({i \in DOMAIN ring : ring[i].step = "publish"})

Launch(n) ==
  /\ Launches < LaunchLimit
  /\ LET steps == dispatches[n].steps IN
     ring' = ring \o [i \in DOMAIN steps |-> [dispatch |-> n, step |-> steps[i]]]
  /\ UNCHANGED <<image, options, kernel, dispatches, dirty, raced, channel, dropped, produced,
                 delivered, counted>>

Length(kind) == IF kind = "race" THEN 3 ELSE 2
Used == FoldLeft(LAMBDA n, p : n + Length(p.kind), 0, channel)
Kinds == {"check"} \union (image \intersect {"race", "address"})

\* A running kernel reserves a packet, or counts a drop (external).
Report(kind) ==
  /\ ring # <<>> /\ Head(ring).step = "run" /\ options /\ produced < ReportLimit
  /\ produced' = produced + 1
  /\ IF Used + Length(kind) <= Capacity
     THEN channel' = Append(channel, [kind |-> kind, id |-> produced + 1]) /\ UNCHANGED dropped
     ELSE dropped' = dropped + 1 /\ UNCHANGED channel
  /\ UNCHANGED <<image, options, kernel, dispatches, ring, dirty, raced, delivered, counted>>

Execute ==
  /\ ring # <<>> /\ ring' = Tail(ring)
  /\ LET n == Head(ring).dispatch IN
     CASE Head(ring).step = "clear" -> dirty' = dirty \ {n} /\ UNCHANGED raced
       [] Head(ring).step = "run" /\ "race" \in image ->
            dirty' = dirty \union {n} /\ raced' = (raced \/ n \in dirty)
       [] OTHER -> UNCHANGED <<dirty, raced>>
  /\ UNCHANGED <<image, options, kernel, dispatches, channel, dropped, produced, delivered, counted>>

\* Mutant: the next collection starts where the drop count stopped.
Reset_Packets == dropped

Reset == 0

\* Feedback::drain: Busy while a launch holds the buffer, else decode and clear.
\* Records that do not decode fail the call, which then clears nothing.
Drain ==
  /\ kernel = "loaded" /\ options /\ ring = <<>>
  /\ delivered' = delivered \o [i \in DOMAIN channel |-> channel[i].id]
  /\ counted' = counted + dropped
  /\ channel' = <<>> /\ dropped' = Reset
  /\ UNCHANGED <<image, options, kernel, dispatches, ring, dirty, raced, produced>>

SanitizerNext ==
  \/ Load
  \/ \E address \in AddressShadow, race \in RaceShadow : Prepare(address, race)
  \/ \E n \in DOMAIN dispatches : Launch(n)
  \/ \E kind \in Kinds : Report(kind)
  \/ Execute \/ Drain

SanitizerSpec == SanitizerInit /\ [][SanitizerNext]_sanitizerVars

-----------------------------------------------------------------------------
\* "A full channel reports dropped packets explicitly" (executable.rs:149): over
\* any launches and collections every report is delivered exactly once, in
\* reservation order, or counted as dropped exactly once.
ReportsAccounted ==
  /\ produced = Len(channel) + dropped + Len(delivered) + counted
  /\ IsInjective(delivered) /\ \A i, j \in DOMAIN delivered : i < j => delivered[i] < delivered[j]

\* "AQL barrier packets order a GPU clear before every invocation, so a single
\* shadow slot is sufficient" (sanitizer.rs:336): no invocation starts on the
\* marks of an earlier one, or on storage never cleared.
ShadowFresh == ~raced

\* Whatever the packets of a prepared dispatch and the configurations in its code
\* reach is kept with the dispatch, the utility's storage included, and its
\* shadows together respect maximum_shadow_bytes.
DispatchOwned ==
  \A n \in DOMAIN dispatches :
    /\ dispatches[n].shadow <= MaximumShadow
    /\ \A step \in ToSet(dispatches[n].steps) :
         StepReach(n, step) \subseteq dispatches[n].buffers \union {<<"signal", n>>}

-----------------------------------------------------------------------------
(***************************************************************************)
(* Sizes and contents of sanitizer shadow (src/fabric/sanitizer.rs): one   *)
(* byte for eight of the bound allocations and code, eight bytes for four  *)
(* of local memory in every workgroup, and the launch that clears them.    *)
(***************************************************************************)
CONSTANTS
  RangeLists,    \* address ranges [start, length] of a dispatch
  Grids,      \* local bytes and grid of a dispatch
  Maximum,       \* maximum_shadow_bytes
  Word           \* 2^32: one past the largest u32

VARIABLES ranges, launch

ShadowInit == ranges \in RangeLists /\ launch \in Grids

Poisoned == 255
Aligned(n) == ((n + 7) \div 8) * 8
Before(a, b) == a.start < b.start \/ (a.start = b.start /\ a.length < b.length)

\* Mutant: the range that starts last decides where the merged one ends.
End_Last(last, end) == end

End(last, end) == Max({last, end})

\* The sorted ranges, those that touch merged.
Merged ==
  LET step(merged, r) ==
        LET end == r.start + r.length IN
        IF merged # <<>> /\ r.start <= Last(merged).end
        THEN Append(Front(merged), [Last(merged) EXCEPT !.end = End(@, end)])
        ELSE Append(merged, [start |-> r.start, end |-> end])
  IN  FoldLeft(step, <<>>, SortSeq(ranges, Before))

\* address_shadow: <<>> for the errors, else base, end and bytes.
AddressTable ==
  IF ranges = <<>> \/ \E r \in ToSet(ranges) : r.start % 8 # 0 \/ r.length = 0 THEN <<>>
  ELSE LET base == Head(Merged).start
           end == Aligned(Last(Merged).end)
           size == (end - base) \div 8
           fill(bytes, m) ==
             LET first == (m.start - base) \div 8
                 last == (m.end - base) \div 8
             IN  [i \in 0 .. size - 1 |->
                    IF first <= i /\ i < last THEN 0
                    ELSE IF i = last /\ m.end % 8 # 0 THEN m.end % 8 ELSE bytes[i]]
       IN  IF size > Maximum THEN <<>>
           ELSE <<[base |-> base, end |-> end,
                   bytes |-> FoldLeft(fill, [i \in 0 .. size - 1 |-> Poisoned], Merged)]>>

-----------------------------------------------------------------------------
\* Mutant: an incomplete granule of local memory has no entry.
Granules_Whole(bytes) == bytes \div 4

Granules(bytes) == (bytes + 3) \div 4

\* Mutant: the size is held against the byte limit alone.
ShadowFits_Bytes(size) == size <= Maximum

\* The clear launch of this shadow has 32-bit extents.
ShadowFits(size) == size <= Maximum /\ size \div 4 <= Word - 1 - 63

\* race_layout: <<>> for the errors, else workgroups, stride and size.  A size
\* that overflows a usize is beyond the limit as well.
RaceLayout ==
  LET groups == launch.grid[1] * launch.grid[2] * launch.grid[3]
      stride == Granules(launch.local) * 8 + 8
  IN  IF groups = 0 \/ groups >= Word \/ ~ShadowFits(stride * groups) THEN <<>>
      ELSE <<[groups |-> groups, stride |-> stride, size |-> stride * groups]>>

\* clear_kernel: words of shadow, and groups of 64 lanes that store zero where
\* their index is below it.
ClearWords(size) == size \div 4
ClearGroups(size) == (ClearWords(size) + 63) \div 64

-----------------------------------------------------------------------------
\* The instrumentation's question: is this byte of the window accessible?
Accessible(shadow, address) ==
  LET value == shadow.bytes[(address - shadow.base) \div 8]
  IN  value = 0 \/ (value # Poisoned /\ (address - shadow.base) % 8 < value)

\* "Address shadow covers bound allocations and code" (sanitizer.rs:13): in the
\* window exactly the bytes of some range are accessible, however the ranges
\* touch, nest or leave gaps, and the window holds all of them.
AddressExact ==
  \A s \in ToSet(AddressTable) :
    /\ \A r \in ToSet(ranges) : s.base <= r.start /\ r.start + r.length <= s.end
    /\ \A address \in s.base .. s.end - 1 :
         Accessible(s, address) <=>
           \E r \in ToSet(ranges) : r.start <= address /\ address < r.start + r.length

\* Every byte of local memory of every workgroup has an entry of its own behind
\* the group's header, inside the shadow; the clear launch covers all of it and
\* nothing else, and the queue accepts its extent (aql.rs:436-438).
RaceExact ==
  \A l \in ToSet(RaceLayout) :
    /\ launch.local > 0 => ((launch.local - 1) \div 4) * 8 + 8 + 8 <= l.stride
    /\ l.size = l.stride * l.groups /\ l.size <= Maximum
    /\ ClearGroups(l.size) * 64 >= ClearWords(l.size) /\ ClearWords(l.size) * 4 = l.size
    /\ ClearGroups(l.size) * 64 < Word
=============================================================================
