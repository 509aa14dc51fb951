---------------------------- MODULE KernelCache ----------------------------
(***************************************************************************)
(* Kernels, Pending and KeyedKernels (loom.rs): the loaded executables of  *)
(* one device, the requests waiting to be built, the batch that builds     *)
(* them on the workers of Compiler::compile_all, and the index from a      *)
(* caller's keys to artifact keys.                                         *)
(*                                                                         *)
(* The sections under the state mutex are single steps.  The build lock    *)
(* and the lock of the caller-key index are held across steps.  A kernel   *)
(* is the artifact it was loaded from together with the loading device.    *)
(***************************************************************************)
EXTENDS Integers, Sequences, FiniteSets, Functions, TLAPS

CONSTANTS Threads, Artifacts, CallerKeys, Devices, Workers,
          ArtifactOf,     \* the artifact a caller key compiles to
          Nothing

VARIABLES device, ready, waiting, active, indexOf, buildLock, keysLock, batch, call, loads

vars == <<device, ready, waiting, active, indexOf, buildLock, keysLock, batch, call, loads>>

NoBatch == [requests |-> <<>>, next |-> 1, slots |-> <<>>, at |-> 1, unbuilt |-> <<>>,
            doing |-> [w \in Workers |-> 0]]
Idle == [at |-> "idle", artifact |-> Nothing, caller |-> Nothing, on |-> Nothing,
         failure |-> FALSE, kernel |-> Nothing, pending |-> FALSE]
Resting == {"idle", "held", "done", "error", "never"}

Init ==
    /\ device = Nothing
    /\ ready = [a \in Artifacts |-> Nothing]
    /\ waiting = <<>>
    /\ active = {}
    /\ indexOf = [c \in CallerKeys |-> Nothing]
    /\ buildLock = Nothing
    /\ keysLock = Nothing
    /\ batch = NoBatch
    /\ call = [t \in Threads |-> Idle]
    /\ loads = [a \in Artifacts |-> 0]

Claims(d) == device \in {Nothing, d}
Claim(d) == device' = IF device = Nothing THEN d ELSE device

\* Requests not known to be loaded, being built or waiting join the queue.
Known_Inactive(a) == ready[a] # Nothing \/ a \in Range(waiting)
Known(a) == ready[a] # Nothing \/ a \in active \/ a \in Range(waiting)
Enqueued(a) == IF Known(a) THEN waiting ELSE Append(waiting, a)

Goto(t, at) == [call EXCEPT ![t] = [@ EXCEPT !.at = at]]
End(t, at, kernel) == [call EXCEPT ![t] = [@ EXCEPT !.at = at, !.kernel = kernel]]

-----------------------------------------------------------------------------
(* Kernels::request and KeyedKernels::request_or_insert_with.               *)

Request(t, a) ==
    /\ call[t].at \in Resting
    /\ waiting' = Enqueued(a)
    /\ call' = [call EXCEPT ![t] = [Idle EXCEPT !.at = "held", !.artifact = a,
                                               !.pending = TRUE]]
    /\ UNCHANGED <<device, ready, active, indexOf, buildLock, keysLock, batch, loads>>

KeyedRequest(t, c, d) ==
    /\ call[t].at \in Resting
    /\ keysLock = Nothing
    /\ IF ~Claims(d)
       THEN /\ call' = [call EXCEPT ![t] = [Idle EXCEPT !.at = "error"]]
            /\ UNCHANGED <<device, waiting, indexOf>>
       ELSE /\ Claim(d)
            /\ waiting' = IF indexOf[c] = Nothing THEN Enqueued(ArtifactOf[c]) ELSE waiting
            /\ indexOf' = [indexOf EXCEPT ![c] = ArtifactOf[c]]
            /\ call' = [call EXCEPT ![t] = [Idle EXCEPT !.at = "held",
                                                        !.artifact = ArtifactOf[c],
                                                        !.pending = TRUE]]
    /\ UNCHANGED <<ready, active, buildLock, keysLock, batch, loads>>

-----------------------------------------------------------------------------
(* Pending::resolve: the loaded kernel, or one batch and another look.      *)

Resolve(t, d) ==
    LET a == call[t].artifact IN
    /\ call[t].at \in {"held", "error"}
    /\ call[t].pending
    /\ call' = [call EXCEPT ![t] = [@ EXCEPT !.at = IF ready[a] = Nothing THEN "build" ELSE "done",
                                             !.on = d, !.failure = FALSE,
                                             !.kernel = ready[a]]]
    /\ UNCHANGED <<device, ready, waiting, active, indexOf, buildLock, keysLock, batch, loads>>

\* Cache::build_with up to the compilation.  An unclaimable device and an
\* empty queue return at once.
Build(t) ==
    /\ call[t].at = "build"
    /\ buildLock = Nothing
    /\ IF Claims(call[t].on) /\ waiting # <<>>
       THEN /\ Claim(call[t].on)
            /\ buildLock' = t
            /\ batch' = [NoBatch EXCEPT !.requests = waiting,
                                        !.slots = [i \in DOMAIN waiting |-> Nothing]]
            /\ active' = active \union Range(waiting)
            /\ waiting' = <<>>
            /\ call' = Goto(t, "batch")
       ELSE /\ call' = [call EXCEPT ![t] = [@ EXCEPT !.at = "look",
                                                     !.failure = ~Claims(call[t].on)]]
            /\ device' = IF Claims(call[t].on) THEN call[t].on ELSE device
            /\ UNCHANGED <<waiting, active, buildLock, batch>>
    /\ UNCHANGED <<ready, indexOf, keysLock, loads>>

Remaining_ButLast == batch.next < Len(batch.requests)
Remaining == batch.next <= Len(batch.requests)

\* A worker of compile_all draws the next request ...
Draw(w) ==
    /\ buildLock # Nothing
    /\ batch.doing[w] = 0
    /\ Remaining
    /\ batch' = [batch EXCEPT !.doing = [batch.doing EXCEPT ![w] = batch.next],
                              !.next = batch.next + 1]
    /\ UNCHANGED <<device, ready, waiting, active, indexOf, buildLock, keysLock, call, loads>>

\* ... and leaves the outcome, an artifact or an error, in the request's slot.
Slot_Finished(i) == Cardinality({j \in DOMAIN batch.slots : batch.slots[j] # Nothing}) + 1
Slot(i) == i

Compiled(w, succeeds) ==
    LET i == batch.doing[w] IN
    /\ i # 0
    /\ batch' = [batch EXCEPT !.doing = [batch.doing EXCEPT ![w] = 0],
                              !.slots = [batch.slots EXCEPT ![Slot(i)] =
                                           IF succeeds THEN batch.requests[i] ELSE "error"]]
    /\ UNCHANGED <<device, ready, waiting, active, indexOf, buildLock, keysLock, call, loads>>

\* The batch is loaded in request order once every slot is filled.
Load(t, succeeds) ==
    LET i == batch.at
        a == batch.requests[i]
        loaded == succeeds /\ batch.slots[i] # "error" IN
    /\ call[t].at = "batch"
    /\ buildLock = t
    /\ Nothing \notin Range(batch.slots)
    /\ i <= Len(batch.requests)
    /\ IF loaded
       THEN /\ ready' = [ready EXCEPT ![a] = [of |-> batch.slots[i], on |-> call[t].on]]
            /\ loads' = [loads EXCEPT ![a] = @ + 1]
            /\ batch' = [batch EXCEPT !.at = i + 1]
            /\ UNCHANGED call
       ELSE /\ batch' = [batch EXCEPT !.at = i + 1, !.unbuilt = Append(batch.unbuilt, a)]
            /\ call' = [call EXCEPT ![t] = [@ EXCEPT !.failure = TRUE]]
            /\ UNCHANGED <<ready, loads>>
    /\ UNCHANGED <<device, waiting, active, indexOf, buildLock, keysLock>>

\* Failures go back to the front of the queue, still wanted.
Requeued_Dropped == waiting
Requeued == batch.unbuilt \o waiting

FinishBatch(t) ==
    /\ call[t].at = "batch"
    /\ buildLock = t
    /\ Nothing \notin Range(batch.slots)
    /\ batch.at > Len(batch.requests)
    /\ waiting' = Requeued
    /\ active' = {}
    /\ buildLock' = Nothing
    /\ batch' = NoBatch
    /\ call' = Goto(t, "look")
    /\ UNCHANGED <<device, ready, indexOf, keysLock, loads>>

Look(t) ==
    LET a == call[t].artifact IN
    /\ call[t].at = "look"
    /\ call' = End(t, CASE ready[a] # Nothing -> "done" [] call[t].failure -> "error"
                        [] OTHER -> "never", ready[a])
    /\ UNCHANGED <<device, ready, waiting, active, indexOf, buildLock, keysLock, batch, loads>>

-----------------------------------------------------------------------------
(* Kernels::get_module, for a direct call and for a missed caller key,      *)
(* which holds the lock of the index throughout.                            *)

\* Kernels::get up to the build lock.
Get(t, a, d) ==
    /\ call[t].at \in Resting
    /\ Claim(d)
    /\ call' = [call EXCEPT ![t] =
          [Idle EXCEPT !.artifact = a, !.on = d,
                       !.kernel = IF Claims(d) THEN ready[a] ELSE Nothing,
                       !.at = CASE ~Claims(d) -> "error" [] ready[a] # Nothing -> "done"
                                [] OTHER -> "miss"]]
    /\ UNCHANGED <<ready, waiting, active, indexOf, buildLock, keysLock, batch, loads>>

\* KeyedKernels::get_or_insert_with: a known key whose kernel is not loaded
\* is resolved without the lock.
KeyedGet(t, c, d) ==
    LET a == ArtifactOf[c] IN
    /\ call[t].at \in Resting
    /\ keysLock = Nothing
    /\ Claim(d)
    /\ call' = [call EXCEPT ![t] =
          [Idle EXCEPT !.artifact = a, !.on = d, !.caller = c,
                       !.kernel = IF Claims(d) THEN ready[a] ELSE Nothing,
                       !.at = CASE ~Claims(d) -> "error"
                                [] Claims(d) /\ ready[a] # Nothing -> "done"
                                [] Claims(d) /\ ready[a] = Nothing /\ indexOf[c] # Nothing -> "build"
                                [] OTHER -> "miss"]]
    /\ keysLock' = IF call'[t].at = "miss" THEN t ELSE keysLock
    /\ indexOf' = IF call'[t].at = "done" THEN [indexOf EXCEPT ![c] = a] ELSE indexOf
    /\ UNCHANGED <<ready, waiting, active, buildLock, batch, loads>>

Unkeyed(t) == keysLock' = IF keysLock = t THEN Nothing ELSE keysLock

GetLock(t) ==
    LET a == call[t].artifact IN
    /\ call[t].at = "miss"
    /\ buildLock = Nothing
    /\ IF ready[a] # Nothing
       THEN /\ call' = End(t, "done", ready[a])
            /\ indexOf' = IF keysLock = t THEN [indexOf EXCEPT ![call[t].caller] = a] ELSE indexOf
            /\ Unkeyed(t)
            /\ UNCHANGED buildLock
       ELSE /\ buildLock' = t
            /\ call' = Goto(t, "compile")
            /\ UNCHANGED <<indexOf, keysLock>>
    /\ UNCHANGED <<device, ready, waiting, active, batch, loads>>

\* Module::compile and Stream::load_artifact.
GetLoad(t) ==
    LET a == call[t].artifact IN
    /\ call[t].at = "compile"
    /\ loads' = [loads EXCEPT ![a] = @ + 1]
    /\ call' = End(t, "publish", [of |-> a, on |-> call[t].on])
    /\ UNCHANGED <<device, ready, waiting, active, indexOf, buildLock, keysLock, batch>>

GetFails(t) ==
    /\ call[t].at = "compile"
    /\ buildLock' = Nothing
    /\ Unkeyed(t)
    /\ call' = End(t, "error", Nothing)
    /\ UNCHANGED <<device, ready, waiting, active, indexOf, batch, loads>>

\* A request queued meanwhile is satisfied by this kernel (retain: it waits once).
Withdrawn_Not(a) == waiting
Without(s, i) == SubSeq(s, 1, i - 1) \o SubSeq(s, i + 1, Len(s))
Withdrawn(a) ==
    IF a \in Range(waiting)
    THEN Without(waiting, CHOOSE i \in DOMAIN waiting : waiting[i] = a) ELSE waiting

GetPublish(t) ==
    LET a == call[t].artifact IN
    /\ call[t].at = "publish"
    /\ waiting' = Withdrawn(a)
    /\ ready' = [ready EXCEPT ![a] = call[t].kernel]
    /\ indexOf' = IF keysLock = t THEN [indexOf EXCEPT ![call[t].caller] = a] ELSE indexOf
    /\ Unkeyed(t)
    /\ buildLock' = Nothing
    /\ call' = Goto(t, "done")
    /\ UNCHANGED <<device, active, batch, loads>>

-----------------------------------------------------------------------------
Step(t) ==
    \/ Build(t) \/ \E succeeds \in BOOLEAN : Load(t, succeeds)
    \/ FinishBatch(t) \/ Look(t)
    \/ GetLock(t) \/ GetLoad(t) \/ GetFails(t) \/ GetPublish(t)

Work(w) == Draw(w) \/ \E succeeds \in BOOLEAN : Compiled(w, succeeds)

Call(t) ==
    \/ \E a \in Artifacts : Request(t, a) \/ \E d \in Devices : Get(t, a, d)
    \/ \E d \in Devices : Resolve(t, d)
    \/ \E c \in CallerKeys, d \in Devices : KeyedRequest(t, c, d) \/ KeyedGet(t, c, d)

Next == (\E t \in Threads : Step(t) \/ Call(t)) \/ \E w \in Workers : Work(w)

Spec == Init /\ [][Next]_vars

-----------------------------------------------------------------------------
(* "Share the batch publication lock so direct requests cannot load a       *)
(* second executable" (loom.rs:1489): an artifact is loaded at most once,   *)
(* and what is published under a key was compiled from that key's request   *)
(* although compile_all finishes the batch in any order.                    *)
LoadedOnce ==
    \A a \in Artifacts : /\ loads[a] <= 1
                         /\ ready[a] # Nothing => ready[a].of = a /\ ready[a].on = device

(* "dropping it would leave the handles that asked for it waiting on        *)
(* nothing" (loom.rs:1567): the artifact of every handle and every indexed  *)
(* caller key is loaded, being built or queued, so that no resolve ends in  *)
(* "kernel was never requested".                                            *)
WantedKept ==
    LET kept == {a \in Artifacts : ready[a] # Nothing} \union active \union Range(waiting) IN
    /\ \A t \in Threads :
         /\ call[t].at \in {"build", "look"} \/ call[t].pending => call[t].artifact \in kept
         /\ call[t].at # "never"
    /\ \A c \in CallerKeys : indexOf[c] # Nothing => indexOf[c] \in kept

-----------------------------------------------------------------------------
(* Proofs, for every set of threads, artifacts, caller keys, devices and    *)
(* workers: an artifact is loaded once, what is stored under it was built   *)
(* from it, and no request is forgotten.                                    *)

Kernel == [of : Artifacts, on : Devices]

\* Nothing is neither a thread, an artifact, a device nor a kernel, and an error is
\* not an artifact.
Sized ==
  /\ Nothing \notin Threads \union Artifacts \union Devices \union Kernel
  /\ "error" \notin Artifacts \union {Nothing}
  /\ ArtifactOf \in [CallerKeys -> Artifacts]

Locking == {"batch", "compile", "publish"}
Missing == {"miss", "compile", "publish"}
Stages == {"idle", "held", "done", "error", "build", "look", "miss"} \union Locking
Calls == [at : Stages, artifact : Artifacts \union {Nothing}, caller : CallerKeys \union {Nothing},
          on : Devices \union {Nothing}, failure : BOOLEAN, kernel : Kernel \union {Nothing},
          pending : BOOLEAN]
Batches == [requests : Seq(Artifacts), next : Nat \ {0}, at : Nat \ {0}, unbuilt : Seq(Artifacts),
            slots : Seq(Artifacts \union {Nothing, "error"}), doing : [Workers -> Nat]]
Distinct(s) == \A i, j \in DOMAIN s : s[i] = s[j] => i = j
Kept == {a \in Artifacts : ready[a] # Nothing} \union active \union Range(waiting)

Typed ==
  /\ device \in Devices \union {Nothing} /\ ready \in [Artifacts -> Kernel \union {Nothing}]
  /\ waiting \in Seq(Artifacts) /\ active \in SUBSET Artifacts
  /\ indexOf \in [CallerKeys -> Artifacts \union {Nothing}]
  /\ buildLock \in Threads \union {Nothing} /\ keysLock \in Threads \union {Nothing}
  /\ batch \in Batches /\ call \in [Threads -> Calls] /\ loads \in [Artifacts -> {0, 1}]

\* A kernel under a key was built from it, on the cache's device; nothing else was
\* loaded except what the holder of the build lock is about to publish.
ReadySound ==
  \A a \in Artifacts :
    /\ ready[a] # Nothing => ready[a] = [of |-> a, on |-> device]
    /\ loads[a] # 0 =>
         \/ ready[a] # Nothing
         \/ /\ buildLock # Nothing /\ call[buildLock].at = "publish"
            /\ call[buildLock].artifact = a

\* What waits is not loaded and not being built, and waits once.
WaitingSound ==
  /\ Distinct(waiting)
  /\ \A i \in DOMAIN waiting : ready[waiting[i]] = Nothing /\ waiting[i] \notin active

\* The batch in progress, and its requests up to and from the next one to load.
BatchSound ==
  /\ Distinct(batch.requests)
  /\ active = Range(batch.requests)
  /\ batch.requests # <<>> => buildLock # Nothing /\ call[buildLock].at = "batch"
  /\ Len(batch.slots) = Len(batch.requests)
  /\ \A i \in DOMAIN batch.requests : batch.slots[i] \in {Nothing, "error", batch.requests[i]}
  /\ \A w \in Workers : batch.doing[w] <= Len(batch.requests)
  /\ \A i \in DOMAIN batch.requests :
       IF i >= batch.at THEN ready[batch.requests[i]] = Nothing
       ELSE ready[batch.requests[i]] # Nothing \/ batch.requests[i] \in Range(batch.unbuilt)
  /\ Distinct(batch.unbuilt)
  /\ \A i \in DOMAIN batch.unbuilt :
       /\ ready[batch.unbuilt[i]] = Nothing
       /\ \E j \in DOMAIN batch.requests : j < batch.at /\ batch.requests[j] = batch.unbuilt[i]

\* What a thread in a call relies on.
CallSound(t) ==
  LET c == call[t] IN
  /\ c.at \in Locking <=> buildLock = t
  /\ c.at \in {"build", "look", "miss"} \union Locking =>
       c.artifact \in Artifacts /\ c.on \in Devices
  /\ c.at \in {"miss"} \union Locking => c.on = device
  /\ c.at \in {"compile", "publish"} => ready[c.artifact] = Nothing
  /\ c.at = "publish" => c.kernel = [of |-> c.artifact, on |-> c.on]
  /\ keysLock = t => /\ c.at \in Missing /\ c.caller \in CallerKeys
                     /\ c.artifact = ArtifactOf[c.caller]
  /\ c.at \in {"build", "look", "batch"} \/ c.pending => c.artifact \in Kept
  /\ c.at = "build" => ~c.failure
  /\ c.at = "look" /\ ~c.failure => ready[c.artifact] # Nothing
  /\ c.at = "batch" => ready[c.artifact] # Nothing \/ c.artifact \in active
  /\ c.at = "batch" /\ ~c.failure => batch.unbuilt = <<>>

IndexSound == \A c \in CallerKeys : indexOf[c] # Nothing => indexOf[c] = ArtifactOf[c] /\ indexOf[c] \in Kept

Inv ==
  /\ Typed /\ ReadySound /\ WaitingSound /\ BatchSound /\ IndexSound
  /\ \A t \in Threads : CallSound(t)

-----------------------------------------------------------------------------
(* Sequences as the queues use them.                                       *)

\* A request that is not in the queue joins it at the end.
LEMMA Appended ==
  ASSUME NEW s \in Seq(Artifacts), NEW a \in Artifacts, Distinct(s), a \notin Range(s)
  PROVE  /\ Append(s, a) \in Seq(Artifacts) /\ Distinct(Append(s, a))
         /\ Range(Append(s, a)) = Range(s) \union {a}
<1> DEFINE n == Append(s, a)
<1>1. n \in Seq(Artifacts) /\ Len(n) = Len(s) + 1 /\ DOMAIN n = 1 .. Len(s) + 1
  OBVIOUS
<1>2. (\A i \in 1 .. Len(s) : n[i] = s[i]) /\ n[Len(s) + 1] = a
  OBVIOUS
<1>3. DOMAIN s = 1 .. Len(s) /\ Len(s) \in Nat
  OBVIOUS
<1> HIDE DEF n
<1>4. Distinct(n)
  BY <1>1, <1>2, <1>3 DEF Distinct, Range
<1>5. Range(n) = Range(s) \union {a}
  BY <1>1, <1>2, <1>3 DEF Range
<1> QED BY <1>1, <1>4, <1>5 DEF n

\* Failed requests return to the front of the queue.
LEMMA Joined ==
  ASSUME NEW s \in Seq(Artifacts), NEW r \in Seq(Artifacts), Distinct(s), Distinct(r),
         \A a \in Range(s) : a \notin Range(r)
  PROVE  /\ s \o r \in Seq(Artifacts) /\ Distinct(s \o r)
         /\ Range(s \o r) = Range(s) \union Range(r)
<1> DEFINE n == s \o r
<1>1. n \in Seq(Artifacts) /\ DOMAIN n = 1 .. Len(s) + Len(r)
  OBVIOUS
<1>2. /\ \A i \in 1 .. Len(s) : n[i] = s[i]
      /\ \A i \in Len(s) + 1 .. Len(s) + Len(r) : n[i] = r[i - Len(s)]
  OBVIOUS
<1>3. /\ DOMAIN s = 1 .. Len(s) /\ Len(s) \in Nat
      /\ DOMAIN r = 1 .. Len(r) /\ Len(r) \in Nat
  OBVIOUS
<1> HIDE DEF n
<1>4. \A i \in DOMAIN n : \/ i \in DOMAIN s /\ n[i] = s[i]
                          \/ i - Len(s) \in DOMAIN r /\ n[i] = r[i - Len(s)]
  BY <1>1, <1>2, <1>3
<1>5. /\ \A i \in DOMAIN s : i \in DOMAIN n /\ n[i] = s[i]
      /\ \A j \in DOMAIN r : j + Len(s) \in DOMAIN n /\ n[j + Len(s)] = r[j]
  <2>1. \A j \in DOMAIN r : j + Len(s) \in Len(s) + 1 .. Len(s) + Len(r) /\ j + Len(s) - Len(s) = j
    BY <1>3
  <2> QED BY <2>1, <1>1, <1>2, <1>3
<1>6. Range(n) = Range(s) \union Range(r)
  <2>1. Range(n) \subseteq Range(s) \union Range(r)
    BY <1>4 DEF Range
  <2>2. Range(s) \subseteq Range(n) /\ Range(r) \subseteq Range(n)
    BY <1>5 DEF Range
  <2> QED BY <2>1, <2>2
<1>7. Distinct(n)
  <2> SUFFICES ASSUME NEW i \in DOMAIN n, NEW j \in DOMAIN n, n[i] = n[j] PROVE i = j
    BY DEF Distinct
  <2>1. i \in Int /\ j \in Int
    BY <1>1, <1>3
  <2>2. (\A k \in DOMAIN s : s[k] \in Range(s)) /\ (\A k \in DOMAIN r : r[k] \in Range(r))
    BY DEF Range
  <2>3. CASE i \in DOMAIN s /\ n[i] = s[i]
    <3>1. j \in DOMAIN s /\ n[j] = s[j]
      BY <2>2, <2>3, <1>4, Zenon
    <3> QED BY <2>3, <3>1, Zenon DEF Distinct
  <2>4. CASE i - Len(s) \in DOMAIN r /\ n[i] = r[i - Len(s)]
    <3>1. j - Len(s) \in DOMAIN r /\ n[j] = r[j - Len(s)]
      BY <2>2, <2>4, <1>4, Zenon
    <3>2. i - Len(s) = j - Len(s)
      BY <2>4, <3>1, Zenon DEF Distinct
    <3> QED BY <3>2, <2>1, <1>3
  <2> QED BY <2>3, <2>4, <1>4
<1> QED BY <1>1, <1>6, <1>7 DEF n

\* A request that waits is withdrawn, the others keep their order.
LEMMA Removed ==
  ASSUME NEW s \in Seq(Artifacts), Distinct(s), NEW k \in DOMAIN s
  PROVE  /\ Without(s, k) \in Seq(Artifacts) /\ Distinct(Without(s, k))
         /\ Range(Without(s, k)) = Range(s) \ {s[k]}
<1> DEFINE n == Without(s, k)
<1>1. DOMAIN s = 1 .. Len(s) /\ Len(s) \in Nat /\ k \in 1 .. Len(s)
  OBVIOUS
<1>2. /\ SubSeq(s, 1, k - 1) \in Seq(Artifacts) /\ Len(SubSeq(s, 1, k - 1)) = k - 1
      /\ \A i \in 1 .. k - 1 : SubSeq(s, 1, k - 1)[i] = s[i]
  BY <1>1
<1>3. /\ SubSeq(s, k + 1, Len(s)) \in Seq(Artifacts) /\ Len(SubSeq(s, k + 1, Len(s))) = Len(s) - k
      /\ \A i \in 1 .. Len(s) - k : SubSeq(s, k + 1, Len(s))[i] = s[k + i]
  BY <1>1
<1> DEFINE p == SubSeq(s, 1, k - 1)
           q == SubSeq(s, k + 1, Len(s))
<1>a. n = p \o q
  BY Zenon DEF Without
<1> HIDE DEF p, q
<1>b. /\ p \in Seq(Artifacts) /\ Len(p) = k - 1
      /\ \A i \in 1 .. k - 1 : p[i] = s[i]
  BY <1>2, Zenon DEF p
<1>c. /\ q \in Seq(Artifacts) /\ Len(q) = Len(s) - k
      /\ \A i \in 1 .. Len(s) - k : q[i] = s[k + i]
  BY <1>3, Zenon DEF q
<1>4. n \in Seq(Artifacts) /\ DOMAIN n = 1 .. Len(s) - 1
  <2>1. (k - 1) + (Len(s) - k) = Len(s) - 1
    BY <1>1
  <2>2. \A x, y \in Seq(Artifacts) : x \o y \in Seq(Artifacts) /\ DOMAIN (x \o y) = 1 .. Len(x) + Len(y)
    OBVIOUS
  <2>3. p \o q \in Seq(Artifacts) /\ DOMAIN (p \o q) = 1 .. Len(p) + Len(q)
    BY <2>2, <1>b, <1>c, Zenon
  <2> QED BY <2>1, <2>3, <1>a, <1>b, <1>c, Zenon
<1>5. \A i \in 1 .. k - 1 : n[i] = s[i]
  BY <1>1, <1>b, <1>c, <1>a
<1>6. \A i \in k .. Len(s) - 1 : n[i] = s[i + 1]
  <2> SUFFICES ASSUME NEW i \in k .. Len(s) - 1 PROVE n[i] = s[i + 1]
    OBVIOUS
  <2>1. i \in Len(p) + 1 .. Len(p) + Len(q)
    BY <1>1, <1>b, <1>c
  <2>2. (p \o q)[i] = q[i - Len(p)]
    BY <2>1, <1>b, <1>c
  <2>3. i - Len(p) \in 1 .. Len(s) - k /\ k + (i - Len(p)) = i + 1
    BY <1>1, <1>b
  <2> QED BY <2>2, <2>3, <1>c, <1>a
<1> HIDE DEF n
<1>7. Distinct(n)
  <2> SUFFICES ASSUME NEW i \in DOMAIN n, NEW j \in DOMAIN n, n[i] = n[j] PROVE i = j
    BY DEF Distinct
  <2>1. \A x \in DOMAIN n : x < k => n[x] = s[x] /\ x \in DOMAIN s
    BY <1>1, <1>4, <1>5
  <2>2. \A x \in DOMAIN n : ~(x < k) => n[x] = s[x + 1] /\ x + 1 \in DOMAIN s
    BY <1>1, <1>4, <1>6
  <2>3. i \in Int /\ j \in Int /\ k \in Int
    BY <1>1, <1>4
  <2>4. \A x, y \in DOMAIN s : s[x] = s[y] => x = y
    BY Zenon DEF Distinct
  <2>5. CASE i < k /\ j < k
    BY <2>1, <2>4, <2>5, Zenon
  <2>6. CASE ~(i < k) /\ ~(j < k)
    <3>1. i + 1 = j + 1
      BY <2>2, <2>4, <2>6, Zenon
    <3> QED BY <3>1, <2>3
  <2>7. CASE i < k /\ ~(j < k)
    <3>1. i = j + 1
      BY <2>1, <2>2, <2>4, <2>7, Zenon
    <3> QED BY <3>1, <2>3, <2>7
  <2>8. CASE ~(i < k) /\ j < k
    <3>1. i + 1 = j
      BY <2>1, <2>2, <2>4, <2>8, Zenon
    <3> QED BY <3>1, <2>3, <2>8
  <2> QED BY <2>5, <2>6, <2>7, <2>8, Zenon
<1>8. Range(n) \subseteq Range(s) \ {s[k]}
  BY <1>1, <1>4, <1>5, <1>6 DEF Distinct, Range
<1>9. Range(s) \ {s[k]} \subseteq Range(n)
  <2> SUFFICES ASSUME NEW i \in DOMAIN s, i # k PROVE s[i] \in Range(n)
    BY DEF Range
  <2>1. CASE i < k
    BY <2>1, <1>1, <1>4, <1>5 DEF Range
  <2>2. CASE i > k
    <3>1. i - 1 \in k .. Len(s) - 1 /\ (i - 1) + 1 = i /\ i - 1 \in DOMAIN n
      BY <2>2, <1>1, <1>4
    <3>2. n[i - 1] = s[i]
      BY <3>1, <1>6
    <3> QED BY <3>1, <3>2 DEF Range
  <2> QED BY <2>1, <2>2, <1>1
<1> QED BY <1>4, <1>7, <1>8, <1>9 DEF n

-----------------------------------------------------------------------------
(* What every step keeps.                                                  *)

\* The device stays claimed, a loaded kernel stays, and what is wanted stays wanted.
Grown ==
  /\ device # Nothing => device' = device
  /\ \A a \in Artifacts : ready[a] # Nothing => ready'[a] = ready[a]
  /\ Kept \subseteq Kept'

LEMMA EmptyBatch == NoBatch \in Batches
<1>1. [w \in Workers |-> 0] \in [Workers -> Nat] /\ <<>> \in Seq(Artifacts)
  OBVIOUS
<1> QED BY <1>1 DEF NoBatch, Batches

\* A new cache satisfies the invariant.
LEMMA InvInit == Sized /\ Init => Inv
<1> SUFFICES ASSUME Sized, Init PROVE Inv
  OBVIOUS
<1>1. Nothing \notin Threads /\ DOMAIN << >> = {} /\ Len(<< >>) = 0
  BY DEF Sized
<1>2. batch \in Batches
  BY EmptyBatch, Zenon DEF Init
<1>3. Idle \in Calls
  BY DEF Idle, Calls, Stages
<1>4. Typed
  BY <1>2, <1>3 DEF Init, Typed
<1>5. Range(<< >>) = {}
  BY <1>1 DEF Range
<1>6. ReadySound /\ IndexSound
  BY DEF Init, ReadySound, IndexSound
<1>7. WaitingSound
  BY <1>1 DEF Init, WaitingSound, Distinct
<1>8. BatchSound
  BY <1>1, <1>5 DEF Init, BatchSound, Distinct, NoBatch
<1>9. ASSUME NEW t \in Threads PROVE CallSound(t)
  BY <1>1 DEF Init, CallSound, Idle, Locking
<1> QED BY <1>4, <1>6, <1>7, <1>8, <1>9 DEF Inv

\* A thread that is not in the step, and holds the build lock only if the step
\* leaves the batch and the loaded kernels alone, keeps what it relies on.
LEMMA OtherSound ==
  ASSUME Sized, Inv, Grown, NEW u \in Threads, call'[u] = call[u],
         buildLock' = u <=> buildLock = u, keysLock' = u => keysLock = u,
         buildLock = u => /\ ready' = ready /\ active' = active
                          /\ batch'.unbuilt = batch.unbuilt
  PROVE  CallSound(u)'
<1>1. PICK c \in Calls : c = call[u]
  BY Zenon DEF Inv, Typed
<1>2. /\ c.at \in Locking <=> buildLock = u
      /\ c.at \in {"build", "look", "miss"} \union Locking => c.artifact \in Artifacts /\ c.on \in Devices
      /\ c.at \in {"miss"} \union Locking => c.on = device
      /\ c.at \in {"compile", "publish"} => ready[c.artifact] = Nothing
      /\ c.at = "publish" => c.kernel = [of |-> c.artifact, on |-> c.on]
      /\ keysLock = u => /\ c.at \in Missing /\ c.caller \in CallerKeys
                         /\ c.artifact = ArtifactOf[c.caller]
      /\ c.at \in {"build", "look", "batch"} \/ c.pending => c.artifact \in Kept
      /\ c.at = "build" => ~c.failure
      /\ c.at = "look" /\ ~c.failure => ready[c.artifact] # Nothing
      /\ c.at = "batch" => ready[c.artifact] # Nothing \/ c.artifact \in active
      /\ c.at = "batch" /\ ~c.failure => batch.unbuilt = <<>>
  BY <1>1, Zenon DEF Inv, CallSound
<1>3. c.at \in {"miss"} \union Locking => c.on = device'
  BY <1>2 DEF Grown, Sized
<1>4. c.at \in {"compile", "publish", "batch"} => buildLock = u
  BY <1>2 DEF Locking
<1>5. c.at \in {"compile", "publish"} => ready'[c.artifact] = Nothing
  BY <1>2, <1>4
<1>6. c.at \in {"build", "look", "batch"} \/ c.pending => c.artifact \in Kept'
  BY <1>2 DEF Grown
<1>7. c.at = "look" /\ ~c.failure => ready'[c.artifact] # Nothing
  BY <1>2 DEF Grown
<1>8. /\ c.at = "batch" => ready'[c.artifact] # Nothing \/ c.artifact \in active'
      /\ c.at = "batch" /\ ~c.failure => batch'.unbuilt = <<>>
  BY <1>2, <1>4
<1>9. c = call'[u]
  BY <1>1
<1> HIDE DEF Kept
<1> QED BY <1>2, <1>3, <1>5, <1>6, <1>7, <1>8, <1>9, Zenon DEF CallSound

\* A key enters the index for an artifact that is wanted.
LEMMA IndexKept ==
  ASSUME Inv, Grown,
         \A c \in CallerKeys : \/ indexOf'[c] = indexOf[c]
                               \/ indexOf'[c] = ArtifactOf[c] /\ ArtifactOf[c] \in Kept'
  PROVE  IndexSound'
BY Zenon DEF Inv, IndexSound, Grown

-----------------------------------------------------------------------------
(* A step of a thread outside the build lock: it may claim the device,     *)
(* queue a request, and change the index.                                  *)
Queued == waiting' = waiting \/ \E a \in Artifacts : ~Known(a) /\ waiting' = Append(waiting, a)

LEMMA QueueSound ==
  ASSUME Inv, Queued, UNCHANGED <<ready, active>>
  PROVE  waiting' \in Seq(Artifacts) /\ WaitingSound' /\ Kept \subseteq Kept'
<1>0. waiting \in Seq(Artifacts) /\ Distinct(waiting)
  BY DEF Inv, Typed, WaitingSound
<1>1. CASE waiting' = waiting
  BY <1>0, <1>1 DEF Inv, WaitingSound, Kept
<1>2. CASE \E a \in Artifacts : ~Known(a) /\ waiting' = Append(waiting, a)
  <2>1. PICK a \in Artifacts : ~Known(a) /\ waiting' = Append(waiting, a)
    BY <1>2
  <2>2. ready[a] = Nothing /\ a \notin active /\ a \notin Range(waiting)
    BY <2>1, Zenon DEF Known
  <2>3. /\ waiting' \in Seq(Artifacts) /\ Distinct(waiting')
        /\ Range(waiting') = Range(waiting) \union {a}
    BY <1>0, <2>1, <2>2, Appended, Zenon
  <2>4. \A b \in Range(waiting) : ready[b] = Nothing /\ b \notin active
    BY DEF Inv, WaitingSound, Range
  <2>5. \A b \in Range(waiting') : ready[b] = Nothing /\ b \notin active
    BY <2>2, <2>3, <2>4
  <2>6. \A i \in DOMAIN waiting' : waiting'[i] \in Range(waiting')
    BY DEF Range
  <2>7. WaitingSound'
    BY <2>3, <2>5, <2>6, Zenon DEF WaitingSound
  <2>8. Kept \subseteq Kept'
    BY <2>3 DEF Kept
  <2> QED BY <2>3, <2>7, <2>8
<1> QED BY <1>1, <1>2 DEF Queued

LEMMA QuietInv ==
  ASSUME Sized, Inv, NEW t \in Threads, call[t].at \notin Locking,
         UNCHANGED <<ready, active, batch, buildLock, loads>>, Queued,
         device' \in Devices \union {Nothing}, device # Nothing => device' = device,
         call' \in [Threads -> Calls], \A u \in Threads : u # t => call'[u] = call[u],
         keysLock' \in Threads \union {Nothing}, \A u \in Threads : u # t /\ keysLock' = u => keysLock = u,
         indexOf' \in [CallerKeys -> Artifacts \union {Nothing}],
         \A c \in CallerKeys : \/ indexOf'[c] = indexOf[c]
                               \/ indexOf'[c] = ArtifactOf[c] /\ ArtifactOf[c] \in Kept',
         CallSound(t)'
  PROVE  Inv'
<1>1. waiting' \in Seq(Artifacts) /\ WaitingSound' /\ Kept \subseteq Kept'
  BY QueueSound, Zenon
<1>2. Grown
  BY <1>1, Zenon DEF Grown
<1>3. buildLock # t
  BY Zenon DEF Inv, CallSound
<1>4. buildLock # Nothing => call'[buildLock] = call[buildLock]
  BY <1>3, Zenon DEF Inv, Typed
<1>5. Typed'
  BY <1>1, Zenon DEF Inv, Typed
<1>6. ReadySound'
  <2>1. \A a \in Artifacts : ready[a] # Nothing => device # Nothing
    BY DEF Inv, Typed, ReadySound, Sized, Kernel
  <2> QED BY <2>1, <1>4, Zenon DEF Inv, ReadySound
<1>7. BatchSound'
  BY <1>4, Zenon DEF Inv, BatchSound
<1>8. IndexSound'
  BY <1>2, IndexKept, Zenon
<1>9. ASSUME NEW u \in Threads PROVE CallSound(u)'
  BY <1>2, OtherSound, Zenon
<1> QED BY <1>1, <1>5, <1>6, <1>7, <1>8, <1>9 DEF Inv

\* Claiming a device keeps one already claimed.
LEMMA Claimed ==
  ASSUME Inv, NEW d \in Devices, Claim(d)
  PROVE  device' \in Devices \union {Nothing} /\ (device # Nothing => device' = device)
         /\ (Claims(d) => device' = d)
BY Zenon DEF Inv, Typed, Claim, Claims

\* Queueing a request leaves its artifact wanted.
LEMMA Wanted ==
  ASSUME Inv, NEW a \in Artifacts, waiting' = Enqueued(a), UNCHANGED <<ready, active>>
  PROVE  Queued /\ a \in Kept'
<1>1. CASE Known(a)
  BY <1>1, Zenon DEF Enqueued, Queued, Known, Kept
<1>2. CASE ~Known(a)
  <2>1. waiting' = Append(waiting, a)
    BY <1>2 DEF Enqueued
  <2>2. a \in Range(waiting')
    <3>1. Len(waiting) + 1 \in DOMAIN Append(waiting, a) /\ Append(waiting, a)[Len(waiting) + 1] = a
      BY DEF Inv, Typed
    <3> QED BY <3>1, <2>1 DEF Range
  <2> QED BY <1>2, <2>1, <2>2, Zenon DEF Queued, Kept
<1> QED BY <1>1, <1>2

\* A call that begins, as the records of the calls are updated.
LEMMA Fresh ==
  /\ Idle \in Calls /\ Idle.pending = FALSE /\ Idle.failure = FALSE
  /\ \A x \in {"held", "done", "error", "build", "look", "miss", "batch", "compile", "publish"} : x \in Stages
<1>1. \A x \in {"held", "done", "error", "build", "look", "miss", "batch", "compile", "publish"} : x \in Stages
  BY DEF Stages, Locking
<1> QED BY <1>1 DEF Idle, Calls, Stages

LEMMA RequestInv ==
  ASSUME Sized, Inv, NEW t \in Threads, NEW a \in Artifacts, Request(t, a)
  PROVE  Inv'
<1>1. Queued /\ a \in Kept'
  BY Wanted, Zenon DEF Request
<1>2. PICK r : r = [Idle EXCEPT !.at = "held", !.artifact = a, !.pending = TRUE]
  BY Zenon
<1>3. /\ r \in Calls /\ r.at = "held" /\ r.artifact = a
  BY Zenon, <1>2, Fresh DEF Calls
<1>4. call' = [call EXCEPT ![t] = r] /\ call \in [Threads -> Calls]
  BY <1>2, Zenon DEF Request, Inv, Typed
<1>5. /\ call' \in [Threads -> Calls] /\ call'[t] = r
      /\ \A u \in Threads : u # t => call'[u] = call[u]
  BY <1>3, <1>4
<1>6. UNCHANGED <<device, ready, active, indexOf, buildLock, keysLock, batch, loads>>
  BY DEF Request
<1>7. call[t].at \notin Locking /\ call[t].at \notin Missing
  BY DEF Request, Resting, Locking, Missing
<1>8. buildLock # t /\ keysLock # t
  BY <1>7, Zenon DEF Inv, CallSound
<1>9. CallSound(t)'
  <2> HIDE DEF Kept
  <2> QED BY <1>1, <1>3, <1>5, <1>6, <1>8 DEF CallSound, Locking
<1>10. /\ device \in Devices \union {Nothing} /\ keysLock \in Threads \union {Nothing}
       /\ indexOf \in [CallerKeys -> Artifacts \union {Nothing}]
  BY Zenon DEF Inv, Typed
<1> QED BY <1>1, <1>5, <1>6, <1>7, <1>9, <1>10, QuietInv, Zenon

\* A thread between calls holds neither lock.
LEMMA Unlocked ==
  ASSUME Inv, NEW t \in Threads, call[t].at \in Resting
  PROVE  call[t].at \notin Locking /\ buildLock # t /\ keysLock # t
<1>1. call[t].at \notin Locking /\ call[t].at \notin Missing
  BY DEF Resting, Locking, Missing
<1> QED BY <1>1, Zenon DEF Inv, CallSound

LEMMA KeyedRequestInv ==
  ASSUME Sized, Inv, NEW t \in Threads, NEW c \in CallerKeys, NEW d \in Devices,
         KeyedRequest(t, c, d)
  PROVE  Inv'
<1>1. call[t].at \notin Locking /\ buildLock # t /\ keysLock # t
  BY Unlocked, Zenon DEF KeyedRequest
<1>2. UNCHANGED <<ready, active, buildLock, keysLock, batch, loads>>
  BY Zenon DEF KeyedRequest
<1>3. /\ device \in Devices \union {Nothing} /\ keysLock \in Threads \union {Nothing}
      /\ indexOf \in [CallerKeys -> Artifacts \union {Nothing}] /\ call \in [Threads -> Calls]
  BY Zenon DEF Inv, Typed
<1>4. CASE ~Claims(d)
  <2>1. PICK r : r = [Idle EXCEPT !.at = "error"]
    BY Zenon
  <2>2. r \in Calls /\ r.at = "error" /\ ~r.pending
    BY <2>1, Fresh DEF Calls
  <2>3. call' = [call EXCEPT ![t] = r] /\ UNCHANGED <<device, waiting, indexOf>>
    BY <1>4, <2>1, Zenon DEF KeyedRequest
  <2>4. /\ call' \in [Threads -> Calls] /\ call'[t] = r
        /\ \A u \in Threads : u # t => call'[u] = call[u]
    BY <1>3, <2>2, <2>3
  <2>5. Queued
    BY <2>3, Zenon DEF Queued
  <2>6. CallSound(t)'
    BY <1>1, <1>2, <2>2, <2>4 DEF CallSound, Locking
  <2> QED BY <1>1, <1>2, <1>3, <2>3, <2>4, <2>5, <2>6, QuietInv, Zenon
<1>5. CASE Claims(d)
  <2> DEFINE a == ArtifactOf[c]
  <2>0. a \in Artifacts
    BY DEF Sized
  <2>1. Queued /\ a \in Kept'
    <3>1. CASE indexOf[c] = Nothing
      BY <1>2, <1>5, <2>0, <3>1, Wanted, Zenon DEF KeyedRequest
    <3>2. CASE indexOf[c] # Nothing
      <4>1. waiting' = waiting
        BY <1>5, <3>2, Zenon DEF KeyedRequest
      <4>2. a \in Kept
        BY <3>2, Zenon DEF Inv, IndexSound
      <4> QED BY <4>1, <4>2, <1>2, Zenon DEF Queued, Kept
    <3> QED BY <3>1, <3>2
  <2>2. PICK r : r = [Idle EXCEPT !.at = "held", !.artifact = a, !.pending = TRUE]
    BY Zenon
  <2>3. r \in Calls /\ r.at = "held" /\ r.artifact = a
    BY Zenon, <2>0, <2>2, Fresh DEF Calls
  <2>4. /\ call' = [call EXCEPT ![t] = r] /\ indexOf' = [indexOf EXCEPT ![c] = a]
        /\ Claim(d)
    BY <1>5, <2>2, Zenon DEF KeyedRequest
  <2>5. /\ call' \in [Threads -> Calls] /\ call'[t] = r
        /\ \A u \in Threads : u # t => call'[u] = call[u]
    BY <1>3, <2>3, <2>4
  <2>6. /\ indexOf' \in [CallerKeys -> Artifacts \union {Nothing}]
        /\ \A k \in CallerKeys : indexOf'[k] = indexOf[k] \/ (k = c /\ indexOf'[k] = a)
    <3> HIDE DEF a
    <3>1. indexOf' = [indexOf EXCEPT ![c] = a]
      BY <2>4
    <3> QED BY <1>3, <2>0, <3>1
  <2>7. CallSound(t)'
    <3> HIDE DEF Kept, a
    <3> QED BY <1>1, <1>2, <2>1, <2>3, <2>5 DEF CallSound, Locking
  <2>8. /\ device' \in Devices \union {Nothing} /\ (device # Nothing => device' = device)
    BY <2>4, Claimed, Zenon
  <2> QED BY <1>1, <1>2, <1>3, <2>1, <2>5, <2>6, <2>7, <2>8, QuietInv, Zenon
<1> QED BY <1>4, <1>5

LEMMA ResolveInv ==
  ASSUME Sized, Inv, NEW t \in Threads, NEW d \in Devices, Resolve(t, d)
  PROVE  Inv'
<1> DEFINE a == call[t].artifact
<1>1. call[t].at \in {"held", "error"} /\ call[t].pending
  BY DEF Resolve
<1>2. call[t].at \notin Locking /\ buildLock # t /\ keysLock # t
  BY <1>1, Unlocked DEF Resting
<1>3. UNCHANGED <<device, ready, waiting, active, indexOf, buildLock, keysLock, batch, loads>>
  BY Zenon DEF Resolve
<1>4. /\ device \in Devices \union {Nothing} /\ keysLock \in Threads \union {Nothing}
      /\ indexOf \in [CallerKeys -> Artifacts \union {Nothing}] /\ call \in [Threads -> Calls]
      /\ ready \in [Artifacts -> Kernel \union {Nothing}] /\ call[t] \in Calls
  BY Zenon DEF Inv, Typed
<1>5. a \in Kept /\ Queued
  BY <1>1, <1>3, Zenon DEF Inv, CallSound, Queued
<1>6. a \in Artifacts
  BY <1>5 DEF Kept, Inv, Typed, Range
<1>7. PICK r : r = [call[t] EXCEPT !.at = IF ready[a] = Nothing THEN "build" ELSE "done",
                                   !.on = d, !.failure = FALSE, !.kernel = ready[a]]
  BY Zenon
<1>8. /\ r \in Calls /\ r.at \in {"build", "done"} /\ r.artifact = a /\ r.on = d /\ ~r.failure
  BY Zenon, <1>4, <1>6, <1>7, Fresh DEF Calls
<1>9. call' = [call EXCEPT ![t] = r]
  BY <1>7, Zenon DEF Resolve
<1>10. /\ call' \in [Threads -> Calls] /\ call'[t] = r
       /\ \A u \in Threads : u # t => call'[u] = call[u]
  BY <1>4, <1>8, <1>9
<1>11. a \in Kept'
  BY <1>3, <1>5 DEF Kept
<1>12. CallSound(t)'
  <2> HIDE DEF Kept, a
  <2> QED BY <1>2, <1>3, <1>6, <1>8, <1>10, <1>11 DEF CallSound, Locking
<1> QED BY <1>2, <1>3, <1>4, <1>5, <1>10, <1>12, QuietInv, Zenon

LEMMA GetInv ==
  ASSUME Sized, Inv, NEW t \in Threads, NEW a \in Artifacts, NEW d \in Devices, Get(t, a, d)
  PROVE  Inv'
<1>1. call[t].at \notin Locking /\ buildLock # t /\ keysLock # t
  BY Unlocked, Zenon DEF Get
<1>2. UNCHANGED <<ready, waiting, active, indexOf, buildLock, keysLock, batch, loads>> /\ Claim(d)
  BY Zenon DEF Get
<1>3. /\ keysLock \in Threads \union {Nothing} /\ call \in [Threads -> Calls]
      /\ indexOf \in [CallerKeys -> Artifacts \union {Nothing}]
      /\ ready[a] \in Kernel \union {Nothing}
  BY Zenon DEF Inv, Typed
<1>4. /\ device' \in Devices \union {Nothing} /\ (device # Nothing => device' = device)
      /\ Claims(d) => device' = d
  BY <1>2, Claimed, Zenon
<1>5. PICK k : k = IF Claims(d) THEN ready[a] ELSE Nothing
  BY Zenon
<1>6. PICK x : x = CASE ~Claims(d) -> "error" [] ready[a] # Nothing -> "done" [] OTHER -> "miss"
  BY Zenon
<1>7. x \in {"error", "done", "miss"} /\ (x = "miss" => Claims(d)) /\ k \in Kernel \union {Nothing}
  BY <1>3, <1>5, <1>6
<1>8. PICK r : r = [Idle EXCEPT !.artifact = a, !.on = d, !.kernel = k, !.at = x]
  BY Zenon
<1>9. r \in Calls /\ r.at = x /\ r.artifact = a /\ r.on = d /\ ~r.pending
  BY Zenon, <1>7, <1>8, Fresh DEF Calls
<1>10. call' = [call EXCEPT ![t] = r]
  BY <1>5, <1>6, <1>8, Zenon DEF Get
<1>11. /\ call' \in [Threads -> Calls] /\ call'[t] = r
       /\ \A u \in Threads : u # t => call'[u] = call[u]
  BY <1>3, <1>9, <1>10
<1>12. CallSound(t)'
  <2> HIDE DEF Kept
  <2> QED BY <1>1, <1>2, <1>4, <1>7, <1>9, <1>11 DEF CallSound, Locking
<1>13. Queued
  BY <1>2, Zenon DEF Queued
<1> QED BY <1>1, <1>2, <1>3, <1>4, <1>11, <1>12, <1>13, QuietInv, Zenon

LEMMA KeyedGetInv ==
  ASSUME Sized, Inv, NEW t \in Threads, NEW c \in CallerKeys, NEW d \in Devices, KeyedGet(t, c, d)
  PROVE  Inv'
<1> DEFINE a == ArtifactOf[c]
<1>1. call[t].at \notin Locking /\ buildLock # t /\ keysLock = Nothing
  BY Unlocked, Zenon DEF KeyedGet
<1>2. UNCHANGED <<ready, waiting, active, buildLock, batch, loads>> /\ Claim(d)
  BY Zenon DEF KeyedGet
<1>3. /\ a \in Artifacts /\ call \in [Threads -> Calls]
      /\ indexOf \in [CallerKeys -> Artifacts \union {Nothing}]
  BY Zenon DEF Inv, Typed, Sized
<1>a. ready[a] \in Kernel \union {Nothing}
  BY <1>3 DEF Inv, Typed
<1>4. /\ device' \in Devices \union {Nothing} /\ (device # Nothing => device' = device)
      /\ Claims(d) => device' = d
  BY <1>2, Claimed, Zenon
<1>5. PICK k : k = IF Claims(d) THEN ready[a] ELSE Nothing
  BY Zenon
<1>6. PICK x : x = CASE ~Claims(d) -> "error"
                     [] Claims(d) /\ ready[a] # Nothing -> "done"
                     [] Claims(d) /\ ready[a] = Nothing /\ indexOf[c] # Nothing -> "build"
                     [] OTHER -> "miss"
  BY Zenon
<1>7. /\ x \in {"error", "done", "build", "miss"} /\ (x = "miss" => Claims(d))
      /\ x = "build" => indexOf[c] # Nothing
      /\ x = "done" => ready[a] # Nothing
  <2> HIDE DEF a
  <2> QED BY <1>6
<1>8. k \in Kernel \union {Nothing}
  BY <1>a, <1>5
<1>9. PICK r : r = [Idle EXCEPT !.artifact = a, !.on = d, !.caller = c, !.kernel = k, !.at = x]
  BY Zenon
<1>10. /\ r \in Calls /\ r.at = x /\ r.artifact = a /\ r.on = d /\ r.caller = c
       /\ ~r.pending /\ ~r.failure
  <2> HIDE DEF a
  <2> QED BY Zenon, <1>3, <1>7, <1>8, <1>9, Fresh DEF Calls
<1>11. call' = [call EXCEPT ![t] = r]
  BY <1>5, <1>6, <1>9, Zenon DEF KeyedGet
<1>12. /\ call' \in [Threads -> Calls] /\ call'[t] = r
       /\ \A u \in Threads : u # t => call'[u] = call[u]
  BY <1>3, <1>10, <1>11
<1>13. /\ keysLock' = (IF x = "miss" THEN t ELSE keysLock)
       /\ indexOf' = (IF x = "done" THEN [indexOf EXCEPT ![c] = a] ELSE indexOf)
  BY <1>10, <1>12, Zenon DEF KeyedGet
<1>14. /\ keysLock' \in {t, Nothing} /\ (keysLock' = t => x = "miss")
  BY <1>1, <1>13 DEF Sized
<1>15. /\ indexOf' \in [CallerKeys -> Artifacts \union {Nothing}]
       /\ \A b \in CallerKeys : indexOf'[b] = indexOf[b] \/ (x = "done" /\ b = c /\ indexOf'[b] = a)
  <2> HIDE DEF a
  <2> QED BY <1>3, <1>13
<1>16. x \in {"done", "build"} => a \in Kept /\ a \in Kept'
  <2>1. x = "build" => a \in Kept
    BY <1>7, Zenon DEF Inv, IndexSound
  <2>2. x = "done" => a \in Kept
    BY <1>3, <1>7, Zenon DEF Kept
  <2> QED BY <2>1, <2>2, <1>2 DEF Kept
<1>17. CallSound(t)'
  <2> HIDE DEF Kept, a
  <2>1. c \in CallerKeys /\ a = ArtifactOf[c]
    BY DEF a
  <2> QED BY <2>1, <1>1, <1>2, <1>3, <1>4, <1>7, <1>10, <1>12, <1>14, <1>16 DEF CallSound, Locking, Missing
<1>18. Queued
  BY <1>2, Zenon DEF Queued
<1>19. keysLock' \in Threads \union {Nothing} /\ \A u \in Threads : u # t /\ keysLock' = u => keysLock = u
  BY <1>14 DEF Sized
<1>20. \A b \in CallerKeys : \/ indexOf'[b] = indexOf[b]
                             \/ indexOf'[b] = ArtifactOf[b] /\ ArtifactOf[b] \in Kept'
  BY <1>15, <1>16
<1> QED BY <1>1, <1>2, <1>4, <1>12, <1>15, <1>17, <1>18, <1>19, <1>20, QuietInv, Zenon

LEMMA LookInv ==
  ASSUME Sized, Inv, NEW t \in Threads, Look(t)
  PROVE  Inv'
<1> DEFINE a == call[t].artifact
<1>1. call[t].at = "look" /\ call[t].at \notin Locking /\ call[t].at \notin Missing
  BY DEF Look, Locking, Missing
<1>2. UNCHANGED <<device, ready, waiting, active, indexOf, buildLock, keysLock, batch, loads>>
  BY Zenon DEF Look
<1>3. /\ buildLock # t /\ keysLock # t /\ a \in Kept /\ a \in Artifacts
      /\ ready[a] # Nothing \/ call[t].failure
  BY Zenon, <1>1 DEF Inv, CallSound
<1>4. /\ device \in Devices \union {Nothing} /\ keysLock \in Threads \union {Nothing}
      /\ indexOf \in [CallerKeys -> Artifacts \union {Nothing}] /\ call \in [Threads -> Calls]
      /\ ready \in [Artifacts -> Kernel \union {Nothing}] /\ call[t] \in Calls
  BY Zenon DEF Inv, Typed
<1>5. PICK x : x = CASE ready[a] # Nothing -> "done" [] call[t].failure -> "error" [] OTHER -> "never"
  BY Zenon
<1>6. x \in {"done", "error"} /\ ready[a] \in Kernel \union {Nothing}
  BY <1>3, <1>4, <1>5
<1>7. PICK r : r = [call[t] EXCEPT !.at = x, !.kernel = ready[a]]
  BY Zenon
<1>8. r \in Calls /\ r.at = x /\ r.artifact = a
  <2>1. x \in Stages
    BY <1>6, Fresh
  <2> QED BY Zenon, <2>1, <1>4, <1>6, <1>7 DEF Calls
<1>9. call' = [call EXCEPT ![t] = r]
  BY <1>5, <1>7, Zenon DEF Look, End
<1>10. /\ call' \in [Threads -> Calls] /\ call'[t] = r
       /\ \A u \in Threads : u # t => call'[u] = call[u]
  BY <1>4, <1>8, <1>9
<1>11. a \in Kept' /\ Queued
  BY <1>2, <1>3 DEF Kept, Queued
<1>12. CallSound(t)'
  <2> HIDE DEF Kept, a
  <2> QED BY <1>2, <1>3, <1>6, <1>8, <1>10, <1>11 DEF CallSound, Locking
<1> QED BY <1>1, <1>2, <1>4, <1>10, <1>11, <1>12, QuietInv, Zenon

\* Outside a batch nothing is being built.
LEMMA NoneActive ==
  ASSUME Inv, buildLock = Nothing \/ call[buildLock].at # "batch"
  PROVE  batch.requests = <<>> /\ active = {} /\ batch.unbuilt = <<>>
<1>1. batch.requests = <<>>
  BY Zenon DEF Inv, BatchSound
<1>2. DOMAIN batch.requests = {}
  BY <1>1
<1>3. active = {}
  BY <1>2 DEF Inv, BatchSound, Range
<1>4. DOMAIN batch.unbuilt = {}
  BY <1>2, Zenon DEF Inv, BatchSound
<1>5. batch.unbuilt \in Seq(Artifacts)
  BY DEF Inv, Typed, Batches
<1>6. \A s \in Seq(Artifacts) : DOMAIN s = {} => s = <<>>
  <2> SUFFICES ASSUME NEW s \in Seq(Artifacts), DOMAIN s = {} PROVE s = <<>>
    OBVIOUS
  <2>1. Len(s) = 0
    OBVIOUS
  <2> QED BY <2>1
<1> QED BY <1>1, <1>3, <1>4, <1>5, <1>6, Zenon

\* A build that cannot claim the device, or finds the queue empty.
LEMMA BuildNothingInv ==
  ASSUME Sized, Inv, NEW t \in Threads, Build(t), ~(Claims(call[t].on) /\ waiting # <<>>)
  PROVE  Inv'
<1> DEFINE a == call[t].artifact
           d == call[t].on
<1>1. call[t].at = "build" /\ call[t].at \notin Locking /\ call[t].at \notin Missing
  BY DEF Build, Locking, Missing
<1>2. UNCHANGED <<ready, waiting, active, indexOf, buildLock, keysLock, batch, loads>>
  BY Zenon DEF Build
<1>3. buildLock = Nothing /\ device' = IF Claims(d) THEN d ELSE device
  BY Zenon DEF Build
<1>4. /\ buildLock # t /\ keysLock # t /\ a \in Kept /\ a \in Artifacts /\ d \in Devices
  BY Zenon, <1>1 DEF Inv, CallSound
<1>5. /\ device \in Devices \union {Nothing} /\ keysLock \in Threads \union {Nothing}
      /\ indexOf \in [CallerKeys -> Artifacts \union {Nothing}] /\ call \in [Threads -> Calls]
      /\ call[t] \in Calls
  BY Zenon DEF Inv, Typed
<1>6. /\ device' \in Devices \union {Nothing} /\ (device # Nothing => device' = device)
  BY <1>3, <1>4, <1>5 DEF Claims
<1>7. PICK r : r = [call[t] EXCEPT !.at = "look", !.failure = ~Claims(d)]
  BY Zenon
<1>8. /\ r \in Calls /\ r.at = "look" /\ r.artifact = a /\ r.on = d
      /\ ~r.failure => Claims(d)
  <2>1. "look" \in Stages
    BY Fresh
  <2> QED BY Zenon, <2>1, <1>5, <1>7 DEF Calls
<1>9. call' = [call EXCEPT ![t] = r]
  BY <1>7, Zenon DEF Build
<1>10. /\ call' \in [Threads -> Calls] /\ call'[t] = r
       /\ \A u \in Threads : u # t => call'[u] = call[u]
  BY <1>5, <1>8, <1>9
<1>11. a \in Kept' /\ Queued
  BY <1>2, <1>4 DEF Kept, Queued
<1>12. ~r.failure => ready[a] # Nothing
  <2> SUFFICES ASSUME ~r.failure PROVE ready[a] # Nothing
    OBVIOUS
  <2>1. waiting = <<>>
    BY <1>8, Zenon
  <2>2. Range(waiting) = {}
    BY <2>1 DEF Range
  <2>3. active = {}
    BY <1>3, NoneActive
  <2> QED BY <2>2, <2>3, <1>4 DEF Kept
<1>13. CallSound(t)'
  <2> HIDE DEF Kept, a, d
  <2> QED BY <1>2, <1>4, <1>8, <1>10, <1>11, <1>12 DEF CallSound, Locking
<1> QED BY <1>1, <1>2, <1>5, <1>6, <1>10, <1>11, <1>13, QuietInv, Zenon

-----------------------------------------------------------------------------
(* The direct load, under the build lock.                                  *)

\* The lock of the index is released by the thread that holds it.
LEMMA Released ==
  ASSUME Sized, Inv, NEW t \in Threads, Unkeyed(t)
  PROVE  /\ keysLock' \in Threads \union {Nothing} /\ keysLock' # t
         /\ \A u \in Threads : u # t /\ keysLock' = u => keysLock = u
BY Zenon DEF Sized, Inv, Typed, Unkeyed

\* The artifact of the caller key is indexed once its kernel is loaded.
LEMMA Filed ==
  ASSUME Sized, Inv, NEW t \in Threads, call[t].artifact \in Kept',
         indexOf' = IF keysLock = t THEN [indexOf EXCEPT ![call[t].caller] = call[t].artifact] ELSE indexOf
  PROVE  /\ indexOf' \in [CallerKeys -> Artifacts \union {Nothing}]
         /\ \A c \in CallerKeys : \/ indexOf'[c] = indexOf[c]
                                  \/ indexOf'[c] = ArtifactOf[c] /\ ArtifactOf[c] \in Kept'
<1>0. indexOf \in [CallerKeys -> Artifacts \union {Nothing}]
  BY Zenon DEF Inv, Typed
<1>1. CASE keysLock = t
  <2> DEFINE k == call[t].caller
             a == call[t].artifact
  <2>1. k \in CallerKeys /\ a = ArtifactOf[k]
    BY <1>1, Zenon DEF Inv, CallSound
  <2>2. a \in Artifacts
    BY <2>1 DEF Sized
  <2>3. indexOf' = [indexOf EXCEPT ![k] = a]
    BY <1>1
  <2>4. a \in Kept'
    OBVIOUS
  <2> HIDE DEF k, a, Kept
  <2>5. /\ indexOf' \in [CallerKeys -> Artifacts \union {Nothing}]
        /\ \A c \in CallerKeys : indexOf'[c] = indexOf[c] \/ (c = k /\ indexOf'[c] = a)
    BY Zenon, <1>0, <2>1, <2>2, <2>3
  <2> QED BY <2>1, <2>4, <2>5, Zenon
<1>2. CASE keysLock # t
  BY <1>0, <1>2
<1> QED BY <1>1, <1>2

\* The kernel turns out to be loaded.
LEMMA GetFoundInv ==
  ASSUME Sized, Inv, NEW t \in Threads, GetLock(t), ready[call[t].artifact] # Nothing
  PROVE  Inv'
<1> DEFINE a == call[t].artifact
<1>1. call[t].at = "miss" /\ call[t].at \notin Locking
  BY DEF GetLock, Locking
<1>2. UNCHANGED <<device, ready, waiting, active, buildLock, batch, loads>> /\ Unkeyed(t)
  BY Zenon DEF GetLock
<1>3. a \in Artifacts /\ buildLock # t
  BY <1>1, Zenon DEF Inv, CallSound
<1>4. /\ device \in Devices \union {Nothing} /\ call \in [Threads -> Calls]
      /\ ready[a] \in Kernel \union {Nothing} /\ call[t] \in Calls
  BY <1>3, Zenon DEF Inv, Typed
<1>5. a \in Kept' /\ Queued
  BY <1>2, <1>3, Zenon DEF Kept, Queued
<1>6. PICK r : r = [call[t] EXCEPT !.at = "done", !.kernel = ready[a]]
  BY Zenon
<1>7. r \in Calls /\ r.at = "done" /\ r.artifact = a
  <2>1. "done" \in Stages
    BY Fresh
  <2> QED BY <2>1, <1>4, <1>6, Zenon DEF Calls
<1>8. call' = [call EXCEPT ![t] = r]
  BY <1>6, Zenon DEF GetLock, End
<1>9. /\ call' \in [Threads -> Calls] /\ call'[t] = r
      /\ \A u \in Threads : u # t => call'[u] = call[u]
  BY <1>4, <1>7, <1>8
<1>10. indexOf' = IF keysLock = t THEN [indexOf EXCEPT ![call[t].caller] = a] ELSE indexOf
  BY Zenon DEF GetLock
<1>11. /\ indexOf' \in [CallerKeys -> Artifacts \union {Nothing}]
       /\ \A c \in CallerKeys : \/ indexOf'[c] = indexOf[c]
                                \/ indexOf'[c] = ArtifactOf[c] /\ ArtifactOf[c] \in Kept'
  <2> HIDE DEF Kept
  <2> QED BY <1>5, <1>10, Filed
<1>12. /\ keysLock' \in Threads \union {Nothing} /\ keysLock' # t
       /\ \A u \in Threads : u # t /\ keysLock' = u => keysLock = u
  BY <1>2, Released, Zenon
<1>13. CallSound(t)'
  <2> HIDE DEF Kept, a
  <2> QED BY <1>2, <1>3, <1>5, <1>7, <1>9, <1>12 DEF CallSound, Locking
<1> QED BY <1>1, <1>2, <1>4, <1>5, <1>9, <1>11, <1>12, <1>13, QuietInv, Zenon

\* A step of a direct load before it publishes.
LEMMA DirectInv ==
  ASSUME Sized, Inv, NEW t \in Threads, batch.requests = <<>>,
         UNCHANGED <<device, ready, waiting, active, indexOf, batch>>,
         buildLock \in {t, Nothing}, buildLock' \in {t, Nothing},
         call' \in [Threads -> Calls], \A u \in Threads : u # t => call'[u] = call[u],
         keysLock' \in Threads \union {Nothing}, \A u \in Threads : u # t /\ keysLock' = u => keysLock = u,
         loads' \in [Artifacts -> {0, 1}],
         \A a \in Artifacts : loads'[a] # 0 =>
            \/ ready[a] # Nothing
            \/ buildLock' = t /\ call'[t].at = "publish" /\ call'[t].artifact = a,
         CallSound(t)'
  PROVE  Inv'
<1>1. Kept' = Kept
  BY Zenon DEF Kept
<1>2. Grown
  BY <1>1 DEF Grown
<1>3. Nothing \notin Threads
  BY DEF Sized
<1>4. Typed'
  BY Zenon DEF Inv, Typed
<1>5. ReadySound'
  BY <1>3, Zenon DEF Inv, ReadySound
<1>6. BatchSound' /\ WaitingSound'
  BY Zenon DEF Inv, BatchSound, WaitingSound
<1>7. IndexSound'
  BY <1>2, IndexKept, Zenon
<1>8. ASSUME NEW u \in Threads PROVE CallSound(u)'
  BY <1>2, <1>3, OtherSound, Zenon
<1> QED BY <1>4, <1>5, <1>6, <1>7, <1>8 DEF Inv

LEMMA GetLockInv ==
  ASSUME Sized, Inv, NEW t \in Threads, GetLock(t), ready[call[t].artifact] = Nothing
  PROVE  Inv'
<1> DEFINE a == call[t].artifact
<1>1. call[t].at = "miss" /\ buildLock = Nothing
  BY DEF GetLock
<1>2. /\ UNCHANGED <<device, ready, waiting, active, indexOf, batch, keysLock, loads>>
      /\ buildLock' = t
  BY Zenon DEF GetLock
<1>3. /\ a \in Artifacts /\ call[t].on \in Devices /\ call[t].on = device
      /\ call[t].pending => a \in Kept
      /\ keysLock = t => call[t].caller \in CallerKeys /\ a = ArtifactOf[call[t].caller]
  BY <1>1, Zenon DEF Inv, CallSound
<1>4. batch.requests = <<>> /\ Kept' = Kept
  BY <1>1, <1>2, NoneActive, Zenon DEF Kept
<1>5. /\ call \in [Threads -> Calls] /\ call[t] \in Calls /\ loads \in [Artifacts -> {0, 1}]
      /\ keysLock \in Threads \union {Nothing}
  BY Zenon DEF Inv, Typed
<1>6. PICK r : r = [call[t] EXCEPT !.at = "compile"]
  BY Zenon
<1>7. /\ r \in Calls /\ r.at = "compile" /\ r.artifact = a /\ r.on = call[t].on
      /\ r.caller = call[t].caller /\ r.pending = call[t].pending
  <2>1. "compile" \in Stages
    BY Fresh
  <2> QED BY <2>1, <1>5, <1>6, Zenon DEF Calls
<1>8. call' = [call EXCEPT ![t] = r]
  BY <1>6, Zenon DEF GetLock, Goto
<1>9. /\ call' \in [Threads -> Calls] /\ call'[t] = r
      /\ \A u \in Threads : u # t => call'[u] = call[u]
  BY <1>5, <1>7, <1>8
<1>10. \A b \in Artifacts : loads[b] # 0 => ready[b] # Nothing
  BY <1>1, Zenon DEF Inv, ReadySound
<1>11. CallSound(t)'
  <2> HIDE DEF Kept, a
  <2>1. ready[a] = Nothing
    BY DEF a
  <2> QED BY <2>1, <1>2, <1>3, <1>4, <1>7, <1>9 DEF CallSound, Locking, Missing
<1> QED BY <1>1, <1>2, <1>4, <1>5, <1>9, <1>10, <1>11, DirectInv, Zenon

\* What the holder of the build lock knows while it compiles.
LEMMA Compiling ==
  ASSUME Sized, Inv, NEW t \in Threads, call[t].at = "compile"
  PROVE  /\ buildLock = t /\ batch.requests = <<>>
         /\ call[t].artifact \in Artifacts /\ call[t].on \in Devices /\ call[t].on = device
         /\ ready[call[t].artifact] = Nothing
         /\ call[t].pending => call[t].artifact \in Kept
         /\ keysLock = t => call[t].caller \in CallerKeys /\ call[t].artifact = ArtifactOf[call[t].caller]
         /\ \A b \in Artifacts : loads[b] # 0 => ready[b] # Nothing
<1>1. call[t].at \in Locking
  BY DEF Locking
<1>2. /\ buildLock = t
      /\ call[t].artifact \in Artifacts /\ call[t].on \in Devices /\ call[t].on = device
      /\ ready[call[t].artifact] = Nothing
      /\ call[t].pending => call[t].artifact \in Kept
      /\ keysLock = t => call[t].caller \in CallerKeys /\ call[t].artifact = ArtifactOf[call[t].caller]
  BY <1>1, Zenon DEF Inv, CallSound
<1>3. batch.requests = <<>>
  BY <1>2, NoneActive
<1>4. \A b \in Artifacts : loads[b] # 0 => ready[b] # Nothing
  BY Zenon, <1>2 DEF Inv, ReadySound
<1> QED BY <1>2, <1>3, <1>4

LEMMA GetLoadInv ==
  ASSUME Sized, Inv, NEW t \in Threads, GetLoad(t)
  PROVE  Inv'
<1> DEFINE a == call[t].artifact
           k == [of |-> a, on |-> call[t].on]
<1>1. call[t].at = "compile"
  BY DEF GetLoad
<1>2. UNCHANGED <<device, ready, waiting, active, indexOf, batch, buildLock, keysLock>>
  BY Zenon DEF GetLoad
<1>3. /\ buildLock = t /\ batch.requests = <<>>
      /\ a \in Artifacts /\ call[t].on \in Devices /\ call[t].on = device /\ ready[a] = Nothing
      /\ call[t].pending => a \in Kept
      /\ keysLock = t => call[t].caller \in CallerKeys /\ a = ArtifactOf[call[t].caller]
      /\ \A b \in Artifacts : loads[b] # 0 => ready[b] # Nothing
  BY <1>1, Compiling
<1>4. Kept' = Kept
  BY <1>2, Zenon DEF Kept
<1>5. /\ call \in [Threads -> Calls] /\ call[t] \in Calls /\ loads \in [Artifacts -> {0, 1}]
      /\ keysLock \in Threads \union {Nothing}
  BY Zenon DEF Inv, Typed
<1>6. PICK r : r = [call[t] EXCEPT !.at = "publish", !.kernel = k]
  BY Zenon
<1>7. /\ r \in Calls /\ r.at = "publish" /\ r.artifact = a /\ r.on = call[t].on /\ r.kernel = k
      /\ r.caller = call[t].caller /\ r.pending = call[t].pending
  <2>1. "publish" \in Stages
    BY Fresh
  <2>2. k \in Kernel
    BY <1>3 DEF Kernel
  <2> HIDE DEF k
  <2> QED BY <2>1, <2>2, <1>5, <1>6, Zenon DEF Calls
<1>8. call' = [call EXCEPT ![t] = r]
  BY <1>6, Zenon DEF GetLoad, End
<1>9. /\ call' \in [Threads -> Calls] /\ call'[t] = r
      /\ \A u \in Threads : u # t => call'[u] = call[u]
  BY <1>5, <1>7, <1>8
<1>10. loads' = [loads EXCEPT ![a] = loads[a] + 1] /\ loads[a] = 0
  BY <1>3, <1>5 DEF GetLoad
<1>11. /\ loads' \in [Artifacts -> {0, 1}]
       /\ \A b \in Artifacts : b # a => loads'[b] = loads[b]
  <2> HIDE DEF a
  <2>1. loads[a] + 1 = 1
    BY <1>10
  <2>2. loads' = [loads EXCEPT ![a] = 1]
    BY <1>10, <2>1, Zenon
  <2>3. loads \in [Artifacts -> {0, 1}] /\ 1 \in {0, 1}
    BY <1>5
  <2> QED BY <2>2, <2>3, Zenon
<1>12. CallSound(t)'
  <2>1. r.kernel = [of |-> r.artifact, on |-> r.on]
    BY <1>7, Zenon
  <2> HIDE DEF Kept, a, k
  <2> QED BY <2>1, <1>2, <1>3, <1>4, <1>7, <1>9 DEF CallSound, Locking, Missing
<1>13. \A b \in Artifacts : loads'[b] # 0 =>
         \/ ready[b] # Nothing
         \/ buildLock' = t /\ call'[t].at = "publish" /\ call'[t].artifact = b
  BY <1>2, <1>3, <1>7, <1>9, <1>11, Zenon
<1> QED BY <1>2, <1>3, <1>5, <1>9, <1>11, <1>12, <1>13, DirectInv, Zenon

LEMMA GetFailsInv ==
  ASSUME Sized, Inv, NEW t \in Threads, GetFails(t)
  PROVE  Inv'
<1> DEFINE a == call[t].artifact
<1>1. call[t].at = "compile"
  BY DEF GetFails
<1>2. /\ UNCHANGED <<device, ready, waiting, active, indexOf, batch, loads>>
      /\ buildLock' = Nothing /\ Unkeyed(t)
  BY Zenon DEF GetFails
<1>3. /\ buildLock = t /\ batch.requests = <<>>
      /\ call[t].pending => a \in Kept
      /\ \A b \in Artifacts : loads[b] # 0 => ready[b] # Nothing
  BY <1>1, Compiling
<1>4. Kept' = Kept
  BY <1>2, Zenon DEF Kept
<1>5. /\ call \in [Threads -> Calls] /\ call[t] \in Calls /\ loads \in [Artifacts -> {0, 1}]
  BY Zenon DEF Inv, Typed
<1>6. PICK r : r = [call[t] EXCEPT !.at = "error", !.kernel = Nothing]
  BY Zenon
<1>7. /\ r \in Calls /\ r.at = "error" /\ r.artifact = a /\ r.pending = call[t].pending
  <2>1. "error" \in Stages
    BY Fresh
  <2> QED BY <2>1, <1>5, <1>6, Zenon DEF Calls
<1>8. call' = [call EXCEPT ![t] = r]
  BY <1>6, Zenon DEF GetFails, End
<1>9. /\ call' \in [Threads -> Calls] /\ call'[t] = r
      /\ \A u \in Threads : u # t => call'[u] = call[u]
  BY <1>5, <1>7, <1>8
<1>10. /\ keysLock' \in Threads \union {Nothing} /\ keysLock' # t
       /\ \A u \in Threads : u # t /\ keysLock' = u => keysLock = u
  BY <1>2, Released, Zenon
<1>11. CallSound(t)'
  <2> HIDE DEF Kept, a
  <2>1. Nothing # t
    BY DEF Sized
  <2> QED BY <2>1, <1>2, <1>3, <1>4, <1>7, <1>9, <1>10 DEF CallSound, Locking
<1> QED BY <1>2, <1>3, <1>5, <1>9, <1>10, <1>11, DirectInv, Zenon

\* The kernel is published, and a request queued for it meanwhile withdrawn.
LEMMA WithdrawnSound ==
  ASSUME Inv, NEW a \in Artifacts
  PROVE  /\ Withdrawn(a) \in Seq(Artifacts) /\ Distinct(Withdrawn(a))
         /\ Range(Withdrawn(a)) = Range(waiting) \ {a}
<1>0. waiting \in Seq(Artifacts) /\ Distinct(waiting)
  BY Zenon DEF Inv, Typed, WaitingSound
<1>1. CASE a \in Range(waiting)
  <2> DEFINE k == CHOOSE i \in DOMAIN waiting : waiting[i] = a
  <2>1. \E i \in DOMAIN waiting : waiting[i] = a
    BY <1>1 DEF Range
  <2>2. k \in DOMAIN waiting /\ waiting[k] = a
    BY <2>1, Zenon
  <2>3. Withdrawn(a) = Without(waiting, k)
    BY <1>1, Zenon DEF Withdrawn
  <2> HIDE DEF k
  <2>4. /\ Without(waiting, k) \in Seq(Artifacts) /\ Distinct(Without(waiting, k))
        /\ Range(Without(waiting, k)) = Range(waiting) \ {waiting[k]}
    BY <1>0, <2>2, Removed, Zenon
  <2> QED BY <2>2, <2>3, <2>4, Zenon
<1>2. CASE a \notin Range(waiting)
  <2>1. Withdrawn(a) = waiting
    BY <1>2, Zenon DEF Withdrawn
  <2> QED BY <1>0, <1>2, <2>1
<1> QED BY <1>1, <1>2

LEMMA GetPublishInv ==
  ASSUME Sized, Inv, NEW t \in Threads, GetPublish(t)
  PROVE  Inv'
<1> DEFINE a == call[t].artifact
           k == [of |-> a, on |-> device]
<1>1. call[t].at = "publish" /\ call[t].at \in Locking
  BY DEF GetPublish, Locking
<1>2. /\ UNCHANGED <<device, active, batch, loads>>
      /\ buildLock' = Nothing /\ Unkeyed(t) /\ waiting' = Withdrawn(a)
  BY Zenon DEF GetPublish
<1>3. /\ buildLock = t /\ a \in Artifacts /\ call[t].on \in Devices /\ call[t].on = device
      /\ call[t].kernel = k
  BY <1>1, Zenon DEF Inv, CallSound
<1>4. batch.requests = <<>> /\ active = {} /\ batch.unbuilt = <<>>
  BY <1>1, <1>3, NoneActive
<1>5. /\ call \in [Threads -> Calls] /\ call[t] \in Calls /\ loads \in [Artifacts -> {0, 1}]
      /\ ready \in [Artifacts -> Kernel \union {Nothing}]
  BY Zenon DEF Inv, Typed
<1>6. k \in Kernel /\ k # Nothing
  <2>1. k \in Kernel
    BY <1>3 DEF Kernel
  <2> QED BY <2>1, Zenon DEF Sized
<1>7. ready' = [ready EXCEPT ![a] = k]
  BY <1>3, Zenon DEF GetPublish
<1> HIDE DEF a, k, Kept
<1>8. /\ ready' \in [Artifacts -> Kernel \union {Nothing}] /\ ready'[a] = k
      /\ \A b \in Artifacts : b # a => ready'[b] = ready[b]
  BY <1>3, <1>5, <1>6, <1>7, Zenon
<1>9. /\ waiting' \in Seq(Artifacts) /\ Distinct(waiting')
      /\ Range(waiting') = Range(waiting) \ {a}
  BY <1>2, <1>3, WithdrawnSound, Zenon
<1>10. ready[a] = Nothing
  BY <1>1, Zenon DEF Inv, CallSound, a
<1>11. Kept \subseteq Kept' /\ a \in Kept'
  BY <1>2, <1>3, <1>6, <1>8, <1>9 DEF Kept
<1>12. Grown
  BY <1>2, <1>8, <1>10, <1>11, Zenon DEF Grown
<1>13. PICK r : r = [call[t] EXCEPT !.at = "done"]
  BY Zenon
<1>14. r \in Calls /\ r.at = "done" /\ r.artifact = a
  <2>1. "done" \in Stages
    BY Fresh
  <2> QED BY <2>1, <1>5, <1>13, Zenon DEF Calls, a
<1>15. call' = [call EXCEPT ![t] = r]
  BY <1>13, Zenon DEF GetPublish, Goto
<1>16. /\ call' \in [Threads -> Calls] /\ call'[t] = r
       /\ \A u \in Threads : u # t => call'[u] = call[u]
  BY <1>5, <1>14, <1>15
<1>17. indexOf' = IF keysLock = t THEN [indexOf EXCEPT ![call[t].caller] = call[t].artifact] ELSE indexOf
  BY Zenon DEF GetPublish
<1>18. /\ indexOf' \in [CallerKeys -> Artifacts \union {Nothing}]
       /\ \A c \in CallerKeys : \/ indexOf'[c] = indexOf[c]
                                \/ indexOf'[c] = ArtifactOf[c] /\ ArtifactOf[c] \in Kept'
  BY <1>11, <1>17, Filed DEF a
<1>19. /\ keysLock' \in Threads \union {Nothing} /\ keysLock' # t
       /\ \A u \in Threads : u # t /\ keysLock' = u => keysLock = u
  BY <1>2, Released, Zenon
<1>20. Typed'
  <2>1. device \in Devices \union {Nothing} /\ active \in SUBSET Artifacts /\ batch \in Batches
    BY Zenon DEF Inv, Typed
  <2> QED BY <2>1, <1>2, <1>5, <1>8, <1>9, <1>16, <1>18, <1>19, Zenon DEF Typed
<1>21. ReadySound'
  <2>1. \A b \in Artifacts : b # a /\ ready[b] # Nothing => ready[b] = [of |-> b, on |-> device]
    BY Zenon DEF Inv, ReadySound
  <2>2. \A b \in Artifacts : ready'[b] # Nothing => ready'[b] = [of |-> b, on |-> device]
    BY <2>1, <1>8, Zenon DEF k
  <2>3. \A b \in Artifacts : loads[b] # 0 => b = a \/ ready[b] # Nothing
    BY <1>3, Zenon DEF Inv, ReadySound, a
  <2>4. \A b \in Artifacts : loads'[b] # 0 => ready'[b] # Nothing
    BY <2>3, <1>2, <1>6, <1>8, Zenon
  <2> QED BY <2>2, <2>4, <1>2, Zenon DEF ReadySound
<1>22. WaitingSound'
  <2>1. \A b \in Range(waiting) : ready[b] = Nothing
    BY DEF Inv, WaitingSound, Range
  <2>2. \A i \in DOMAIN waiting' : waiting'[i] \in Range(waiting')
    BY DEF Range
  <2>3. \A i \in DOMAIN waiting' : waiting'[i] \in Artifacts
    BY <1>9
  <2>4. \A i \in DOMAIN waiting' : waiting'[i] \in Range(waiting) /\ waiting'[i] # a
    BY <2>2, <1>9
  <2>5. \A i \in DOMAIN waiting' : ready'[waiting'[i]] = Nothing
    BY <2>1, <2>3, <2>4, <1>8, Zenon
  <2> QED BY <2>5, <1>2, <1>4, <1>9 DEF WaitingSound
<1>23. BatchSound'
  <2>1. DOMAIN batch.requests = {} /\ DOMAIN batch.unbuilt = {}
    BY <1>4
  <2> QED BY <2>1, <1>2, <1>4, Zenon DEF Inv, BatchSound
<1>24. IndexSound'
  BY <1>12, <1>18, IndexKept, Zenon
<1>25. CallSound(t)'
  <2>1. Nothing # t
    BY DEF Sized
  <2> QED BY <2>1, <1>2, <1>11, <1>14, <1>16, <1>19 DEF CallSound, Locking
<1>26. ASSUME NEW u \in Threads PROVE CallSound(u)'
  <2>1. Nothing # u
    BY DEF Sized
  <2> QED BY <2>1, <1>2, <1>3, <1>12, <1>16, <1>19, <1>25, OtherSound, Zenon
<1> QED BY <1>20, <1>21, <1>22, <1>23, <1>24, <1>26 DEF Inv

-----------------------------------------------------------------------------
(* The batch.                                                              *)

\* A worker that draws a request or fills its slot changes only the slots.
LEMMA SlotsInv ==
  ASSUME Sized, Inv, NEW b \in Batches, batch' = b,
         UNCHANGED <<device, ready, waiting, active, indexOf, buildLock, keysLock, call, loads>>,
         b.requests = batch.requests, b.at = batch.at, b.unbuilt = batch.unbuilt,
         Len(b.slots) = Len(b.requests),
         \A i \in DOMAIN b.requests : b.slots[i] \in {Nothing, "error", b.requests[i]},
         \A w \in Workers : b.doing[w] <= Len(b.requests)
  PROVE  Inv'
<1>1. Kept' = Kept
  BY Zenon DEF Kept
<1>2. Grown
  BY <1>1 DEF Grown
<1>3. Typed'
  BY Zenon DEF Inv, Typed
<1>4. ReadySound' /\ WaitingSound'
  BY Zenon DEF Inv, ReadySound, WaitingSound
<1>5. BatchSound'
  <2>1. /\ batch'.requests = batch.requests /\ batch'.at = batch.at /\ batch'.unbuilt = batch.unbuilt
        /\ Len(batch'.slots) = Len(batch'.requests)
        /\ \A i \in DOMAIN batch'.requests : batch'.slots[i] \in {Nothing, "error", batch'.requests[i]}
        /\ \A w \in Workers : batch'.doing[w] <= Len(batch'.requests)
    BY Zenon
  <2>2. BatchSound
    BY DEF Inv
  <2> QED BY <2>1, <2>2 DEF BatchSound
<1>6. IndexSound'
  BY <1>2, IndexKept, Zenon
<1>7. ASSUME NEW u \in Threads PROVE CallSound(u)'
  BY <1>2, OtherSound, Zenon
<1> QED BY <1>3, <1>4, <1>5, <1>6, <1>7 DEF Inv

LEMMA DrawInv ==
  ASSUME Sized, Inv, NEW w \in Workers, Draw(w)
  PROVE  Inv'
<1>1. UNCHANGED <<device, ready, waiting, active, indexOf, buildLock, keysLock, call, loads>>
  BY Zenon DEF Draw
<1>2. /\ batch \in Batches /\ Len(batch.slots) = Len(batch.requests)
      /\ \A i \in DOMAIN batch.requests : batch.slots[i] \in {Nothing, "error", batch.requests[i]}
      /\ \A v \in Workers : batch.doing[v] <= Len(batch.requests)
  BY Zenon DEF Inv, Typed, BatchSound
<1>3. batch.doing \in [Workers -> Nat] /\ batch.next \in Nat /\ batch.next # 0
  BY <1>2 DEF Batches
<1>4. batch.next <= Len(batch.requests)
  BY Zenon DEF Draw, Remaining
<1>5. PICK n : n = [batch.doing EXCEPT ![w] = batch.next]
  BY Zenon
<1>6. n \in [Workers -> Nat] /\ \A v \in Workers : n[v] <= Len(batch.requests)
  BY <1>2, <1>3, <1>4, <1>5
<1>7. PICK m : m = batch.next + 1
  BY Zenon
<1>8. m \in Nat \ {0}
  BY <1>3, <1>7
<1>9. PICK b : b = [batch EXCEPT !.doing = n, !.next = m]
  BY Zenon
<1>10. /\ b \in Batches /\ b.requests = batch.requests /\ b.at = batch.at
       /\ b.unbuilt = batch.unbuilt /\ b.slots = batch.slots /\ b.doing = n
  BY Zenon, <1>2, <1>6, <1>8, <1>9 DEF Batches
<1>11. batch' = b
  BY <1>5, <1>7, <1>9, Zenon DEF Draw
<1> QED BY <1>1, <1>2, <1>6, <1>10, <1>11, SlotsInv, Zenon

LEMMA CompiledInv ==
  ASSUME Sized, Inv, NEW w \in Workers, NEW succeeds \in BOOLEAN, Compiled(w, succeeds)
  PROVE  Inv'
<1> DEFINE i == batch.doing[w]
<1>1. UNCHANGED <<device, ready, waiting, active, indexOf, buildLock, keysLock, call, loads>>
  BY Zenon DEF Compiled
<1>2. /\ batch \in Batches /\ Len(batch.slots) = Len(batch.requests)
      /\ \A j \in DOMAIN batch.requests : batch.slots[j] \in {Nothing, "error", batch.requests[j]}
      /\ \A v \in Workers : batch.doing[v] <= Len(batch.requests)
  BY Zenon DEF Inv, Typed, BatchSound
<1>3. /\ batch.doing \in [Workers -> Nat] /\ batch.requests \in Seq(Artifacts)
      /\ batch.slots \in Seq(Artifacts \union {Nothing, "error"})
  BY <1>2 DEF Batches
<1>4. i # 0 /\ i \in Nat /\ i <= Len(batch.requests)
  BY <1>2, <1>3 DEF Compiled
<1>5. i \in DOMAIN batch.requests /\ batch.requests[i] \in Artifacts /\ DOMAIN batch.slots = DOMAIN batch.requests
  BY <1>2, <1>3, <1>4
<1>6. PICK x : x = IF succeeds THEN batch.requests[i] ELSE "error"
  BY Zenon
<1>7. x \in {"error", batch.requests[i]} /\ x \in Artifacts \union {Nothing, "error"}
  BY <1>5, <1>6
<1>8. PICK n : n = [batch.doing EXCEPT ![w] = 0]
  BY Zenon
<1>9. n \in [Workers -> Nat] /\ \A v \in Workers : n[v] <= Len(batch.requests)
  BY <1>2, <1>3, <1>8
<1>10. PICK s : s = [batch.slots EXCEPT ![i] = x]
  BY Zenon
<1> HIDE DEF i
<1>11. /\ s \in Seq(Artifacts \union {Nothing, "error"}) /\ Len(s) = Len(batch.requests)
       /\ \A j \in DOMAIN batch.requests : s[j] \in {Nothing, "error", batch.requests[j]}
  <2>1. s \in Seq(Artifacts \union {Nothing, "error"}) /\ Len(s) = Len(batch.slots)
    <3> DEFINE T == Artifacts \union {Nothing, "error"}
    <3>1. batch.slots \in Seq(T) /\ i \in DOMAIN batch.slots /\ x \in T
      BY <1>3, <1>5, <1>7
    <3> HIDE DEF T
    <3>2. \A q \in Seq(T) : \A j \in DOMAIN q, y \in T :
             [q EXCEPT ![j] = y] \in Seq(T) /\ Len([q EXCEPT ![j] = y]) = Len(q)
      OBVIOUS
    <3>3. s \in Seq(T) /\ Len(s) = Len(batch.slots)
      BY <3>1, <3>2, <1>10, Zenon
    <3> QED BY <3>3 DEF T
  <2>2. \A j \in DOMAIN batch.requests : s[j] = IF j = i THEN x ELSE batch.slots[j]
    BY <1>5, <1>10
  <2> QED BY <2>1, <2>2, <1>2, <1>7
<1>12. PICK b : b = [batch EXCEPT !.doing = n, !.slots = s]
  BY Zenon
<1>13. /\ b \in Batches /\ b.requests = batch.requests /\ b.at = batch.at
       /\ b.unbuilt = batch.unbuilt /\ b.slots = s /\ b.doing = n
  BY Zenon, <1>2, <1>9, <1>11, <1>12 DEF Batches
<1>14. batch' = b
  BY <1>6, <1>8, <1>10, <1>12, Zenon DEF Compiled, Slot, i
<1> QED BY <1>1, <1>2, <1>9, <1>11, <1>13, <1>14, SlotsInv, Zenon

\* The queue becomes a batch.
LEMMA BuildInv ==
  ASSUME Sized, Inv, NEW t \in Threads, Build(t), Claims(call[t].on), waiting # <<>>
  PROVE  Inv'
<1> DEFINE a == call[t].artifact
           d == call[t].on
<1>1. call[t].at = "build" /\ call[t].at \notin Locking /\ call[t].at \notin Missing
  BY DEF Build, Locking, Missing
<1>2. /\ UNCHANGED <<ready, indexOf, keysLock, loads>> /\ buildLock = Nothing /\ buildLock' = t
      /\ Claim(d) /\ active' = active \union Range(waiting) /\ waiting' = <<>>
  BY Zenon DEF Build
<1>3. /\ keysLock # t /\ a \in Kept /\ a \in Artifacts /\ d \in Devices /\ ~call[t].failure
  BY <1>1, Zenon DEF Inv, CallSound
<1>4. /\ call \in [Threads -> Calls] /\ call[t] \in Calls /\ keysLock \in Threads \union {Nothing}
      /\ waiting \in Seq(Artifacts)
  BY Zenon DEF Inv, Typed
<1>5. /\ device' \in Devices \union {Nothing} /\ (device # Nothing => device' = device)
      /\ device' = d
  BY <1>2, <1>3, Claimed, Zenon
<1>6. active' = Range(waiting) /\ Range(waiting') = {} /\ active = {}
  <2>1. active = {}
    BY <1>2, NoneActive
  <2>2. Range(<<>>) = {}
    BY DEF Range
  <2> QED BY <2>1, <2>2, <1>2
<1>7. Kept' = Kept
  BY <1>2, <1>6 DEF Kept
<1>8. Grown
  BY <1>2, <1>5, <1>7 DEF Grown
<1>9. PICK s : s = [i \in DOMAIN waiting |-> Nothing]
  BY Zenon
<1>10. /\ s \in Seq(Artifacts \union {Nothing, "error"}) /\ Len(s) = Len(waiting)
       /\ \A i \in DOMAIN waiting : s[i] = Nothing
  BY <1>4, <1>9
<1>11. PICK b : b = [NoBatch EXCEPT !.requests = waiting, !.slots = s]
  BY Zenon
<1>12. /\ b \in Batches /\ b.requests = waiting /\ b.slots = s
       /\ b.at = NoBatch.at /\ b.unbuilt = NoBatch.unbuilt /\ b.doing = NoBatch.doing
  BY <1>4, <1>10, <1>11, EmptyBatch, Zenon DEF Batches
<1>13. b.at = 1 /\ b.unbuilt = <<>> /\ \A w \in Workers : b.doing[w] = 0
  BY <1>12 DEF NoBatch
<1>14. batch' = b
  BY <1>9, <1>11, Zenon DEF Build
<1>15. PICK r : r = [call[t] EXCEPT !.at = "batch"]
  BY Zenon
<1>16. r \in Calls /\ r.at = "batch" /\ r.artifact = a /\ r.on = d
  <2>1. "batch" \in Stages
    BY Fresh
  <2> QED BY <2>1, <1>4, <1>15, Zenon DEF Calls
<1>17. call' = [call EXCEPT ![t] = r]
  BY <1>15, Zenon DEF Build, Goto
<1>18. /\ call' \in [Threads -> Calls] /\ call'[t] = r
       /\ \A u \in Threads : u # t => call'[u] = call[u]
  BY <1>4, <1>16, <1>17
<1> HIDE DEF a, d
<1>19. Typed'
  <2>1. /\ Range(waiting) \in SUBSET Artifacts /\ <<>> \in Seq(Artifacts)
    BY <1>4 DEF Range
  <2>2. /\ ready \in [Artifacts -> Kernel \union {Nothing}] /\ loads \in [Artifacts -> {0, 1}]
        /\ indexOf \in [CallerKeys -> Artifacts \union {Nothing}]
    BY Zenon DEF Inv, Typed
  <2> QED BY <2>1, <2>2, <1>2, <1>4, <1>5, <1>6, <1>12, <1>14, <1>18 DEF Typed
<1>20. ReadySound'
  <2>1. \A x \in Artifacts : ready[x] # Nothing => device # Nothing
    BY DEF Inv, Typed, ReadySound, Sized, Kernel
  <2>2. \A x \in Artifacts : loads[x] # 0 => ready[x] # Nothing
    BY <1>2, Zenon DEF Inv, ReadySound
  <2> QED BY <2>1, <2>2, <1>2, <1>5, Zenon DEF Inv, ReadySound
<1>21. WaitingSound'
  <2>1. DOMAIN waiting' = {}
    BY <1>2
  <2> QED BY <2>1, Zenon DEF WaitingSound, Distinct
<1>22. BatchSound'
  <2>1. /\ Distinct(waiting) /\ \A i \in DOMAIN waiting : ready[waiting[i]] = Nothing
    BY Zenon DEF Inv, WaitingSound
  <2>2. DOMAIN b.unbuilt = {} /\ Distinct(b.unbuilt)
    BY <1>13 DEF Distinct
  <2>3. \A i \in DOMAIN waiting : i >= 1
    BY <1>4
  <2>4. t # Nothing /\ Len(waiting) \in Nat
    BY <1>4 DEF Sized
  <2>5. \A w \in Workers : b.doing[w] <= Len(waiting)
    BY <2>4, <1>13
  <2> QED BY <2>1, <2>2, <2>3, <2>4, <2>5, <1>2, <1>6, <1>10, <1>12, <1>13, <1>14, <1>16, <1>18 DEF BatchSound
<1>23. IndexSound'
  BY <1>2, <1>8, IndexKept, Zenon
<1>24. CallSound(t)'
  <2>1. a \in Kept' /\ (ready'[a] # Nothing \/ a \in active')
    BY <1>3, <1>6, <1>7 DEF Kept
  <2> HIDE DEF Kept
  <2> QED BY <2>1, <1>2, <1>3, <1>5, <1>13, <1>14, <1>16, <1>18 DEF CallSound, Locking
<1>25. ASSUME NEW u \in Threads PROVE CallSound(u)'
  <2>1. Nothing # u
    BY DEF Sized
  <2> QED BY <2>1, <1>2, <1>8, <1>18, <1>24, OtherSound, Zenon
<1> QED BY <1>19, <1>20, <1>21, <1>22, <1>23, <1>25 DEF Inv

\* What the thread that loads the batch knows of the request it is at.
LEMMA Loading ==
  ASSUME Sized, Inv, NEW t \in Threads, NEW succeeds \in BOOLEAN, Load(t, succeeds)
  PROVE  /\ buildLock = t /\ call[t].at = "batch" /\ call[t].on = device /\ device \in Devices
         /\ call[t].artifact \in Artifacts /\ call[t].artifact \in Kept
         /\ ready[call[t].artifact] # Nothing \/ call[t].artifact \in active
         /\ batch.at \in DOMAIN batch.requests /\ batch.requests[batch.at] \in Artifacts
         /\ batch.requests[batch.at] \in active /\ ready[batch.requests[batch.at]] = Nothing
         /\ batch.slots[batch.at] \in {"error", batch.requests[batch.at]}
         /\ loads[batch.requests[batch.at]] = 0 /\ keysLock # t
         /\ \A x \in Artifacts : loads[x] # 0 => ready[x] # Nothing
         /\ batch.requests[batch.at] \notin Range(batch.unbuilt)
<1> DEFINE i == batch.at
           a == batch.requests[i]
<1>1. /\ call[t].at = "batch" /\ buildLock = t /\ Nothing \notin Range(batch.slots)
      /\ i <= Len(batch.requests)
  BY Zenon DEF Load
<1>2. call[t].at \in Locking /\ call[t].at \notin Missing
  BY <1>1 DEF Locking, Missing
<1>3. /\ call[t].on = device /\ call[t].on \in Devices /\ call[t].artifact \in Artifacts
      /\ call[t].artifact \in Kept /\ keysLock # t
      /\ ready[call[t].artifact] # Nothing \/ call[t].artifact \in active
  BY <1>1, <1>2, Zenon DEF Inv, CallSound
<1>4. /\ batch.at \in Nat \ {0} /\ batch.requests \in Seq(Artifacts)
      /\ batch.slots \in Seq(Artifacts \union {Nothing, "error"})
  BY DEF Inv, Typed, Batches
<1>5. i \in DOMAIN batch.requests /\ a \in Artifacts
  BY <1>1, <1>4
<1>6. i \in DOMAIN batch.slots
  BY <1>4, <1>5 DEF Inv, BatchSound
<1>7. a \in active
  BY <1>5 DEF Inv, BatchSound, Range
<1>8. ready[a] = Nothing
  <2>1. i >= batch.at
    BY <1>4
  <2> QED BY <2>1, <1>5, Zenon DEF Inv, BatchSound
<1>9. batch.slots[i] \in {"error", a}
  <2>1. batch.slots[i] \in {Nothing, "error", a}
    BY <1>5, Zenon DEF Inv, BatchSound
  <2>2. batch.slots[i] # Nothing
    BY <1>1, <1>6 DEF Range
  <2> QED BY <2>1, <2>2
<1>10. \A x \in Artifacts : loads[x] # 0 => ready[x] # Nothing
  BY Zenon, <1>1 DEF Inv, ReadySound
<1>11. loads[a] = 0
  BY <1>5, <1>8, <1>10, Zenon
<1>12. a \notin Range(batch.unbuilt)
  <2> SUFFICES ASSUME NEW k \in DOMAIN batch.unbuilt, batch.unbuilt[k] = a PROVE FALSE
    BY DEF Range
  <2>1. PICK j \in DOMAIN batch.requests : j < batch.at /\ batch.requests[j] = a
    BY Zenon DEF Inv, BatchSound
  <2>2. j = i
    BY <2>1, <1>5, Zenon DEF Inv, BatchSound, Distinct
  <2> QED BY <2>1, <2>2, <1>4
<1> QED BY <1>1, <1>3, <1>5, <1>7, <1>8, <1>9, <1>10, <1>11, <1>12, Zenon

\* A request of the batch is loaded.
LEMMA LoadedInv ==
  ASSUME Sized, Inv, NEW t \in Threads, NEW succeeds \in BOOLEAN, Load(t, succeeds),
         succeeds /\ batch.slots[batch.at] # "error"
  PROVE  Inv'
<1> DEFINE i == batch.at
           a == batch.requests[i]
           k == [of |-> a, on |-> device]
<1>1. /\ buildLock = t /\ call[t].at = "batch" /\ call[t].on = device /\ device \in Devices
      /\ call[t].artifact \in Artifacts /\ call[t].artifact \in Kept
      /\ ready[call[t].artifact] # Nothing \/ call[t].artifact \in active
      /\ i \in DOMAIN batch.requests /\ a \in Artifacts
      /\ a \in active /\ ready[a] = Nothing
      /\ batch.slots[i] \in {"error", a} /\ loads[a] = 0 /\ keysLock # t
      /\ \A x \in Artifacts : loads[x] # 0 => ready[x] # Nothing
      /\ a \notin Range(batch.unbuilt)
  BY Loading, Zenon
<1>2. UNCHANGED <<device, waiting, active, indexOf, buildLock, keysLock, call>>
  BY Zenon DEF Load
<1>3. batch.slots[i] = a
  BY <1>1, Zenon
<1>4. k \in Kernel /\ k # Nothing
  <2>1. k \in Kernel
    BY <1>1 DEF Kernel
  <2> QED BY <2>1, Zenon DEF Sized
<1>5. ready' = [ready EXCEPT ![a] = k] /\ loads' = [loads EXCEPT ![a] = loads[a] + 1]
  BY <1>1, <1>3, Zenon DEF Load
<1>6. /\ ready \in [Artifacts -> Kernel \union {Nothing}] /\ loads \in [Artifacts -> {0, 1}]
      /\ batch \in Batches
  BY Zenon DEF Inv, Typed
<1>7. i \in Nat \ {0} /\ batch.requests \in Seq(Artifacts)
  BY <1>6 DEF Batches
<1>8. PICK n : n = i + 1
  BY Zenon
<1>9. n \in Nat \ {0}
  BY <1>7, <1>8
<1>10. PICK b : b = [batch EXCEPT !.at = n]
  BY Zenon
<1>11. /\ b \in Batches /\ b.requests = batch.requests /\ b.at = n /\ b.slots = batch.slots
       /\ b.unbuilt = batch.unbuilt /\ b.doing = batch.doing
  BY <1>6, <1>9, <1>10, Zenon DEF Batches
<1>12. batch' = b
  BY <1>8, <1>10, Zenon DEF Load
<1> HIDE DEF a, k, i, Kept
<1>13. /\ ready' \in [Artifacts -> Kernel \union {Nothing}] /\ ready'[a] = k
       /\ \A x \in Artifacts : x # a => ready'[x] = ready[x]
  BY <1>1, <1>4, <1>5, <1>6, Zenon
<1>14. /\ loads' \in [Artifacts -> {0, 1}] /\ \A x \in Artifacts : x # a => loads'[x] = loads[x]
  <2>1. loads[a] + 1 = 1 /\ 1 \in {0, 1}
    BY <1>1
  <2>2. loads' = [loads EXCEPT ![a] = 1]
    BY <1>5, <2>1, Zenon
  <2> QED BY <2>1, <2>2, <1>6, Zenon
<1>15. Kept \subseteq Kept'
  BY <1>1, <1>2, <1>4, <1>13 DEF Kept
<1>16. Grown
  BY <1>1, <1>2, <1>13, <1>15, Zenon DEF Grown
<1>17. Typed'
  BY <1>2, <1>11, <1>12, <1>13, <1>14, Zenon DEF Inv, Typed
<1>18. ReadySound'
  <2>1. \A x \in Artifacts : ready'[x] # Nothing => ready'[x] = [of |-> x, on |-> device]
    BY <1>13, Zenon DEF Inv, ReadySound, k
  <2>2. \A x \in Artifacts : loads'[x] # 0 => ready'[x] # Nothing
    BY <1>1, <1>4, <1>13, <1>14, Zenon
  <2> QED BY <2>1, <2>2, <1>2, Zenon DEF ReadySound
<1>19. WaitingSound'
  <2>1. \A j \in DOMAIN waiting : waiting[j] # a /\ waiting[j] \in Artifacts
    BY <1>1 DEF Inv, WaitingSound, Typed
  <2> QED BY <2>1, <1>2, <1>13, Zenon DEF Inv, WaitingSound
<1>20. BatchSound'
  <2>1. \A j \in DOMAIN batch.requests : j # i => batch.requests[j] # a
    BY <1>1, Zenon DEF Inv, BatchSound, Distinct, a
  <2>2. \A j \in DOMAIN batch.requests : j \in Int /\ batch.requests[j] \in Artifacts
    BY <1>7
  <2>3. \A j \in DOMAIN batch.requests :
          IF j >= n THEN ready'[batch.requests[j]] = Nothing
          ELSE ready'[batch.requests[j]] # Nothing \/ batch.requests[j] \in Range(batch.unbuilt)
    <3> SUFFICES ASSUME NEW j \in DOMAIN batch.requests
                 PROVE  IF j >= n THEN ready'[batch.requests[j]] = Nothing
                        ELSE ready'[batch.requests[j]] # Nothing \/ batch.requests[j] \in Range(batch.unbuilt)
      BY Zenon
    <3>1. IF j >= i THEN ready[batch.requests[j]] = Nothing
          ELSE ready[batch.requests[j]] # Nothing \/ batch.requests[j] \in Range(batch.unbuilt)
      BY Zenon DEF Inv, BatchSound, i
    <3>2. CASE j = i
      <4>1. batch.requests[j] = a /\ ~(j >= n)
        BY <3>2, <1>7, <1>8 DEF a
      <4> QED BY <4>1, <1>4, <1>13, Zenon
    <3>3. CASE j # i
      <4>1. ready'[batch.requests[j]] = ready[batch.requests[j]]
        BY <3>3, <2>1, <2>2, <1>13, Zenon
      <4>2. j >= n <=> j >= i
        BY <3>3, <2>2, <1>7, <1>8
      <4> QED BY <4>1, <4>2, <3>1, Zenon
    <3> QED BY <3>2, <3>3
  <2>4. \A x \in DOMAIN batch.unbuilt :
          /\ ready'[batch.unbuilt[x]] = Nothing
          /\ \E j \in DOMAIN batch.requests : j < n /\ batch.requests[j] = batch.unbuilt[x]
    <3> SUFFICES ASSUME NEW x \in DOMAIN batch.unbuilt
                 PROVE  /\ ready'[batch.unbuilt[x]] = Nothing
                        /\ \E j \in DOMAIN batch.requests : j < n /\ batch.requests[j] = batch.unbuilt[x]
      BY Zenon
    <3>1. PICK j \in DOMAIN batch.requests : j < i /\ batch.requests[j] = batch.unbuilt[x]
      BY Zenon DEF Inv, BatchSound, i
    <3>2. ready[batch.unbuilt[x]] = Nothing
      BY Zenon DEF Inv, BatchSound
    <3>3. j < n /\ j # i
      BY <3>1, <2>2, <1>7, <1>8
    <3> QED BY <3>1, <3>2, <3>3, <2>1, <2>2, <1>13, Zenon
  <2>5. BatchSound
    BY DEF Inv
  <2> QED BY <2>3, <2>4, <2>5, <1>2, <1>11, <1>12 DEF BatchSound
<1>21. IndexSound'
  BY <1>2, <1>16, IndexKept, Zenon
<1>22. CallSound(t)'
  <2>1. call[t].artifact \in Kept'
    BY <1>1, <1>15
  <2>2. ready'[call[t].artifact] # Nothing \/ call[t].artifact \in active
    BY <1>1, <1>16, Zenon DEF Grown
  <2>3. ~call[t].failure => batch.unbuilt = <<>>
    BY <1>1, Zenon DEF Inv, CallSound
  <2> QED BY <2>1, <2>2, <2>3, <1>1, <1>2, <1>11, <1>12 DEF CallSound, Locking
<1>23. ASSUME NEW u \in Threads PROVE CallSound(u)'
  BY <1>1, <1>2, <1>16, <1>22, OtherSound, Zenon
<1> QED BY <1>17, <1>18, <1>19, <1>20, <1>21, <1>23 DEF Inv

\* A request of the batch fails, and stays wanted.
LEMMA UnbuiltInv ==
  ASSUME Sized, Inv, NEW t \in Threads, NEW succeeds \in BOOLEAN, Load(t, succeeds),
         ~(succeeds /\ batch.slots[batch.at] # "error")
  PROVE  Inv'
<1> DEFINE i == batch.at
           a == batch.requests[i]
<1>1. /\ buildLock = t /\ call[t].at = "batch" /\ call[t].on = device /\ device \in Devices
      /\ call[t].artifact \in Artifacts /\ call[t].artifact \in Kept
      /\ ready[call[t].artifact] # Nothing \/ call[t].artifact \in active
      /\ i \in DOMAIN batch.requests /\ a \in Artifacts /\ ready[a] = Nothing /\ keysLock # t
      /\ \A x \in Artifacts : loads[x] # 0 => ready[x] # Nothing
      /\ a \notin Range(batch.unbuilt)
  BY Loading, Zenon
<1>2. UNCHANGED <<device, ready, waiting, active, indexOf, buildLock, keysLock, loads>>
  BY Zenon DEF Load
<1>3. batch \in Batches /\ call \in [Threads -> Calls] /\ call[t] \in Calls
  BY Zenon DEF Inv, Typed
<1>4. i \in Nat \ {0} /\ batch.requests \in Seq(Artifacts) /\ batch.unbuilt \in Seq(Artifacts)
  BY <1>3 DEF Batches
<1>5. PICK n : n = i + 1
  BY Zenon
<1>6. PICK q : q = Append(batch.unbuilt, a)
  BY Zenon
<1>7. n \in Nat \ {0}
  BY <1>4, <1>5
<1>8. q \in Seq(Artifacts) /\ Distinct(q) /\ Range(q) = Range(batch.unbuilt) \union {a}
  <2>1. Distinct(batch.unbuilt)
    BY Zenon DEF Inv, BatchSound
  <2> QED BY <2>1, <1>1, <1>4, <1>6, Appended, Zenon
<1>9. PICK b : b = [batch EXCEPT !.at = n, !.unbuilt = q]
  BY Zenon
<1>10. /\ b \in Batches /\ b.requests = batch.requests /\ b.at = n /\ b.slots = batch.slots
       /\ b.unbuilt = q /\ b.doing = batch.doing
  BY <1>3, <1>7, <1>8, <1>9, Zenon DEF Batches
<1>11. batch' = b
  BY <1>5, <1>6, <1>9, Zenon DEF Load
<1>12. PICK r : r = [call[t] EXCEPT !.failure = TRUE]
  BY Zenon
<1>13. /\ r \in Calls /\ r.at = "batch" /\ r.artifact = call[t].artifact /\ r.on = call[t].on
       /\ r.failure /\ r.caller = call[t].caller
  BY <1>1, <1>3, <1>12, Zenon DEF Calls
<1>14. call' = [call EXCEPT ![t] = r]
  BY <1>12, Zenon DEF Load
<1>15. /\ call' \in [Threads -> Calls] /\ call'[t] = r
       /\ \A u \in Threads : u # t => call'[u] = call[u]
  BY <1>3, <1>13, <1>14
<1> HIDE DEF a, i, Kept
<1>16. Kept' = Kept /\ Grown
  BY <1>2 DEF Kept, Grown
<1>17. Typed'
  BY <1>2, <1>10, <1>11, <1>15, Zenon DEF Inv, Typed
<1>18. ReadySound' /\ WaitingSound'
  BY <1>1, <1>2, Zenon DEF Inv, ReadySound, WaitingSound
<1>19. BatchSound'
  <2>1. \A j \in DOMAIN batch.requests : j \in Int
    BY <1>4
  <2>2. \A x \in Range(batch.unbuilt) : x \in Range(q)
    BY <1>8
  <2>3. a \in Range(q)
    BY <1>8
  <2>4. ASSUME NEW j \in DOMAIN batch.requests
        PROVE  IF j >= n THEN ready[batch.requests[j]] = Nothing
               ELSE ready[batch.requests[j]] # Nothing \/ batch.requests[j] \in Range(q)
    <3>1. IF j >= i THEN ready[batch.requests[j]] = Nothing
          ELSE ready[batch.requests[j]] # Nothing \/ batch.requests[j] \in Range(batch.unbuilt)
      BY Zenon DEF Inv, BatchSound, i
    <3>2. CASE j = i
      <4>1. batch.requests[j] = a /\ ~(j >= n)
        BY <3>2, <1>4, <1>5 DEF a
      <4> QED BY <4>1, <2>3, Zenon
    <3>3. CASE j # i
      <4>1. j >= n <=> j >= i
        BY <3>3, <2>1, <1>4, <1>5
      <4> QED BY <4>1, <3>1, <2>2, Zenon
    <3> QED BY <3>2, <3>3
  <2>5. ASSUME NEW x \in Range(q)
        PROVE  ready[x] = Nothing /\ \E j \in DOMAIN batch.requests : j < n /\ batch.requests[j] = x
    <3>1. CASE x = a
      <4>1. i < n
        BY <1>4, <1>5
      <4> QED BY <3>1, <4>1, <1>1, Zenon DEF a
    <3>2. CASE x \in Range(batch.unbuilt)
      <4>1. PICK y \in DOMAIN batch.unbuilt : batch.unbuilt[y] = x
        BY <3>2 DEF Range
      <4>2. PICK j \in DOMAIN batch.requests : j < i /\ batch.requests[j] = x
        BY <4>1, Zenon DEF Inv, BatchSound, i
      <4>3. ready[x] = Nothing
        BY <4>1, Zenon DEF Inv, BatchSound
      <4>4. j < n
        BY <4>2, <2>1, <1>4, <1>5
      <4> QED BY <4>2, <4>3, <4>4, Zenon
    <3> QED BY <3>1, <3>2, <1>8
  <2>6. \A y \in DOMAIN q : q[y] \in Range(q)
    BY DEF Range
  <2>7. \A y \in DOMAIN q :
          /\ ready[q[y]] = Nothing
          /\ \E j \in DOMAIN batch.requests : j < n /\ batch.requests[j] = q[y]
    BY <2>5, <2>6, Zenon
  <2>8. BatchSound /\ buildLock # Nothing
    BY <1>1 DEF Inv, Sized
  <2> QED BY <2>4, <2>7, <2>8, <1>1, <1>2, <1>8, <1>10, <1>11, <1>13, <1>15 DEF BatchSound
<1>20. IndexSound'
  BY <1>2, <1>16, IndexKept, Zenon
<1>21. CallSound(t)'
  BY <1>1, <1>2, <1>10, <1>11, <1>13, <1>15, <1>16 DEF CallSound, Locking
<1>22. ASSUME NEW u \in Threads PROVE CallSound(u)'
  BY <1>1, <1>2, <1>15, <1>16, <1>21, OtherSound, Zenon
<1> QED BY <1>17, <1>18, <1>19, <1>20, <1>22 DEF Inv

\* The batch ends: what it could not build returns to the queue.
LEMMA FinishBatchInv ==
  ASSUME Sized, Inv, NEW t \in Threads, FinishBatch(t)
  PROVE  Inv'
<1> DEFINE a == call[t].artifact
<1>1. /\ call[t].at = "batch" /\ buildLock = t /\ batch.at > Len(batch.requests)
      /\ waiting' = batch.unbuilt \o waiting /\ active' = {} /\ buildLock' = Nothing /\ batch' = NoBatch
      /\ UNCHANGED <<device, ready, indexOf, keysLock, loads>>
  BY Zenon DEF FinishBatch, Requeued
<1>2. call[t].at \in Locking /\ call[t].at \notin Missing
  BY <1>1 DEF Locking, Missing
<1>3. /\ a \in Kept /\ a \in Artifacts /\ call[t].on \in Devices /\ keysLock # t
      /\ ready[a] # Nothing \/ a \in active
      /\ ~call[t].failure => batch.unbuilt = <<>>
  BY <1>1, <1>2, Zenon DEF Inv, CallSound
<1>4. /\ batch.at \in Nat \ {0} /\ batch.requests \in Seq(Artifacts) /\ batch.unbuilt \in Seq(Artifacts)
      /\ waiting \in Seq(Artifacts) /\ call \in [Threads -> Calls] /\ call[t] \in Calls
  BY DEF Inv, Typed, Batches
<1>5. /\ Distinct(waiting) /\ Distinct(batch.unbuilt) /\ active = Range(batch.requests)
  BY Zenon DEF Inv, WaitingSound, BatchSound
<1>6. \A x \in Range(batch.unbuilt) : ready[x] = Nothing /\ x \in active
  <2>1. \A y \in DOMAIN batch.unbuilt : batch.unbuilt[y] \in active
    BY DEF Inv, BatchSound, Range
  <2>2. \A y \in DOMAIN batch.unbuilt : ready[batch.unbuilt[y]] = Nothing
    BY Zenon DEF Inv, BatchSound
  <2> QED BY <2>1, <2>2 DEF Range
<1>7. \A x \in Range(waiting) : ready[x] = Nothing /\ x \notin active
  BY DEF Inv, WaitingSound, Range
<1>8. \A x \in active : ready[x] # Nothing \/ x \in Range(batch.unbuilt)
  <2> SUFFICES ASSUME NEW x \in active PROVE ready[x] # Nothing \/ x \in Range(batch.unbuilt)
    BY Zenon
  <2>1. PICK j \in DOMAIN batch.requests : batch.requests[j] = x
    BY <1>5 DEF Range
  <2>2. ~(j >= batch.at)
    BY <1>1, <1>4
  <2> QED BY <2>1, <2>2, Zenon DEF Inv, BatchSound
<1>9. /\ waiting' \in Seq(Artifacts) /\ Distinct(waiting')
      /\ Range(waiting') = Range(batch.unbuilt) \union Range(waiting)
  BY <1>1, <1>4, <1>5, <1>6, <1>7, Joined, Zenon
<1>10. Kept \subseteq Kept'
  <2>1. active \subseteq Artifacts
    BY DEF Inv, Typed
  <2> QED BY <2>1, <1>1, <1>8, <1>9 DEF Kept
<1>11. Grown
  BY <1>1, <1>10 DEF Grown
<1>12. PICK r : r = [call[t] EXCEPT !.at = "look"]
  BY Zenon
<1>13. /\ r \in Calls /\ r.at = "look" /\ r.artifact = a /\ r.on = call[t].on
       /\ r.failure = call[t].failure
  <2>1. "look" \in Stages
    BY Fresh
  <2> QED BY <2>1, <1>4, <1>12, Zenon DEF Calls
<1>14. call' = [call EXCEPT ![t] = r]
  BY <1>12, Zenon DEF FinishBatch, Goto
<1>15. /\ call' \in [Threads -> Calls] /\ call'[t] = r
       /\ \A u \in Threads : u # t => call'[u] = call[u]
  BY <1>4, <1>13, <1>14
<1> HIDE DEF a, Kept
<1>16. Typed'
  <2>1. {} \in SUBSET Artifacts
    OBVIOUS
  <2> QED BY <2>1, <1>1, <1>9, <1>15, EmptyBatch, Zenon DEF Inv, Typed
<1>17. ReadySound'
  <2>1. \A x \in Artifacts : loads[x] # 0 => ready[x] # Nothing
    BY Zenon, <1>1 DEF Inv, ReadySound
  <2> QED BY <2>1, <1>1, Zenon DEF Inv, ReadySound
<1>18. WaitingSound'
  <2>1. \A y \in DOMAIN waiting' : waiting'[y] \in Range(waiting')
    BY DEF Range
  <2>2. \A x \in Range(waiting') : ready[x] = Nothing
    BY <1>6, <1>7, <1>9
  <2> QED BY <2>1, <2>2, <1>1, <1>9 DEF WaitingSound
<1>19. BatchSound'
  <2>1. /\ NoBatch.requests = <<>> /\ NoBatch.slots = <<>> /\ NoBatch.unbuilt = <<>>
        /\ \A w \in Workers : NoBatch.doing[w] = 0
    BY DEF NoBatch
  <2>2. Range(<<>>) = {} /\ DOMAIN <<>> = {} /\ Len(<<>>) = 0 /\ Distinct(<<>>)
    BY DEF Range, Distinct
  <2> QED BY <2>1, <2>2, <1>1 DEF BatchSound
<1>20. IndexSound'
  BY <1>1, <1>11, IndexKept, Zenon
<1>21. CallSound(t)'
  <2>1. a \in Kept' /\ t # Nothing
    BY <1>3, <1>10 DEF Sized
  <2>2. ~call[t].failure => ready[a] # Nothing
    <3>1. Range(<<>>) = {}
      BY DEF Range
    <3> QED BY <3>1, <1>3, <1>8
  <2> QED BY <2>1, <2>2, <1>1, <1>3, <1>13, <1>15 DEF CallSound, Locking
<1>22. ASSUME NEW u \in Threads PROVE CallSound(u)'
  <2>1. u # Nothing
    BY DEF Sized
  <2> QED BY <2>1, <1>1, <1>11, <1>15, <1>21, OtherSound, Zenon
<1> QED BY <1>16, <1>17, <1>18, <1>19, <1>20, <1>22 DEF Inv

-----------------------------------------------------------------------------
LEMMA StutterInv ==
  ASSUME Inv, UNCHANGED vars
  PROVE  Inv'
<1>1. Typed' /\ ReadySound' /\ WaitingSound' /\ BatchSound' /\ IndexSound'
  BY Zenon DEF vars, Inv, Typed, ReadySound, WaitingSound, BatchSound, IndexSound, Kept
<1>2. ASSUME NEW t \in Threads PROVE CallSound(t)'
  BY Zenon DEF vars, Inv, CallSound, Kept
<1> QED BY <1>1, <1>2 DEF Inv

LEMMA NextInv ==
  ASSUME Sized, Inv, [Next]_vars
  PROVE  Inv'
<1>1. ASSUME NEW t \in Threads, Step(t) PROVE Inv'
  <2>1. CASE Build(t)
    BY <2>1, BuildInv, BuildNothingInv, Zenon
  <2>2. CASE \E succeeds \in BOOLEAN : Load(t, succeeds)
    BY <2>2, LoadedInv, UnbuiltInv, Zenon
  <2>3. CASE GetLock(t)
    BY <2>3, GetFoundInv, GetLockInv, Zenon
  <2> QED BY <1>1, <2>1, <2>2, <2>3, FinishBatchInv, LookInv, GetLoadInv, GetFailsInv, GetPublishInv, Zenon
       DEF Step
<1>2. ASSUME NEW t \in Threads, Call(t) PROVE Inv'
  BY <1>2, RequestInv, GetInv, ResolveInv, KeyedRequestInv, KeyedGetInv, Zenon DEF Call
<1>3. ASSUME NEW w \in Workers, Work(w) PROVE Inv'
  BY <1>3, DrawInv, CompiledInv, Zenon DEF Work
<1> QED BY <1>1, <1>2, <1>3, StutterInv, Zenon DEF Next

\* Every step of a call and of a worker keeps the invariant that ties the queue, the
\* batch, the loaded kernels and the calls in progress together.
THEOREM KernelsSound == ASSUME Sized PROVE Spec => []Inv
<1>1. Init => Inv
  BY InvInit
<1>2. Inv /\ [Next]_vars => Inv'
  BY NextInv
<1> QED BY <1>1, <1>2, PTL DEF Spec

\* "Share the batch publication lock so direct requests cannot load a second
\* executable": whatever direct loads, keyed loads and batches race, an artifact is
\* loaded at most once, and the kernel under a key was built from that key's request
\* on the cache's device, in whatever order the workers finish.
THEOREM LoadsOnce == ASSUME Sized PROVE Spec => []LoadedOnce
<1>1. Inv => LoadedOnce
  <2> SUFFICES ASSUME Inv, NEW a \in Artifacts
               PROVE  loads[a] <= 1 /\ (ready[a] # Nothing => ready[a].of = a /\ ready[a].on = device)
    BY DEF LoadedOnce
  <2>1. loads[a] \in {0, 1}
    BY Zenon DEF Inv, Typed
  <2>2. ready[a] # Nothing => ready[a] = [of |-> a, on |-> device]
    BY Zenon DEF Inv, ReadySound
  <2>3. loads[a] <= 1
    BY <2>1
  <2>4. [of |-> a, on |-> device].of = a /\ [of |-> a, on |-> device].on = device
    OBVIOUS
  <2> QED BY <2>2, <2>3, <2>4, Zenon
<1> QED BY <1>1, KernelsSound, PTL

\* A failed batch "would leave the handles that asked for it waiting on nothing" if it
\* dropped its requests: the artifact of every handle and of every indexed caller key
\* stays loaded, being built or queued, and no resolve ends in "never requested".
THEOREM WantsKept == ASSUME Sized PROVE Spec => []WantedKept
<1>1. Inv => WantedKept
  <2> SUFFICES ASSUME Inv PROVE WantedKept
    BY Zenon
  <2>1. ASSUME NEW t \in Threads
        PROVE  /\ call[t].at \in {"build", "look"} \/ call[t].pending => call[t].artifact \in Kept
               /\ call[t].at # "never"
    <3>1. call[t].at \in {"build", "look"} => call[t].at \in {"build", "look", "batch"}
      OBVIOUS
    <3>2. call[t].at \in {"build", "look"} \/ call[t].pending => call[t].artifact \in Kept
      BY <3>1, Zenon DEF Inv, CallSound
    <3>3. call[t].at \in Stages
      BY DEF Inv, Typed, Calls
    <3> QED BY <3>2, <3>3 DEF Stages, Locking
  <2>2. \A c \in CallerKeys : indexOf[c] # Nothing => indexOf[c] \in Kept
    BY Zenon DEF Inv, IndexSound
  <2> QED BY <2>1, <2>2, Zenon DEF WantedKept, Kept
<1> QED BY <1>1, KernelsSound, PTL
=============================================================================
