---------------------------- MODULE ServiceProofs ----------------------------
(***************************************************************************)
(* Proofs about the small services, for every value of their constants.    *)
(* PlanCache: a plan in use stays cached, the cache stays within its       *)
(* bounds, and it implements SingleFlight.  JobPool: a cancellation that   *)
(* was promised is honoured, and the permits are exactly the live jobs.    *)
(* ResidentSession: both participants run together, and storage is         *)
(* released only when both are quiet.                                      *)
(***************************************************************************)
EXTENDS PlanCache, Sequences, TLAPS

Shared == INSTANCE SingleFlight WITH
  Loads <- Flights, cache <- entries, ready <- Ready, using <- Using

Typed ==
  /\ calls \in 0 .. MaxGets
  /\ entries \in [Keys -> 0 .. MaxGets]
  /\ result \in [Flights -> {"none", "ok", "failed"}]
  /\ at \in [Callers -> {"idle", "joined", "preparing", "holding"}]
  /\ key \in [Callers -> Keys \union {0}]
  /\ flight \in [Callers -> 0 .. MaxGets]
  /\ busy \subseteq Flights

\* A caller outside a call refers to nothing, one inside to a call already made.
Placed ==
  \A c \in Callers :
    IF at[c] = "idle" THEN key[c] = 0 /\ flight[c] = 0
    ELSE key[c] \in Keys /\ flight[c] \in 1 .. calls

\* Flights that no call has opened yet are unpublished and in no entry, a failed
\* one is in no entry, and no flight is in two.
Fresh ==
  /\ \A f \in Flights : f > calls => result[f] = "none"
  /\ \A k \in Keys : entries[k] <= calls /\ (entries[k] # 0 => result[entries[k]] # "failed")
  /\ \A j, k \in Keys : entries[j] = entries[k] /\ entries[k] # 0 => j = k

\* A flight has one loader, and its outcome is open until that loader ends.
Loading ==
  /\ \A c \in Callers : at[c] = "preparing" => result[flight[c]] = "none"
  /\ \A c, d \in Callers : at[c] = "preparing" /\ at[d] = "preparing" /\ flight[c] = flight[d]
                             => c = d
  /\ \A c \in Callers : at[c] = "holding" => result[flight[c]] = "ok"
  /\ \A f \in busy : result[f] = "ok"

\* A flight or value that some caller refers to has not left the cache, unless
\* it failed.
Cached ==
  \A c \in Callers : at[c] # "idle" /\ result[flight[c]] # "failed" => entries[key[c]] = flight[c]

Inv == Typed /\ Placed /\ Fresh /\ Loading /\ Cached /\ HeldCached

\* The constants: 0 stands for no key and the calls are bounded.
Sized == 0 \notin Keys /\ MaxGets \in Nat
-----------------------------------------------------------------------------
LEMMA InvInit == Sized /\ Init => Inv
  BY DEF Sized, Init, Inv, Typed, Placed, Fresh, Loading, Cached, HeldCached, Flights

LEMMA HitInv ==
  ASSUME Sized, Inv, NEW c \in Callers, NEW k \in Keys, Hit(c, k)
  PROVE  Inv'
<1> USE DEF Sized, Inv, Typed, Flights
<1>1. /\ calls < MaxGets /\ calls' = calls + 1 /\ at[c] = "idle" /\ entries[k] # 0
      /\ key' = [key EXCEPT ![c] = k] /\ flight' = [flight EXCEPT ![c] = entries[k]]
      /\ UNCHANGED <<entries, result, busy>>
  BY DEF Hit, Tick, Enter
<1>2. PICK where \in {"joined", "holding"} :
        /\ at' = [at EXCEPT ![c] = where]
        /\ where = "holding" => result[entries[k]] = "ok"
  BY DEF Hit, Enter
<1>3. Typed'
  BY <1>1, <1>2
<1>4. Placed'
  BY <1>1, <1>2 DEF Placed, Fresh
<1>5. Fresh'
  BY <1>1 DEF Fresh
<1>6. Loading'
  BY <1>1, <1>2 DEF Loading
<1>7. Cached'
  BY <1>1, <1>2 DEF Cached
<1>8. HeldCached'
  BY <1>1, <1>2 DEF HeldCached
<1> QED
  BY <1>3, <1>4, <1>5, <1>6, <1>7, <1>8

\* The key that leaves held a value nobody refers to, so every reference survives.
LEMMA ElectInv ==
  ASSUME Sized, Inv, NEW c \in Callers, NEW k \in Keys, Elect(c, k)
  PROVE  Inv'
<1> USE DEF Sized, Inv, Typed, Flights
<1>1. PICK v \in Victims :
        entries' = [j \in Keys |-> IF j = k THEN calls' ELSE IF j = v THEN 0 ELSE entries[j]]
  BY DEF Elect
<1>2. v = 0 \/ (v \in Keys /\ Evictable(entries[v]))
  BY <1>1 DEF Victims
<1>3. /\ calls < MaxGets /\ calls' = calls + 1 /\ at[c] = "idle" /\ entries[k] = 0
      /\ at' = [at EXCEPT ![c] = "preparing"] /\ key' = [key EXCEPT ![c] = k]
      /\ flight' = [flight EXCEPT ![c] = calls'] /\ UNCHANGED <<result, busy>>
  BY DEF Elect, Tick, Enter
<1>4. Typed'
  BY <1>1, <1>3
<1>5. Placed'
  BY <1>3 DEF Placed
<1>6. Fresh'
  BY <1>1, <1>3 DEF Fresh
<1>7. Loading'
  BY <1>3 DEF Loading, Fresh, Placed
<1>8. Cached'
  <2> SUFFICES ASSUME NEW d \in Callers, at'[d] # "idle", result'[flight'[d]] # "failed"
               PROVE  entries'[key'[d]] = flight'[d]
    BY DEF Cached
  <2>1. CASE d = c
    BY <2>1, <1>1, <1>3
  <2>2. CASE d # c
    <3>1. /\ key'[d] = key[d] /\ flight'[d] = flight[d] /\ entries[key[d]] = flight[d]
          /\ key[d] \in Keys /\ flight[d] # 0
      BY <2>2, <1>3 DEF Cached, Placed
    <3>2. key[d] # k /\ key[d] # v
      BY <3>1, <1>2, <1>3 DEF Evictable
    <3> QED
      BY <3>1, <3>2, <1>1
  <2> QED
    BY <2>1, <2>2
<1>9. ASSUME NEW f \in busy'
      PROVE  \E j \in Keys : entries'[j] = f
  <2>1. PICK j \in Keys : entries[j] = f
    BY <1>9, <1>3 DEF HeldCached
  <2>2. j # k /\ j # v
    BY <2>1, <1>9, <1>2, <1>3 DEF Evictable
  <2> QED
    BY <2>1, <2>2, <1>1
<1>10. HeldCached'
  BY Zenon, <1>4, <1>7, <1>8, <1>9 DEF HeldCached, Cached, Loading
<1> QED
  BY <1>4, <1>5, <1>6, <1>7, <1>8, <1>10

\* The loader is the only one of its flight, and nobody holds an open flight.
LEMMA PublishInv ==
  ASSUME Sized, Inv, NEW c \in Callers, NEW ok \in BOOLEAN, Publish(c, ok)
  PROVE  Inv'
<1> USE DEF Sized, Inv, Typed, Flights
<1>1. /\ at[c] = "preparing" /\ key[c] \in Keys /\ flight[c] \in 1 .. calls
      /\ flight[c] \in Flights /\ result[flight[c]] = "none" /\ entries[key[c]] = flight[c]
  BY DEF Publish, Placed, Loading, HeldCached
<1>2. UNCHANGED <<busy, calls>>
  BY DEF Publish
<1>3. CASE ok
  <2>1. /\ result' = [result EXCEPT ![flight[c]] = "ok"] /\ UNCHANGED entries
        /\ at' = [at EXCEPT ![c] = "holding"] /\ key' = key /\ flight' = flight
    BY Zenon, <1>3 DEF Publish, Enter
  <2>2. Typed' /\ Placed'
    BY <2>1, <1>1, <1>2 DEF Placed
  <2>3. Fresh'
    BY <2>1, <1>1, <1>2 DEF Fresh
  <2>4. Loading'
    BY <2>1, <1>1, <1>2 DEF Loading, Placed
  <2>5. Cached' /\ HeldCached'
    BY <2>1, <1>1, <1>2 DEF Cached, HeldCached
  <2> QED
    BY <2>2, <2>3, <2>4, <2>5
<1>4. CASE ~ok
  <2>1. /\ result' = [result EXCEPT ![flight[c]] = "failed"]
        /\ entries' = [entries EXCEPT ![key[c]] = 0]
        /\ at' = [at EXCEPT ![c] = "idle"] /\ key' = [key EXCEPT ![c] = 0]
        /\ flight' = [flight EXCEPT ![c] = 0]
    BY <1>4 DEF Publish, Enter
  <2>2. Typed' /\ Placed'
    BY <2>1, <1>1, <1>2 DEF Placed
  <2>3. Fresh'
    BY <2>1, <1>1, <1>2 DEF Fresh
  <2>4. Loading'
    BY <2>1, <1>1, <1>2 DEF Loading, Placed
  <2>5. Cached' /\ HeldCached'
    BY <2>1, <1>1, <1>2 DEF Cached, HeldCached, Loading, Placed
  <2> QED
    BY <2>2, <2>3, <2>4, <2>5
<1> QED
  BY <1>3, <1>4

LEMMA StepInv == Sized /\ Inv /\ [Next]_vars => Inv'
<1> SUFFICES ASSUME Sized, Inv, [Next]_vars PROVE Inv'
  OBVIOUS
<1>1. ASSUME NEW c \in Callers, NEW k \in Keys, Busy(c, k) PROVE Inv'
  BY <1>1 DEF Sized, Inv, Typed, Placed, Fresh, Loading, Cached, HeldCached, Flights, Busy, Tick
<1>2. ASSUME NEW c \in Callers, Joined(c) PROVE Inv'
  <2> USE DEF Sized, Inv, Typed, Flights
  <2>1. at[c] = "joined" /\ UNCHANGED <<entries, result, busy, calls>>
    BY <1>2 DEF Joined
  <2>2. CASE result[flight[c]] = "ok"
    <3>1. at' = [at EXCEPT ![c] = "holding"] /\ key' = key /\ flight' = flight
      BY Zenon, <1>2, <2>2 DEF Joined, Enter
    <3>2. HeldCached'
      BY <3>1, <2>1, <2>2 DEF HeldCached, Cached
    <3> QED
      BY <3>1, <3>2, <2>1, <2>2 DEF Placed, Fresh, Loading, Cached
  <2>3. CASE result[flight[c]] # "ok"
    <3>1. /\ at' = [at EXCEPT ![c] = "idle"] /\ key' = [key EXCEPT ![c] = 0]
          /\ flight' = [flight EXCEPT ![c] = 0]
      BY <1>2, <2>3 DEF Joined, Enter
    <3> QED
      BY <3>1, <2>1 DEF Placed, Fresh, Loading, Cached, HeldCached
  <2> QED
    BY <2>2, <2>3
<1>3. ASSUME NEW c \in Callers, NEW active \in BOOLEAN, Drop(c, active) PROVE Inv'
  <2> USE DEF Sized, Inv, Typed, Flights
  <2>1. /\ at[c] = "holding" /\ UNCHANGED <<entries, result, calls>>
        /\ busy \subseteq busy' /\ busy' \subseteq busy \union {flight[c]}
        /\ at' = [at EXCEPT ![c] = "idle"] /\ key' = [key EXCEPT ![c] = 0]
        /\ flight' = [flight EXCEPT ![c] = 0]
    BY <1>3 DEF Drop, Enter
  <2>2. /\ key[c] \in Keys /\ flight[c] \in Flights
        /\ result[flight[c]] = "ok" /\ entries[key[c]] = flight[c]
    BY <2>1 DEF Placed, Loading, HeldCached
  <2>3. Typed' /\ Placed' /\ Fresh'
    BY <2>1, <2>2 DEF Placed, Fresh
  <2>4. Loading' /\ Cached'
    BY <2>1, <2>2 DEF Loading, Cached
  <2>5. HeldCached'
    BY <2>1, <2>2 DEF HeldCached
  <2> QED
    BY <2>3, <2>4, <2>5
<1>4. ASSUME NEW f \in Flights, Drained(f) PROVE Inv'
  BY <1>4 DEF Sized, Inv, Typed, Placed, Fresh, Loading, Cached, HeldCached, Flights, Drained
<1>5. CASE UNCHANGED vars
  BY <1>5 DEF Inv, Typed, Placed, Fresh, Loading, Cached, HeldCached, vars
<1> QED
  BY <1>1, <1>2, <1>3, <1>4, <1>5, HitInv, ElectInv, PublishInv DEF Next
-----------------------------------------------------------------------------
(* The refinement: every step is a step of SingleFlight or a stutter.       *)

LEMMA InitRefines == Sized /\ Init => Shared!Init
  BY DEF Sized, Init, Flights, Shared!Init, Shared!Unused, Ready, Using

LEMMA HitRefines ==
  ASSUME Sized, Inv, NEW c \in Callers, NEW k \in Keys, Hit(c, k)
  PROVE  Shared!Join(c, k)
<1> USE DEF Sized, Inv, Typed, Flights
<1>1. at[c] = "idle" /\ entries[k] # 0 /\ UNCHANGED <<entries, result>>
  BY DEF Hit
<1>2. key' = [key EXCEPT ![c] = k] /\ flight' = [flight EXCEPT ![c] = entries[k]]
  BY DEF Hit, Enter
<1>3. Using[c] = Shared!Unused
  BY <1>1 DEF Using, Shared!Unused, Placed
<1>4. Using' = [Using EXCEPT ![c] = [key |-> k, load |-> entries[k]]]
  BY Zenon, <1>2 DEF Using
<1> QED
  BY <1>1, <1>3, <1>4 DEF Shared!Join, Ready

LEMMA ElectRefines ==
  ASSUME Sized, Inv, NEW c \in Callers, NEW k \in Keys, Elect(c, k)
  PROVE  \E l \in Flights : Shared!Prepare(c, k, l)
<1> USE DEF Sized, Inv, Typed, Flights
<1>1. PICK v \in Victims :
        entries' = [j \in Keys |-> IF j = k THEN calls' ELSE IF j = v THEN 0 ELSE entries[j]]
  BY DEF Elect
<1>2. v = 0 \/ (v \in Keys /\ Evictable(entries[v]))
  BY <1>1 DEF Victims
<1>3. /\ calls < MaxGets /\ calls' = calls + 1 /\ at[c] = "idle" /\ entries[k] = 0
      /\ key' = [key EXCEPT ![c] = k]
      /\ flight' = [flight EXCEPT ![c] = calls'] /\ UNCHANGED result
  BY DEF Elect, Tick, Enter
<1>4. calls' \in Flights /\ calls' \notin Ready
  BY <1>3 DEF Ready, Fresh
<1>5. \A d \in Callers : Using[d].load # calls'
  BY <1>3 DEF Using, Placed
<1>6. Using[c] = Shared!Unused
  BY <1>3 DEF Using, Shared!Unused, Placed
<1>7. Using' = [Using EXCEPT ![c] = [key |-> k, load |-> calls']]
  BY Zenon, <1>3 DEF Using
<1>8. PICK K \in SUBSET Keys : K = {j \in Keys : j = v}
  BY Zenon
<1>9. K \in Shared!Unneeded
  BY <1>2, <1>8 DEF Shared!Unneeded, Evictable, Ready, Using
<1>10. entries' = [Shared!Without(K) EXCEPT ![k] = calls']
  BY Zenon, <1>1, <1>8 DEF Shared!Without
<1>11. Shared!Prepare(c, k, calls')
  BY Zenon, <1>3, <1>4, <1>5, <1>6, <1>7, <1>9, <1>10 DEF Shared!Prepare, Ready
<1> QED
  BY <1>4, <1>11

LEMMA PublishRefines ==
  ASSUME Sized, Inv, NEW c \in Callers, NEW ok \in BOOLEAN, Publish(c, ok)
  PROVE  (\E k \in Keys : Shared!Succeed(k)) \/ Shared!Fail(c)
<1> USE DEF Sized, Inv, Typed, Flights
<1>1. /\ key[c] \in Keys /\ flight[c] \in Flights /\ flight[c] # 0
      /\ result[flight[c]] = "none" /\ entries[key[c]] = flight[c]
  BY DEF Publish, Placed, Loading, HeldCached
<1>2. CASE ok
  <2>1. /\ result' = [result EXCEPT ![flight[c]] = "ok"] /\ UNCHANGED entries
        /\ key' = key /\ flight' = flight
    BY Zenon, <1>2 DEF Publish, Enter
  <2>2. Ready' = Ready \union {entries[key[c]]} /\ entries[key[c]] \notin Ready
    BY <2>1, <1>1 DEF Ready
  <2>3. Using' = Using
    BY <2>1 DEF Using
  <2>4. Shared!Succeed(key[c])
    BY <2>1, <2>2, <2>3, <1>1 DEF Shared!Succeed
  <2> QED
    BY <2>4, <1>1
<1>3. CASE ~ok
  <2>1. /\ result' = [result EXCEPT ![flight[c]] = "failed"]
        /\ entries' = [entries EXCEPT ![key[c]] = 0]
        /\ key' = [key EXCEPT ![c] = 0] /\ flight' = [flight EXCEPT ![c] = 0]
    BY <1>3 DEF Publish, Enter
  <2>2. Ready' = Ready /\ flight[c] \notin Ready
    BY <2>1, <1>1 DEF Ready
  <2>3. Using[c].key = key[c] /\ Using[c].load = flight[c] /\ Using[c] # Shared!Unused
    BY <1>1 DEF Using, Shared!Unused
  <2>4. Using' = [Using EXCEPT ![c] = Shared!Unused]
    BY Zenon, <2>1 DEF Using, Shared!Unused
  <2> QED
    BY <2>1, <2>2, <2>3, <2>4, <1>1 DEF Shared!Fail
<1> QED
  BY <1>2, <1>3

\* A caller that goes lets go of a value, or learns of a failure that has left
\* the cache.
LEMMA LeaveRefines ==
  ASSUME Sized, Inv, NEW c \in Callers, at[c] # "idle",
         flight[c] \in Ready \/ result[flight[c]] = "failed",
         Enter(c, 0, "idle", 0), UNCHANGED <<entries, result>>
  PROVE  Using[c] # Shared!Unused /\ Shared!Put(c)
<1> USE DEF Sized, Inv, Typed, Flights
<1>1. key[c] \in Keys /\ flight[c] \in 1 .. calls
  BY DEF Placed
<1>2. Using[c].key = key[c] /\ Using[c].load = flight[c] /\ Using[c] # Shared!Unused
  BY <1>1 DEF Using, Shared!Unused
<1>3. flight[c] \in Ready \/ entries[key[c]] # flight[c]
  BY <1>1 DEF Fresh
<1>4. Using' = [Using EXCEPT ![c] = Shared!Unused]
  BY Zenon DEF Enter, Using, Shared!Unused
<1> QED
  BY <1>2, <1>3, <1>4 DEF Shared!Put, Ready

LEMMA StepRefines == Sized /\ Inv /\ [Next]_vars => [Shared!Next]_(Shared!vars)
<1> SUFFICES ASSUME Sized, Inv, [Next]_vars PROVE [Shared!Next]_(Shared!vars)
  OBVIOUS
<1>1. ASSUME NEW c \in Callers, NEW k \in Keys, Hit(c, k) PROVE Shared!Next
  BY <1>1, HitRefines DEF Shared!Next
<1>2. ASSUME NEW c \in Callers, NEW k \in Keys, Elect(c, k) PROVE Shared!Next
  BY <1>2, ElectRefines DEF Shared!Next
<1>3. ASSUME NEW c \in Callers, NEW k \in Keys, Busy(c, k) PROVE UNCHANGED Shared!vars
  BY <1>3 DEF Busy, Shared!vars, Ready, Using
<1>4. ASSUME NEW c \in Callers, NEW ok \in BOOLEAN, Publish(c, ok) PROVE Shared!Next
  BY <1>4, PublishRefines DEF Shared!Next
<1>5. ASSUME NEW c \in Callers, NEW active \in BOOLEAN, Drop(c, active) PROVE Shared!Next
  <2>1. /\ at[c] # "idle" /\ flight[c] \in Ready
        /\ Enter(c, 0, "idle", 0) /\ UNCHANGED <<entries, result>>
    BY <1>5 DEF Drop, Sized, Inv, Typed, Placed, Loading, Flights, Ready
  <2> QED
    BY <2>1, LeaveRefines DEF Shared!Next
<1>6. ASSUME NEW c \in Callers, Joined(c) PROVE Shared!Next \/ UNCHANGED Shared!vars
  <2>1. at[c] = "joined" /\ flight[c] \in Flights /\ UNCHANGED <<entries, result>>
    BY <1>6 DEF Joined, Sized, Inv, Typed, Placed, Flights
  <2>2. CASE result[flight[c]] = "ok"
    <3>1. key' = key /\ flight' = flight
      BY Zenon, <1>6, <2>2 DEF Joined, Enter, Inv, Typed
    <3> QED
      BY <3>1, <2>1 DEF Shared!vars, Ready, Using
  <2>3. CASE result[flight[c]] = "failed"
    <3>1. at[c] # "idle" /\ Enter(c, 0, "idle", 0)
      BY <1>6, <2>1, <2>3 DEF Joined
    <3> QED
      BY <3>1, <2>1, <2>3, LeaveRefines DEF Shared!Next
  <2> QED
    BY <2>1, <2>2, <2>3, <1>6 DEF Joined, Inv, Typed
<1>7. ASSUME NEW f \in Flights, Drained(f) PROVE UNCHANGED Shared!vars
  BY <1>7 DEF Drained, Shared!vars, Ready, Using
<1>8. CASE UNCHANGED vars
  BY <1>8 DEF vars, Shared!vars, Ready, Using
<1> QED
  BY <1>1, <1>2, <1>3, <1>4, <1>5, <1>6, <1>7, <1>8 DEF Next

-----------------------------------------------------------------------------
\* A plan that a caller prepares or holds, or that work keeps busy, stays the
\* cached plan of its key, whatever is evicted meanwhile (plan_cache.rs,
\* get_or_prepare and evict_one).
THEOREM PlansHeld ==
  ASSUME Sized
  PROVE  Spec => []HeldCached
<1>1. Sized /\ Init => Inv
  BY InvInit
<1>2. Sized /\ Inv /\ [Next]_vars => Inv'
  BY StepInv
<1>3. Inv => HeldCached
  BY DEF Inv
<1> QED
  BY <1>1, <1>2, <1>3, PTL DEF Spec

\* The plan cache implements SingleFlight: one preparation per key, shared by
\* all who ask meanwhile, nothing left by a failure, nothing in use evicted
\* (plan_cache.rs, get_or_prepare).
THEOREM PlansSingleFlight ==
  ASSUME Sized
  PROVE  Spec => Shared!Spec
<1>1. Sized /\ Init => Inv /\ Shared!Init
  BY InvInit, InitRefines
<1>2. Sized /\ Inv /\ [Next]_vars => Inv'
  BY StepInv
<1>3. Sized /\ Inv /\ [Next]_vars => [Shared!Next]_(Shared!vars)
  BY StepRefines
<1> QED
  BY <1>1, <1>2, <1>3, PTL DEF Spec, Shared!Spec
-----------------------------------------------------------------------------
(* The statistics of the cache. *)

Failed == {f \in Flights : result[f] = "failed"}
Counted == misses \in Nat /\ evictions \in Nat /\ Bounded

INSTANCE FiniteSetTheorems

LEMMA CountsTyped ==
  ASSUME Sized, IsFiniteSet(Keys)
  PROVE  /\ IsFiniteSet(Present) /\ IsFiniteSet(Failed)
         /\ Cardinality(Present) \in Nat /\ Cardinality(Failed) \in Nat
<1>1. IsFiniteSet(Flights)
  BY FS_Interval DEF Flights, Sized
<1>2. Present \subseteq Keys /\ Failed \subseteq Flights
  BY DEF Present, Failed
<1> QED
  BY <1>1, <1>2, FS_Subset, FS_CardinalityType

LEMMA CountsKept ==
  ASSUME Counted, UNCHANGED <<misses, evictions>>, Present' = Present, Failed' = Failed
  PROVE  Counted'
  BY DEF Counted, Bounded, Failed

LEMMA ElectCounts ==
  ASSUME Sized, IsFiniteSet(Keys), Capacity \in Nat, Inv, Counted,
         NEW c \in Callers, NEW k \in Keys, Elect(c, k)
  PROVE  Counted'
<1>1. PICK v \in Victims :
        /\ entries' = [j \in Keys |-> IF j = k THEN calls' ELSE IF j = v THEN 0 ELSE entries[j]]
        /\ evictions' = IF v = 0 THEN evictions ELSE evictions + 1
  BY DEF Elect
<1>2. /\ entries[k] = 0 /\ calls' = calls + 1 /\ misses' = misses + 1
      /\ calls \in Nat /\ calls' # 0
  BY DEF Elect, Tick, Inv, Typed, Sized
<1>3. Failed' = Failed
  BY DEF Elect, Failed
<1>4. IsFiniteSet(Present) /\ Cardinality(Present) \in Nat /\ Cardinality(Failed) \in Nat
  BY CountsTyped
<1>5. CASE v = 0
  <2>1. Cardinality(Present) # Capacity
    BY <1>5, <1>1 DEF Victims, Sized
  <2>2. Present' = Present \union {k} /\ k \notin Present
    BY <1>1, <1>2, <1>5 DEF Present, Sized, Inv, Typed
  <2>3. Cardinality(Present') = Cardinality(Present) + 1
    BY Zenon, <1>4, <2>2, FS_AddElement
  <2> QED
    BY <1>1, <1>2, <1>3, <1>4, <1>5, <2>1, <2>3 DEF Counted, Bounded, Failed
<1>6. CASE v # 0
  <2>1. Cardinality(Present) = Capacity /\ v \in Keys /\ entries[v] # 0
    BY <1>1, <1>6 DEF Victims, Evictable
  <2>2. /\ Present' = (Present \ {v}) \union {k}
        /\ v \in Present /\ k \notin Present \ {v}
    BY <1>1, <1>2, <1>6, <2>1 DEF Present, Inv, Typed
  <2> DEFINE rest == Present \ {v}
  <2>3. IsFiniteSet(rest) /\ Cardinality(rest) = Cardinality(Present) - 1
    BY <1>4, <2>2, FS_RemoveElement
  <2>4. Present' = rest \union {k} /\ k \notin rest
    BY <2>2
  <2> HIDE DEF rest
  <2>5. Cardinality(Present') = Cardinality(rest) + 1
    BY Zenon, <2>3, <2>4, FS_AddElement
  <2>6. Cardinality(Present') = Cardinality(Present)
    BY <1>4, <2>3, <2>5
  <2>7. evictions' = evictions + 1
    BY <1>1, <1>6
  <2>8. misses' = Cardinality(Present') + evictions' + Cardinality(Failed')
    <3>1. misses = Cardinality(Present) + evictions + Cardinality(Failed)
      BY DEF Counted, Bounded, Failed
    <3>2. misses \in Nat /\ evictions \in Nat
      BY DEF Counted
    <3> QED
      BY <1>2, <1>3, <1>4, <2>6, <2>7, <3>1, <3>2
  <2>9. misses' \in Nat /\ evictions' \in Nat /\ Cardinality(Present') <= Capacity
    BY <1>2, <2>6, <2>7 DEF Counted, Bounded
  <2> QED
    BY <2>8, <2>9 DEF Counted, Bounded, Failed
<1> QED
  BY <1>5, <1>6

LEMMA PublishCounts ==
  ASSUME Sized, IsFiniteSet(Keys), Capacity \in Nat, Inv, Counted,
         NEW c \in Callers, NEW ok \in BOOLEAN, Publish(c, ok)
  PROVE  Counted'
<1> DEFINE f == flight[c]
<1>1. /\ at[c] = "preparing" /\ key[c] \in Keys /\ f \in Flights
      /\ entries[key[c]] = f /\ f # 0 /\ result[f] = "none"
  BY DEF Publish, Inv, Typed, Placed, HeldCached, Loading, Flights, Sized
<1>2. /\ result' = [result EXCEPT ![f] = IF ok THEN "ok" ELSE "failed"]
      /\ UNCHANGED <<misses, evictions>>
      /\ IF ok THEN UNCHANGED entries ELSE entries' = [entries EXCEPT ![key[c]] = 0]
  BY DEF Publish, counters
<1> HIDE DEF f
<1>3. CASE ok
  <2>1. Present' = Present /\ Failed' = Failed
    BY <1>1, <1>2, <1>3 DEF Present, Failed, Inv, Typed
  <2> QED
    BY <1>2, <2>1, CountsKept
<1>4. CASE ~ok
  <2>1. /\ Present' = Present \ {key[c]} /\ key[c] \in Present
        /\ Failed' = Failed \union {f} /\ f \notin Failed
    BY <1>1, <1>2, <1>4 DEF Present, Failed, Inv, Typed
  <2>2. /\ IsFiniteSet(Present) /\ IsFiniteSet(Failed)
        /\ Cardinality(Present) \in Nat /\ Cardinality(Failed) \in Nat
    BY CountsTyped
  <2>3. Cardinality(Present') = Cardinality(Present) - 1
    BY Zenon, <2>1, <2>2, FS_RemoveElement
  <2>4. Cardinality(Failed') = Cardinality(Failed) + 1
    BY Zenon, <2>1, <2>2, FS_AddElement
  <2> QED
    BY <1>2, <2>2, <2>3, <2>4 DEF Counted, Bounded, Failed
<1> QED
  BY <1>3, <1>4

LEMMA StepCounts ==
  ASSUME Sized, IsFiniteSet(Keys), Capacity \in Nat, Inv, Counted, [Next]_vars
  PROVE  Counted'
<1>1. ASSUME UNCHANGED <<misses, evictions, entries, result>> PROVE Counted'
  <2>1. Present' = Present /\ Failed' = Failed
    BY <1>1 DEF Present, Failed
  <2> QED
    BY <1>1, <2>1, CountsKept
<1>2. ASSUME NEW c \in Callers, NEW k \in Keys, Hit(c, k) \/ Busy(c, k) PROVE Counted'
  BY <1>1, <1>2 DEF Hit, Busy, counters
<1>3. ASSUME NEW c \in Callers, NEW b \in BOOLEAN, Joined(c) \/ Drop(c, b) PROVE Counted'
  BY <1>1, <1>3 DEF Joined, Drop, counters
<1>4. ASSUME NEW f \in Flights, Drained(f) PROVE Counted'
  BY <1>1, <1>4 DEF Drained, counters
<1>5. CASE UNCHANGED vars
  BY <1>1, <1>5 DEF vars
<1> QED
  BY Zenon, <1>2, <1>3, <1>4, <1>5, ElectCounts, PublishCounts DEF Next

\* The cache never has more than `capacity' ready and loading entries, and its statistics
\* account for every one of them: a miss is an entry, an eviction or a failed preparation
\* (plan_cache.rs, get_or_prepare, PlanCacheStats).
THEOREM PlansBounded ==
  ASSUME Sized, IsFiniteSet(Keys), Capacity \in Nat
  PROVE  Spec => []Bounded
<1>1. Init => Inv /\ Counted
  <2>1. ASSUME Init PROVE Counted
    <3>1. Present = {} /\ Failed = {}
      BY <2>1 DEF Init, Present, Failed
    <3> QED
      BY <2>1, <3>1, FS_EmptySet DEF Init, Counted, Bounded, Failed
  <2> QED
    BY <2>1, InvInit
<1>2. Inv /\ Counted /\ [Next]_vars => Inv' /\ Counted'
  BY StepInv, StepCounts
<1>3. Counted => Bounded
  BY DEF Counted
<1> QED
  BY <1>1, <1>2, <1>3, PTL DEF Spec

-----------------------------------------------------------------------------
(* The worker pool.                                                        *)

CONSTANTS Jobs, Workers, None, Main
VARIABLES live, queue, open, stage, task, exited, cancelled, finished, promised, outcome, dropper

Pool == INSTANCE JobPool


\* The constants: finitely many jobs are submitted in the end.
PoolSized == IsFiniteSet(Jobs) /\ Capacity \in Nat

PoolTyped ==
  /\ live \in Nat /\ queue \in Seq(Jobs)
  /\ stage \in [Jobs -> {"new", "permit", "refused", "queued", "taken", "working", "ran",
                         "callback", "done"}]
  /\ task \in [Workers -> Jobs \union {None}]
  /\ outcome \in [Jobs -> {None, "ok", "error", "cancelled"}]
\* The channel holds every queued job once.
Queued ==
  /\ \A i \in 1 .. Len(queue) : stage[queue[i]] = "queued"
  /\ \A i, k \in 1 .. Len(queue) : queue[i] = queue[k] => i = k
\* A handle of a job whose callback has begun is finished, so cancel() on it is false.
Settled ==
  /\ promised \subseteq cancelled
  /\ \A j \in Jobs : stage[j] \in {"callback", "done"} => j \in finished
PoolInv == PoolTyped /\ Queued /\ Settled /\ Pool!CancelHonoured /\ Pool!LiveExact

\* The pool counts with the same cardinality as the library's facts.
LEMMA PoolCounts == \A S : Pool!Cardinality(S) = Cardinality(S)
  BY Zenon DEF Pool!Cardinality, Cardinality

LEMMA PoolInit == PoolSized /\ Pool!Init => PoolInv
<1> SUFFICES ASSUME PoolSized, Pool!Init PROVE PoolInv
  OBVIOUS
<1>1. Pool!Outstanding = {}
  BY DEF Pool!Init, Pool!Outstanding
<1>2. Pool!LiveExact
  BY PoolCounts, <1>1, FS_EmptySet DEF Pool!Init, Pool!LiveExact, PoolSized
<1> QED
  BY <1>2 DEF Pool!Init, PoolInv, PoolTyped, Queued, Settled, Pool!CancelHonoured

\* A job with a permit is not in the channel, so the channel has room for it.
LEMMA PermitFits ==
  ASSUME PoolSized, PoolInv, NEW j \in Jobs, stage[j] = "permit"
  PROVE  Len(queue) < Capacity
<1> DEFINE others == Pool!Outstanding \ {j}
<1>1. IsFiniteSet(Pool!Outstanding) /\ j \in Pool!Outstanding
  BY FS_Subset DEF PoolSized, Pool!Outstanding
<1>2. IsFiniteSet(others) /\ Cardinality(others) = live - 1
  BY PoolCounts, <1>1, FS_RemoveElement DEF PoolInv, Pool!LiveExact
<1>3. queue \in Injection(1 .. Len(queue), others)
  <2>1. \A i \in 1 .. Len(queue) : queue[i] \in others
    BY DEF PoolInv, PoolTyped, Queued, Pool!Outstanding
  <2>2. queue \in [1 .. Len(queue) -> others]
    BY <2>1 DEF PoolInv, PoolTyped
  <2> QED
    BY <2>2 DEF PoolInv, Queued, Injection, IsInjective
<1>4. Cardinality(1 .. Len(queue)) <= live - 1
  BY <1>2, <1>3, FS_Injection
<1>5. Len(queue) \in Nat
  BY DEF PoolInv, PoolTyped
<1>6. Cardinality(1 .. Len(queue)) = Len(queue)
  <2> DEFINE n == Len(queue)
  <2>1. n \in Int /\ 1 \in Int
    BY <1>5
  <2> HIDE DEF n
  <2>2. Cardinality(1 .. n) = IF 1 > n THEN 0 ELSE n - 1 + 1
    BY ONLY <2>1, FS_Interval, Zenon
  <2> QED
    BY <1>5, <2>2 DEF n
<1> QED
  BY <1>4, <1>5, <1>6 DEF PoolInv, PoolTyped, Pool!LiveExact, PoolSized

\* Steps that move one outstanding job to another stage before its end.
LEMMA MoveLive ==
  ASSUME PoolSized, PoolInv, NEW j \in Jobs, stage[j] \notin {"new", "refused", "done"},
         NEW to \in {"queued", "taken", "working", "ran", "callback"}, Pool!Move(j, to), UNCHANGED live
  PROVE  Pool!LiveExact'
<1>1. Pool!Outstanding' = Pool!Outstanding
  BY DEF PoolInv, PoolTyped, Pool!Move, Pool!Outstanding
<1> QED
  BY <1>1 DEF PoolInv, PoolTyped, Pool!LiveExact, Pool!Move

LEMMA SubmitInv ==
  ASSUME PoolSized, PoolInv, NEW j \in Jobs, Pool!Admit(j) \/ Pool!Send(j)
  PROVE  PoolInv'
<1>1. CASE Pool!Admit(j)
  <2>1. /\ stage[j] = "new" /\ live < Capacity /\ live' = live + 1
        /\ stage' = [stage EXCEPT ![j] = "permit"]
        /\ UNCHANGED <<queue, task, cancelled, finished, promised, outcome>>
    BY <1>1 DEF Pool!Admit, Pool!Room, Pool!Move
  <2>2. Pool!LiveExact'
    <3>1. IsFiniteSet(Pool!Outstanding) /\ j \notin Pool!Outstanding
      BY <2>1, FS_Subset DEF PoolSized, Pool!Outstanding
    <3>2. Pool!Outstanding' = Pool!Outstanding \union {j}
      BY <2>1 DEF PoolInv, PoolTyped, Pool!Outstanding
    <3>3. Cardinality(Pool!Outstanding') = live + 1
      BY PoolCounts, <3>1, <3>2, FS_AddElement DEF PoolInv, Pool!LiveExact
    <3> QED
      BY PoolCounts, <2>1, <3>3 DEF PoolInv, PoolTyped, Pool!LiveExact, PoolSized
  <2>3. PoolTyped' /\ Queued'
    BY <2>1 DEF PoolInv, PoolTyped, Queued
  <2>4. Settled' /\ Pool!CancelHonoured'
    BY <2>1 DEF PoolInv, PoolTyped, Settled, Pool!CancelHonoured
  <2> QED
    BY <2>2, <2>3, <2>4 DEF PoolInv
<1>2. CASE Pool!Send(j)
  <2>1. stage[j] = "permit"
    BY <1>2 DEF Pool!Send
  <2>2. Len(queue) < Capacity
    BY <2>1, PermitFits
  <2>3. /\ queue' = Append(queue, j) /\ stage' = [stage EXCEPT ![j] = "queued"]
        /\ UNCHANGED <<live, task, cancelled, finished, promised, outcome>>
    BY <1>2, <2>2 DEF Pool!Send, Pool!Move
  <2>4. Pool!LiveExact'
    BY Zenon, <2>1, <2>3, MoveLive DEF Pool!Move
  <2>5. PoolTyped'
    BY <2>3 DEF PoolInv, PoolTyped
  <2>6. Queued'
    <3>1. Len(queue') = Len(queue) + 1 /\ queue'[Len(queue) + 1] = j
          /\ \A i \in 1 .. Len(queue) : queue'[i] = queue[i]
      BY <2>3 DEF PoolInv, PoolTyped
    <3>2. \A i \in 1 .. Len(queue) : queue[i] \in Jobs /\ queue[i] # j
      BY <2>1 DEF PoolInv, PoolTyped, Queued
    <3>3. Len(queue) \in Nat
      BY DEF PoolInv, PoolTyped
    <3> QED
      BY <2>3, <3>1, <3>2, <3>3 DEF PoolInv, PoolTyped, Queued
  <2>7. Settled' /\ Pool!CancelHonoured'
    BY <2>1, <2>3 DEF PoolInv, PoolTyped, Settled, Pool!CancelHonoured
  <2> QED
    BY <2>4, <2>5, <2>6, <2>7 DEF PoolInv
<1> QED
  BY <1>1, <1>2

LEMMA TakeInv ==
  ASSUME PoolSized, PoolInv, NEW w \in Workers, Pool!Take(w)
  PROVE  PoolInv'
<1> DEFINE j == Head(queue)
<1>1. /\ queue # <<>> /\ task' = [task EXCEPT ![w] = j] /\ queue' = Tail(queue)
      /\ stage' = [stage EXCEPT ![j] = "taken"]
      /\ UNCHANGED <<live, cancelled, finished, promised, outcome>>
  BY DEF Pool!Take, Pool!Move
<1>2. /\ j \in Jobs /\ j = queue[1] /\ 1 \in 1 .. Len(queue) /\ Len(queue) \in Nat
      /\ Tail(queue) \in Seq(Jobs) /\ Len(Tail(queue)) = Len(queue) - 1
      /\ \A i \in 1 .. Len(Tail(queue)) : Tail(queue)[i] = queue[i + 1]
  BY <1>1 DEF PoolInv, PoolTyped
<1>3. stage[j] = "queued"
  BY <1>2 DEF PoolInv, Queued
<1> HIDE DEF j
<1>4. Pool!LiveExact'
  BY Zenon, <1>1, <1>2, <1>3, MoveLive DEF Pool!Move
<1>5. PoolTyped'
  BY <1>1, <1>2 DEF PoolInv, PoolTyped
<1>6. Queued'
  <2>1. \A i \in 1 .. Len(queue') : /\ i + 1 \in 1 .. Len(queue) /\ queue'[i] = queue[i + 1]
                                    /\ queue[i + 1] \in Jobs /\ queue[i + 1] # j
    BY <1>1, <1>2 DEF PoolInv, PoolTyped, Queued
  <2>2. \A i \in 1 .. Len(queue') : stage'[queue'[i]] = "queued"
    BY <1>1, <1>2, <2>1 DEF PoolInv, PoolTyped, Queued
  <2>3. \A i, k \in 1 .. Len(queue') : queue'[i] = queue'[k] => i + 1 = k + 1
    BY <2>1 DEF PoolInv, Queued
  <2>4. \A i, k \in 1 .. Len(queue') : i + 1 = k + 1 => i = k
    OBVIOUS
  <2> QED
    BY <2>2, <2>3, <2>4 DEF Queued
<1>7. Settled' /\ Pool!CancelHonoured'
  BY <1>1, <1>2, <1>3 DEF PoolInv, PoolTyped, Settled, Pool!CancelHonoured
<1> QED
  BY <1>4, <1>5, <1>6, <1>7 DEF PoolInv

\* The channel does not change when a job outside of it goes on.
LEMMA QueueKept ==
  ASSUME PoolInv, NEW j \in Jobs, stage[j] # "queued", NEW to, Pool!Move(j, to), UNCHANGED queue
  PROVE  Queued'
<1>1. \A i \in 1 .. Len(queue) : queue[i] \in Jobs /\ queue[i] # j
  BY DEF PoolInv, PoolTyped, Queued
<1> QED
  BY <1>1 DEF PoolInv, PoolTyped, Queued, Pool!Move

LEMMA RunInv ==
  ASSUME PoolSized, PoolInv, NEW w \in Workers, Pool!Start(w) \/ Pool!Work(w) \/ Pool!Finish(w)
  PROVE  PoolInv'
<1> DEFINE j == task[w]
<1>1. /\ j # None /\ stage[j] \in {"taken", "working", "ran"}
      /\ UNCHANGED <<live, queue, task, cancelled, promised>>
  BY DEF Pool!Start, Pool!Work, Pool!Finish
<1>2. j \in Jobs
  BY <1>1 DEF PoolInv, PoolTyped
<1>3. PICK to \in {"working", "ran", "callback"}, r \in {None, "ok", "error", "cancelled"} :
        /\ Pool!Move(j, to) /\ outcome' = [outcome EXCEPT ![j] = r]
        /\ to = "callback" => finished' = finished \union {j} /\ (j \in cancelled => r = "cancelled")
        /\ to # "callback" => finished' = finished
  <2>1. outcome[j] \in {None, "ok", "error", "cancelled"}
        /\ outcome = [outcome EXCEPT ![j] = outcome[j]]
    BY <1>2 DEF PoolInv, PoolTyped
  <2> HIDE DEF j
  <2>2. CASE Pool!Start(w)
    BY <2>1, <2>2 DEF Pool!Start, j
  <2>3. CASE Pool!Work(w)
    BY Zenon, <2>3 DEF Pool!Work, j
  <2>4. CASE Pool!Finish(w)
    BY Zenon, <2>1, <2>4 DEF Pool!Finish, Pool!Delivered, j
  <2> QED
    BY <2>2, <2>3, <2>4
<1> HIDE DEF j
<1>4. Pool!LiveExact'
  BY <1>1, <1>2, <1>3, MoveLive
<1>5. Queued'
  BY <1>1, <1>2, <1>3, QueueKept
<1>6. PoolTyped'
  BY <1>1, <1>2, <1>3 DEF PoolInv, PoolTyped, Pool!Move
<1>7. Settled'
  BY <1>1, <1>2, <1>3 DEF PoolInv, PoolTyped, Settled, Pool!Move
<1>8. Pool!CancelHonoured'
  BY <1>1, <1>2, <1>3 DEF PoolInv, PoolTyped, Settled, Pool!CancelHonoured, Pool!Move
<1> QED
  BY <1>4, <1>5, <1>6, <1>7, <1>8 DEF PoolInv

LEMMA CallbackInv ==
  ASSUME PoolSized, PoolInv, NEW w \in Workers, Pool!Callback(w)
  PROVE  PoolInv'
<1> DEFINE j == task[w]
<1>1. /\ j # None /\ stage[j] = "callback" /\ Pool!Move(j, "done") /\ live' = live - 1
      /\ task' = [task EXCEPT ![w] = None]
      /\ UNCHANGED <<queue, cancelled, finished, promised, outcome>>
  BY DEF Pool!Callback, Pool!Returned
<1>2. j \in Jobs
  BY <1>1 DEF PoolInv, PoolTyped
<1> HIDE DEF j
<1>3. IsFiniteSet(Pool!Outstanding) /\ j \in Pool!Outstanding /\ Pool!Outstanding' = Pool!Outstanding \ {j}
  BY <1>1, <1>2, FS_Subset DEF PoolInv, PoolTyped, PoolSized, Pool!Outstanding, Pool!Move
<1>4. Cardinality(Pool!Outstanding') = live - 1 /\ live # 0
  BY PoolCounts, <1>3, FS_RemoveElement, FS_EmptySet DEF PoolInv, Pool!LiveExact
<1>5. Pool!LiveExact'
  BY PoolCounts, <1>1, <1>2, <1>4 DEF PoolInv, PoolTyped, Pool!LiveExact, Pool!Move, PoolSized
<1>6. Queued'
  BY <1>1, <1>2, QueueKept
<1>7. PoolTyped'
  BY <1>1, <1>2, <1>4 DEF PoolInv, PoolTyped, Pool!Move
<1>8. Settled' /\ Pool!CancelHonoured'
  BY <1>1, <1>2 DEF PoolInv, PoolTyped, Settled, Pool!CancelHonoured, Pool!Move
<1> QED
  BY <1>5, <1>6, <1>7, <1>8 DEF PoolInv

LEMMA PoolStep == PoolSized /\ PoolInv /\ [Pool!Next]_Pool!vars => PoolInv'
<1> SUFFICES ASSUME PoolSized, PoolInv, [Pool!Next]_Pool!vars PROVE PoolInv'
  OBVIOUS
<1>1. ASSUME NEW j \in Jobs, Pool!Cancel(j) PROVE PoolInv'
  <2>1. /\ j \notin finished /\ cancelled' = cancelled \union {j} /\ promised' = promised \union {j}
        /\ UNCHANGED <<live, queue, stage, task, finished, outcome>>
    BY <1>1 DEF Pool!Cancel
  <2>2. Pool!LiveExact' /\ PoolTyped' /\ Queued'
    BY <2>1 DEF PoolInv, Pool!LiveExact, Pool!Outstanding, PoolTyped, Queued
  <2>3. Settled' /\ Pool!CancelHonoured'
    BY <2>1 DEF PoolInv, Settled, Pool!CancelHonoured
  <2> QED
    BY <2>2, <2>3 DEF PoolInv
<1>2. ASSUME UNCHANGED <<live, queue, stage, task, cancelled, finished, promised, outcome>>
      PROVE  PoolInv'
  BY <1>2 DEF PoolInv, Pool!LiveExact, Pool!Outstanding, PoolTyped, Queued, Settled, Pool!CancelHonoured
<1>3. ASSUME NEW w \in Workers, Pool!Leave(w) PROVE PoolInv'
  BY <1>2, <1>3 DEF Pool!Leave
<1>4. ASSUME NEW who \in Workers \union {Main}, Pool!DropPool(who) PROVE PoolInv'
  BY <1>2, <1>4 DEF Pool!DropPool
<1>5. CASE Pool!JoinAll \/ UNCHANGED Pool!vars
  BY <1>2, <1>5 DEF Pool!JoinAll, Pool!vars
<1> QED
  BY <1>1, <1>3, <1>4, <1>5, SubmitInv, TakeInv, RunInv, CallbackInv DEF Pool!Next, Pool!Worker

LEMMA PoolSpecInv == ASSUME PoolSized PROVE Pool!Spec => []PoolInv
<1>1. PoolSized /\ Pool!Init => PoolInv
  BY PoolInit
<1>2. PoolSized /\ PoolInv /\ [Pool!Next]_Pool!vars => PoolInv'
  BY PoolStep
<1> QED
  BY <1>1, <1>2, PTL DEF Pool!Spec

\* Whatever the workers, the handles and the end of the pool interleave, a cancel() that
\* returned true is what the callback learns (jobs.rs, JobHandle::cancel, submit).
THEOREM CancelsHonoured ==
  ASSUME PoolSized
  PROVE  Pool!Spec => []Pool!CancelHonoured
<1>1. PoolInv => Pool!CancelHonoured
  BY DEF PoolInv
<1> QED
  BY <1>1, PoolSpecInv, PTL

\* The live count is exact and within the capacity, and a job that took a permit always
\* finds room in the channel (jobs.rs, Permit, submit).
THEOREM PermitsExact ==
  ASSUME PoolSized
  PROVE  Pool!Spec => []Pool!LiveExact
<1>1. PoolInv => Pool!LiveExact
  BY DEF PoolInv
<1> QED
  BY <1>1, PoolSpecInv, PTL

-----------------------------------------------------------------------------
(* The resident session.                                                   *)

VARIABLES accepted, decision, poisoned, word, published, device, host

Session == INSTANCE ResidentSession


SessionTyped ==
  /\ accepted \subseteq Session!Devices /\ poisoned \in BOOLEAN
  /\ device \in [Session!Devices -> {"idle", "polling", "running", "retired", "faulted"}]
  /\ word \in {"none", "run", "abort"} /\ decision = word
  /\ host \in {"open", "dropping", "released", "quarantined"}
\* RUN is published with both accepted, and the word in memory is never changed again.
Decided ==
  /\ word = "run" => accepted = Session!Devices
  /\ \A d \in Session!Devices : device[d] # "idle" => d \in accepted
  /\ \A d \in Session!Devices : device[d] = "running" => word = "run"
SessionInv == SessionTyped /\ Decided /\ Session!ReleasedQuiet

LEMMA SessionInit == Session!Init => SessionInv
  BY Zenon DEF Session!Init, SessionInv, SessionTyped, Decided, Session!ReleasedQuiet, Session!Devices

LEMMA DecideInv ==
  ASSUME SessionInv, Session!Ready, NEW value \in {"run", "abort"}, Session!Decide(value), value = "run" => Session!Complete,
         UNCHANGED <<accepted, device>>, host' \in {host, "dropping"}
  PROVE  SessionInv'
<1>1. SessionTyped'
  BY DEF Session!Decide, Session!Publish, SessionInv, SessionTyped
<1>2. Decided'
  BY DEF Session!Decide, Session!Publish, Session!Ready, Session!Complete, SessionInv, SessionTyped, Decided
<1>3. Session!ReleasedQuiet'
  BY DEF SessionInv, Session!ReleasedQuiet
<1> QED
  BY <1>1, <1>2, <1>3 DEF SessionInv

LEMMA DeviceInv ==
  ASSUME SessionInv, NEW d \in Session!Devices, Session!Observe(d) \/ Session!Finish(d) \/ Session!Fault(d) \/ Session!Submit(d)
  PROVE  SessionInv'
<1>1. /\ UNCHANGED <<decision, poisoned, word, published, host>>
      /\ accepted' = accepted \/ (accepted' = accepted \union {d} /\ word = "none" /\ host = "open")
  BY DEF Session!Observe, Session!Finish, Session!Fault, Session!Submit, Session!Ready, SessionInv, SessionTyped
<1>2. PICK to \in {"polling", "running", "retired", "faulted"} :
        /\ device' = [device EXCEPT ![d] = to]
        /\ d \in accepted'
        /\ to = "running" => word = "run"
        /\ device[d] \notin {"idle", "retired"} \/ host = "open"
  BY DEF Session!Observe, Session!Finish, Session!Fault, Session!Submit, SessionInv, Decided
<1>3. SessionTyped'
  BY <1>1, <1>2 DEF SessionInv, SessionTyped
<1>4. Decided'
  BY <1>1, <1>2 DEF SessionInv, SessionTyped, Decided
<1>5. Session!ReleasedQuiet'
  BY <1>1, <1>2 DEF SessionInv, SessionTyped, Session!ReleasedQuiet
<1> QED
  BY <1>3, <1>4, <1>5 DEF SessionInv

LEMMA SessionStep == SessionInv /\ [Session!Next]_Session!vars => SessionInv'
<1> SUFFICES ASSUME SessionInv, [Session!Next]_Session!vars PROVE SessionInv'
  OBVIOUS
<1>1. ASSUME NEW d \in Session!Devices, Session!SubmitRejected(d) PROVE SessionInv'
  BY <1>1, DecideInv DEF Session!SubmitRejected
<1>2. CASE Session!Start \/ Session!Abort
  BY <1>2, DecideInv DEF Session!Start, Session!Abort
<1>3. CASE Session!WaitFails
  BY <1>3 DEF Session!WaitFails, SessionInv, SessionTyped, Decided, Session!ReleasedQuiet
<1>4. CASE Session!Drop
  <2>1. CASE Session!Ready
    BY <1>4, <2>1, DecideInv DEF Session!Drop, Session!Undecided
  <2>2. CASE ~Session!Ready
    BY <1>4, <2>2 DEF Session!Drop, SessionInv, SessionTyped, Decided, Session!ReleasedQuiet
  <2> QED
    BY <2>1, <2>2
<1>5. CASE Session!Joined
  <2>1. SessionTyped' /\ Decided'
    BY <1>5 DEF Session!Joined, SessionInv, SessionTyped, Decided
  <2>2. Session!ReleasedQuiet'
    BY <1>5 DEF Session!Joined, Session!Safe, Session!Retired, SessionInv, SessionTyped, Decided, Session!ReleasedQuiet
  <2> QED
    BY <2>1, <2>2 DEF SessionInv
<1>6. CASE UNCHANGED Session!vars
  BY <1>6 DEF Session!vars, SessionInv, SessionTyped, Decided, Session!ReleasedQuiet
<1> QED
  BY <1>1, <1>2, <1>3, <1>4, <1>5, <1>6, DeviceInv DEF Session!Next

\* No participant runs before both submissions were accepted and RUN is what the other
\* will read, and the session's storage is not released while a participant may still
\* access it (resident.rs, start, wait_timeout, drop).
THEOREM SessionsSound == Session!Spec => [](Session!RunTogether /\ Session!ReleasedQuiet)
<1>1. SessionInv => Session!RunTogether /\ Session!ReleasedQuiet
  BY DEF SessionInv, Decided, Session!RunTogether
<1> QED
  BY <1>1, SessionInit, SessionStep, PTL DEF Session!Spec
=============================================================================
