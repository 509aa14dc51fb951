---------------------------- MODULE SingleFlight ----------------------------
(***************************************************************************)
(* What the shared caches promise their callers: concurrent requests for   *)
(* one key share one preparation and its outcome, every caller gets the    *)
(* value of a preparation of the key it asked for, a failed preparation    *)
(* leaves nothing behind, and a value in use is neither dropped nor        *)
(* prepared a second time.                                                 *)
(***************************************************************************)
EXTENDS Integers

CONSTANTS Keys, Callers, Loads   \* preparations are numbered, 0 is none

VARIABLES
  cache,   \* key -> the preparation running or cached for it, or 0
  ready,   \* the preparations that have succeeded
  using    \* caller -> [key, load]: the preparation it runs, awaits or holds

vars == <<cache, ready, using>>
Unused == [key |-> 0, load |-> 0]

Init == cache = [k \in Keys |-> 0] /\ ready = {} /\ using = [c \in Callers |-> Unused]

\* Sets of keys whose values nobody uses: they may leave at any time.
Unneeded == {K \in SUBSET Keys : \A k \in K :
               cache[k] \in ready /\ \A c \in Callers : using[c].load # cache[k]}
Without(K) == [k \in Keys |-> IF k \in K THEN 0 ELSE cache[k]]

\* A caller joins the preparation or takes the value in the cache.
Join(c, k) ==
  /\ using[c] = Unused /\ cache[k] # 0
  /\ using' = [using EXCEPT ![c] = [key |-> k, load |-> cache[k]]]
  /\ UNCHANGED <<cache, ready>>
\* Without one it starts a preparation, for which an unused value may make room.
Prepare(c, k, l) ==
  /\ using[c] = Unused /\ cache[k] = 0
  /\ using' = [using EXCEPT ![c] = [key |-> k, load |-> l]]
  /\ UNCHANGED ready
  /\ l \notin ready /\ \A d \in Callers : using[d].load # l
  /\ \E K \in Unneeded : cache' = [Without(K) EXCEPT ![k] = l]
Succeed(k) ==
  /\ cache[k] # 0 /\ cache[k] \notin ready
  /\ ready' = ready \union {cache[k]}
  /\ UNCHANGED <<cache, using>>
\* The caller that prepared the value reports the failure, the others learn of it.
Fail(c) ==
  /\ using[c] # Unused /\ using[c].load \notin ready
  /\ cache[using[c].key] = using[c].load
  /\ cache' = [cache EXCEPT ![using[c].key] = 0]
  /\ using' = [using EXCEPT ![c] = Unused]
  /\ UNCHANGED ready
\* A value is dropped, or the outcome of a failed preparation is received.
Put(c) ==
  /\ using[c].load \in ready \/ cache[using[c].key] # using[c].load
  /\ using' = [using EXCEPT ![c] = Unused]
  /\ UNCHANGED <<cache, ready>>
Evict ==
  /\ UNCHANGED <<ready, using>>
  /\ \E K \in Unneeded : cache' = Without(K)
\* The cache itself goes when nothing is being prepared; values in use live on.
Close ==
  /\ \A k \in Keys : cache[k] \in ready \union {0}
  /\ cache' = [k \in Keys |-> 0]
  /\ UNCHANGED <<ready, using>>

Next ==
  \/ Evict \/ Close
  \/ \E k \in Keys : Succeed(k)
  \/ \E c \in Callers : Fail(c) \/ (using[c] # Unused /\ Put(c))
  \/ \E c \in Callers, k \in Keys : Join(c, k) \/ \E l \in Loads : Prepare(c, k, l)
Spec == Init /\ [][Next]_vars
=============================================================================
