------------------------------ MODULE PlanCache ------------------------------
(***************************************************************************)
(* PlanCache: a bounded cache of prepared plans.  One caller is elected to *)
(* prepare a missing key outside the lock, the others wait for its flight; *)
(* a full cache evicts the least recently used plan nobody holds.          *)
(***************************************************************************)
EXTENDS Integers, FiniteSets

CONSTANTS
  Keys, Callers,  \* 0 is no key
  Capacity,    \* maximum number of ready and loading entries
  MaxGets      \* bound on the calls of get_or_prepare

\* The flight a call would open is numbered by the call.
Flights == 1 .. MaxGets

VARIABLES
  entries,        \* key -> its flight or the flight that made its value, 0 if absent
  result,         \* flight -> "none" until it is published
  used, clock,    \* recency of each value
  hits, misses, evictions,
  busy,           \* values whose work outlives the Arc (not idle)
  at, key, flight,  \* the position of a caller, its key and its flight or value
  calls

vars == <<entries, result, used, clock, hits, misses, evictions, busy, at, key, flight, calls>>
counters == <<hits, misses, evictions>>

Init ==
  /\ entries = [k \in Keys |-> 0] /\ result = [f \in Flights |-> "none"]
  /\ used = [f \in Flights |-> 0] /\ clock = 0
  /\ hits = 0 /\ misses = 0 /\ evictions = 0 /\ busy = {}
  /\ at = [c \in Callers |-> "idle"] /\ key = [c \in Callers |-> 0]
  /\ flight = [c \in Callers |-> 0] /\ calls = 0

Present == {k \in Keys : entries[k] # 0}
\* Mutant: the Arcs of callers are not counted.
Evictable_Unheld(f) == f # 0 /\ result[f] = "ok" /\ f \notin busy
\* A ready value with one strong reference whose idle predicate holds.
Evictable(f) ==
  /\ f # 0 /\ result[f] = "ok" /\ f \notin busy
  /\ \A c \in Callers : flight[c] # f

Enter(c, k, where, f) ==
  /\ at' = [at EXCEPT ![c] = where] /\ key' = [key EXCEPT ![c] = k]
  /\ flight' = [flight EXCEPT ![c] = f]
Tick ==
  /\ calls < MaxGets /\ calls' = calls + 1 /\ clock' = clock + 1

Hit(c, k) ==
  /\ at[c] = "idle" /\ entries[k] # 0 /\ Tick /\ hits' = hits + 1
  /\ LET f == entries[k] IN
     \/ /\ result[f] = "ok" /\ used' = [used EXCEPT ![f] = clock'] /\ Enter(c, k, "holding", f)
     \/ /\ result[f] = "none" /\ Enter(c, k, "joined", f) /\ UNCHANGED used
  /\ UNCHANGED <<entries, result, misses, evictions, busy>>

\* Mutant: the limit is tested after the insertion it should prevent.
Victims_Late == IF Cardinality(Present) > Capacity THEN {k \in Keys : Evictable(entries[k])} ELSE {0}
\* The keys one of which has to leave: {0} when there is room, {} when nobody can.
Victims ==
  IF Cardinality(Present) # Capacity THEN {0}
  ELSE {k \in Keys : /\ Evictable(entries[k])
                     /\ \A j \in Keys : Evictable(entries[j])
                                          => used[entries[k]] <= used[entries[j]]}
\* A missing key: make room, and open a flight.
Elect(c, k) ==
  /\ at[c] = "idle" /\ entries[k] = 0 /\ Tick /\ misses' = misses + 1
  /\ \E v \in Victims :
       /\ entries' = [j \in Keys |-> IF j = k THEN calls' ELSE IF j = v THEN 0 ELSE entries[j]]
       /\ evictions' = IF v = 0 THEN evictions ELSE evictions + 1
  /\ Enter(c, k, "preparing", calls')
  /\ UNCHANGED <<result, used, hits, busy>>
Busy(c, k) ==
  /\ at[c] = "idle" /\ entries[k] = 0 /\ Victims = {} /\ Tick
  /\ UNCHANGED <<entries, result, used, counters, busy, at, key, flight>>

\* Mutant: a failed preparation stays in the cache.
Publish_Kept(c, ok) ==
  /\ at[c] = "preparing"
  /\ result' = [result EXCEPT ![flight[c]] = IF ok THEN "ok" ELSE "failed"]
  /\ used' = [used EXCEPT ![flight[c]] = clock]
  /\ IF ok THEN Enter(c, key[c], "holding", flight[c]) ELSE Enter(c, 0, "idle", 0)
  /\ UNCHANGED <<entries, clock, counters, busy, calls>>
\* Mutant: the outcome of a failed preparation is not published to its flight.
Publish_Silent(c, ok) ==
  /\ at[c] = "preparing"
  /\ IF ok
     THEN /\ result' = [result EXCEPT ![flight[c]] = "ok"]
          /\ used' = [used EXCEPT ![flight[c]] = clock]
          /\ Enter(c, key[c], "holding", flight[c]) /\ UNCHANGED entries
     ELSE /\ entries' = [entries EXCEPT ![key[c]] = 0]
          /\ Enter(c, 0, "idle", 0) /\ UNCHANGED <<result, used>>
  /\ UNCHANGED <<clock, counters, busy, calls>>
\* The loader returns, fails or panics; the entry and the flight are settled together.
Publish(c, ok) ==
  /\ at[c] = "preparing"
  /\ result' = [result EXCEPT ![flight[c]] = IF ok THEN "ok" ELSE "failed"]
  /\ IF ok
     THEN /\ used' = [used EXCEPT ![flight[c]] = clock]
          /\ Enter(c, key[c], "holding", flight[c]) /\ UNCHANGED entries
     ELSE /\ entries' = [entries EXCEPT ![key[c]] = 0]
          /\ Enter(c, 0, "idle", 0) /\ UNCHANGED used
  /\ UNCHANGED <<clock, counters, busy, calls>>
\* Mutant: a waiter that wakes up without an outcome gives up.
Joined_Spurious(c) ==
  /\ at[c] = "joined"
  /\ IF result[flight[c]] = "ok" THEN Enter(c, key[c], "holding", flight[c])
     ELSE Enter(c, 0, "idle", 0)
  /\ UNCHANGED <<entries, result, used, clock, counters, busy, calls>>
Joined(c) ==
  /\ at[c] = "joined" /\ result[flight[c]] # "none"
  /\ IF result[flight[c]] = "ok" THEN Enter(c, key[c], "holding", flight[c])
     ELSE Enter(c, 0, "idle", 0)
  /\ UNCHANGED <<entries, result, used, clock, counters, busy, calls>>

\* The caller drops its Arc, perhaps with work or outputs still alive.
Drop(c, active) ==
  /\ at[c] = "holding"
  /\ busy' = IF active THEN busy \union {flight[c]} ELSE busy
  /\ Enter(c, 0, "idle", 0)
  /\ UNCHANGED <<entries, result, used, clock, counters, calls>>
Drained(f) ==
  /\ f \in busy /\ busy' = busy \ {f}
  /\ UNCHANGED <<entries, result, used, clock, counters, at, key, flight, calls>>

Next ==
  \/ \E c \in Callers : \/ \E k \in Keys : Hit(c, k) \/ Elect(c, k) \/ Busy(c, k)
                        \/ \E b \in BOOLEAN : Publish(c, b) \/ Drop(c, b)
                        \/ Joined(c)
  \/ \E f \in Flights : Drained(f)
Spec == Init /\ [][Next]_vars
-----------------------------------------------------------------------------
(* Properties. *)

\* "maximum number of resident/preparing plans", also with several keys in preparation, and
\* "Failed or panicking loaders release capacity": PlanCacheStats account for every entry.
Bounded ==
  /\ Cardinality(Present) <= Capacity
  /\ misses = Cardinality(Present) + evictions + Cardinality({f \in Flights : result[f] = "failed"})

\* "Returned Arcs pin values", "the idle predicate protects work whose output outlives
\* that Arc": a plan that is held, prepared or busy is the plan cached under its key.
HeldCached ==
  /\ \A c \in Callers : at[c] \in {"holding", "preparing"} => entries[key[c]] = flight[c]
  /\ \A f \in busy : \E k \in Keys : entries[k] = f

\* "Concurrent requests for the same key share one outcome": the cache implements
\* SingleFlight under this mapping (and entries for its cache), where a caller that learns
\* of a failure has let go of it.
Ready == {f \in Flights : result[f] = "ok"}
Using == [c \in Callers |-> [key |-> key[c], load |-> flight[c]]]
=============================================================================
