------------------------------ MODULE Residency ------------------------------
(***************************************************************************)
(* ResidencyManager and MemoryBudget: a cache of models under one byte     *)
(* ceiling.  A load reserves its peak before the loader runs, shrinks the  *)
(* charge to what stays resident, and shares its outcome; capacity comes   *)
(* from destroying idle models outside the lock, with their charge kept    *)
(* until the destructor is done; a cleanup thread unloads models that have *)
(* been idle for a while; leases and budgets outlive the manager.          *)
(*                                                                         *)
(* A resource is named by the flight that loaded it.  One step of the      *)
(* model is one critical section of the registry's lock, one change of the *)
(* atomic byte count, or the end of a loader or a destructor.              *)
(***************************************************************************)
EXTENDS Integers

CONSTANTS
  Keys, Callers,  \* 0 is no key
  Limit,        \* bytes of the budget
  Peak,         \* key -> bytes reserved while it loads; 0 for load_budgeted
  Resident,     \* key -> bytes it declares afterwards
  Growth,       \* bytes of one later allocation of a budgeted resource
  Timeout,      \* passes a resource has to be idle, 0 without automatic cleanup
  Droppable,    \* whether the application may drop the manager
  MaxClock, MaxPasses   \* bounds on lookups and cleanup passes

\* The flight a lookup may open is numbered by the clock.
Flights == 1 .. MaxClock

VARIABLES
  bytes,                         \* Usage::bytes
  entries, clock, manager,       \* the registry, while the manager lives
  name, result, used, idle_since,  \* of each flight and its resource
  charge,                        \* the reservations a flight or its resource holds
  retained,                      \* pins and keepalives of a resource
  busy,                          \* resources whose idle predicate is false
  at, key, flight, victim, resume,   \* position and locals of a caller
  dying, passes,                 \* the cleanup thread: its victims, its clock
  active                         \* history: the end of a resource's last use

flightVars == <<name, result>>
callerVars == <<key, flight>>
evictVars  == <<victim, resume>>
cleanVars  == <<dying, passes>>
vars == <<bytes, entries, clock, manager, flightVars, used, idle_since, charge, retained, busy,
          at, callerVars, evictVars, cleanVars, active>>

Init ==
  /\ bytes = 0 /\ entries = [k \in Keys |-> 0] /\ clock = 0 /\ manager = TRUE
  /\ name = [f \in Flights |-> 0] /\ result = [f \in Flights |-> "none"]
  /\ used = [f \in Flights |-> 0] /\ idle_since = [f \in Flights |-> 0]
  /\ charge = [f \in Flights |-> 0] /\ retained = [f \in Flights |-> {}] /\ busy = {}
  /\ at = [c \in Callers |-> "idle"] /\ key = [c \in Callers |-> 0]
  /\ flight = [c \in Callers |-> 0] /\ victim = [c \in Callers |-> 0]
  /\ resume = [c \in Callers |-> "idle"]
  /\ dying = {} /\ passes = 0 /\ active = [f \in Flights |-> 0]

Go(c, where) == at' = [at EXCEPT ![c] = where]
\* A use ends at the latest when the next pass begins.
Touch(f) == active' = [active EXCEPT ![f] = IF Timeout = 0 THEN 0 ELSE passes + 1]
\* Mutant: a new lease does not restart the countdown.
MarkActive_Not(f) == idle_since' = idle_since
\* Resource::mark_active; 0 is no observation.
MarkActive(f) == idle_since' = [idle_since EXCEPT ![f] = 0]

Held(f) == retained[f] # {} \/ \E c \in Callers : flight[c] = f
\* Mutant: only pins are counted, not leases and retained owners.
IsEvictable_Pins(f) == f # 0 /\ result[f] = "ok" /\ "pin" \notin retained[f] /\ f \notin busy
\* Resource::is_evictable of a ready entry.
IsEvictable(f) == f # 0 /\ result[f] = "ok" /\ ~Held(f) /\ f \notin busy

\* State::evict_idle: the keys of the least recently used idle resources.
Idle == IF manager THEN {k \in Keys : IsEvictable(entries[k])} ELSE {}
EvictIdle == {k \in Idle : \A j \in Idle : used[entries[k]] <= used[entries[j]]}
\* Mutant: the charge goes back before the destructor has run.
Remove_Early(c, k, then) ==
  /\ entries' = [entries EXCEPT ![k] = 0]
  /\ victim' = [victim EXCEPT ![c] = 0] /\ resume' = [resume EXCEPT ![c] = then]
  /\ Go(c, then)
\* The victim leaves the registry; the caller destroys it outside the lock.
Remove(c, k, then) ==
  /\ entries' = [entries EXCEPT ![k] = 0]
  /\ victim' = [victim EXCEPT ![c] = entries[k]] /\ resume' = [resume EXCEPT ![c] = then]
  /\ Go(c, "destroy")

\* The sum over all flights.
Total(c) ==
  LET sum[n \in 0 .. MaxClock] == IF n = 0 THEN 0 ELSE sum[n - 1] + c[n] IN sum[MaxClock]

\* Usage::reserve.
Fits(n) == bytes + n <= Limit
-----------------------------------------------------------------------------
(* load and load_budgeted. *)

Load(c, k) ==
  /\ at[c] = "idle" /\ manager
  /\ key' = [key EXCEPT ![c] = k] /\ Go(c, "lookup")
  /\ UNCHANGED <<bytes, entries, clock, manager, flightVars, used, idle_since, charge, retained,
                 busy, flight, evictVars, cleanVars, active>>

Lookup(c) == at[c] = "lookup" /\ clock < MaxClock /\ clock' = clock + 1
Hit(c) ==
  /\ Lookup(c)
  /\ LET f == entries[key[c]] IN
     /\ f # 0 /\ flight' = [flight EXCEPT ![c] = f]
     /\ \/ /\ result[f] = "ok" /\ Go(c, "leased")
           /\ used' = [used EXCEPT ![f] = clock + 1] /\ MarkActive(f)
        \/ result[f] = "none" /\ Go(c, "joined") /\ UNCHANGED <<used, idle_since>>
  /\ UNCHANGED <<bytes, entries, manager, flightVars, charge, retained, busy, key, evictVars,
                 cleanVars, active>>
Elect(c) ==
  /\ Lookup(c) /\ entries[key[c]] = 0 /\ Fits(Peak[key[c]])
  /\ LET f == clock + 1 IN
     /\ name' = [name EXCEPT ![f] = key[c]]
     /\ entries' = [entries EXCEPT ![key[c]] = f]
     /\ charge' = [charge EXCEPT ![f] = Peak[key[c]]]
     /\ flight' = [flight EXCEPT ![c] = f]
  /\ bytes' = bytes + Peak[key[c]] /\ Go(c, "loading")
  /\ UNCHANGED <<manager, result, used, idle_since, retained, busy, key, evictVars, cleanVars, active>>
MakeRoom(c) ==
  /\ Lookup(c) /\ entries[key[c]] = 0 /\ ~Fits(Peak[key[c]])
  /\ \/ /\ \E k \in EvictIdle : Remove(c, k, "lookup")
        /\ UNCHANGED key
     \/ /\ EvictIdle = {} /\ Go(c, "idle") /\ key' = [key EXCEPT ![c] = 0]
        /\ UNCHANGED <<entries, evictVars>>
  /\ UNCHANGED <<bytes, manager, flightVars, used, idle_since, charge, retained, busy, flight,
                 cleanVars, active>>

\* Mutant: the atomic count is not reduced with the reservation.
Shrunk_Kept(f, ok) == bytes - (IF ok THEN 0 ELSE charge[f])
\* MemoryReservation::shrink, or the drop of the reservation and of what was allocated.
Shrunk(f, ok) == bytes - (IF ok THEN Peak[name[f]] - Resident[name[f]] ELSE charge[f])
\* The loader returns its value and resident bytes, fails or panics.
Loaded(c, ok) ==
  LET f == flight[c] IN
  /\ at[c] = "loading" /\ Go(c, IF ok THEN "loaded" ELSE "unloadable")
  /\ charge' = [charge EXCEPT ![f] = IF ok THEN @ - Peak[name[f]] + Resident[name[f]] ELSE 0]
  /\ bytes' = Shrunk(f, ok)
  /\ UNCHANGED <<entries, clock, manager, flightVars, used, idle_since, retained, busy, callerVars,
                 evictVars, cleanVars, active>>

Leave(c) ==
  /\ Go(c, "idle") /\ key' = [key EXCEPT ![c] = 0] /\ flight' = [flight EXCEPT ![c] = 0]
\* Mutant: the outcome of a failed load is not published to its flight.
Publish_Silent(c) ==
  LET f == flight[c] IN
  \/ /\ at[c] = "loaded" /\ result' = [result EXCEPT ![f] = "ok"]
     /\ used' = [used EXCEPT ![f] = clock] /\ MarkActive(f) /\ Go(c, "leased")
     /\ UNCHANGED <<bytes, entries, clock, manager, name, charge, retained, busy, callerVars,
                    evictVars, cleanVars, active>>
  \/ /\ at[c] = "unloadable" /\ entries' = [entries EXCEPT ![key[c]] = 0] /\ Leave(c)
     /\ UNCHANGED <<bytes, clock, manager, flightVars, used, idle_since, charge, retained, busy,
                    evictVars, cleanVars, active>>
\* The entry and the flight are settled together.
Publish(c) ==
  LET f == flight[c] IN
  \/ /\ at[c] = "loaded" /\ result' = [result EXCEPT ![f] = "ok"]
     /\ used' = [used EXCEPT ![f] = clock] /\ MarkActive(f) /\ Go(c, "leased")
     /\ UNCHANGED <<bytes, entries, clock, manager, name, charge, retained, busy, callerVars,
                    evictVars, cleanVars, active>>
  \/ /\ at[c] = "unloadable" /\ result' = [result EXCEPT ![f] = "failed"]
     /\ entries' = [entries EXCEPT ![key[c]] = 0] /\ Leave(c)
     /\ UNCHANGED <<bytes, clock, manager, name, used, idle_since, charge, retained, busy,
                    evictVars, cleanVars, active>>
Joined(c) ==
  /\ at[c] = "joined" /\ result[flight[c]] # "none"
  /\ \/ result[flight[c]] = "ok" /\ Go(c, "leased") /\ MarkActive(flight[c]) /\ UNCHANGED callerVars
     \/ result[flight[c]] = "failed" /\ Leave(c) /\ UNCHANGED idle_since
  /\ UNCHANGED <<bytes, entries, clock, manager, flightVars, used, charge, retained, busy,
                 evictVars, cleanVars, active>>
-----------------------------------------------------------------------------
(* Leases, pins, allocations and explicit eviction. *)

\* A resource outside the registry is destroyed with its last reference.
Orphan(f) == ~manager /\ retained'[f] = {} /\ \A c \in Callers : flight'[c] # f
Forget(f, working) ==
  IF Orphan(f) THEN /\ bytes' = bytes - charge[f] /\ charge' = [charge EXCEPT ![f] = 0]
                    /\ busy' = busy \ {f}
  ELSE busy' = busy \union working /\ UNCHANGED <<bytes, charge>>
\* The lease is dropped, with queued work of the model possibly still running.
Release(c, working) ==
  /\ at[c] = "leased"
  /\ Leave(c) /\ Touch(flight[c]) /\ UNCHANGED retained
  /\ Forget(flight[c], IF working THEN {flight[c]} ELSE {})
  /\ UNCHANGED <<entries, clock, manager, flightVars, used, idle_since, evictVars, cleanVars>>
Drained(f) ==
  /\ f \in busy /\ busy' = busy \ {f} /\ Touch(f)
  /\ UNCHANGED <<bytes, entries, clock, manager, flightVars, used, idle_since, charge, retained,
                 at, callerVars, evictVars, cleanVars>>
\* ModelLease::pin and keepalive.
Retain(c, how) ==
  /\ at[c] = "leased" /\ how \notin retained[flight[c]]
  /\ retained' = [retained EXCEPT ![flight[c]] = @ \union {how}] /\ MarkActive(flight[c])
  /\ UNCHANGED <<bytes, entries, clock, manager, flightVars, used, charge, busy, at, callerVars,
                 evictVars, cleanVars, active>>
Unretain(f, how) ==
  /\ how \in retained[f] /\ retained' = [retained EXCEPT ![f] = @ \ {how}]
  /\ Touch(f) /\ UNCHANGED flight /\ Forget(f, {})
  /\ UNCHANGED <<entries, clock, manager, flightVars, used, idle_since, at, key, evictVars,
                 cleanVars>>

\* MemoryBudget::reserve for an allocation of a budgeted resource.
Reserve(c) ==
  /\ at[c] \in {"loading", "leased"} /\ Growth # 0 /\ Peak[key[c]] = 0
  /\ LET f == flight[c] IN
     \/ /\ Fits(Growth) /\ bytes' = bytes + Growth
        /\ charge' = [charge EXCEPT ![f] = @ + Growth] /\ UNCHANGED <<entries, at, evictVars>>
     \/ /\ ~Fits(Growth) /\ \E k \in EvictIdle : Remove(c, k, at[c])
        /\ UNCHANGED <<bytes, charge>>
  /\ UNCHANGED <<clock, manager, flightVars, used, idle_since, retained, busy, callerVars,
                 cleanVars, active>>
Evict(c, k) ==
  /\ at[c] = "idle" /\ manager /\ IsEvictable(entries[k]) /\ Remove(c, k, "idle")
  /\ UNCHANGED <<bytes, clock, manager, flightVars, used, idle_since, charge, retained, busy,
                 callerVars, cleanVars, active>>

\* The destructor of a victim ends, then its charge is released.
Destroy(c) ==
  /\ at[c] = "destroy" /\ Go(c, resume[c])
  /\ bytes' = bytes - charge[victim[c]] /\ charge' = [charge EXCEPT ![victim[c]] = 0]
  /\ victim' = [victim EXCEPT ![c] = 0] /\ resume' = [resume EXCEPT ![c] = "idle"]
  /\ UNCHANGED <<entries, clock, manager, flightVars, used, idle_since, retained, busy, callerVars,
                 cleanVars, active>>
-----------------------------------------------------------------------------
(* The cleanup thread, and the end of the manager. *)

Registered == {f \in Flights : \E k \in Keys : entries[k] = f} \ {f \in Flights : result[f] # "ok"}
\* Mutant: the expired resources are not handed to the cleanup thread.
CollectExpired_Dropped ==
  /\ Timeout # 0 /\ manager /\ dying = {} /\ passes < MaxPasses /\ passes' = passes + 1
  /\ LET since == [f \in Flights |-> IF f \notin Registered THEN idle_since[f]
                                     ELSE IF ~IsEvictable(f) THEN 0
                                     ELSE IF idle_since[f] = 0 THEN passes' ELSE idle_since[f]]
         expired == {f \in Registered : IsEvictable(f) /\ passes' - since[f] >= Timeout}
     IN /\ idle_since' = since /\ dying' = {}
        /\ entries' = [k \in Keys |-> IF entries[k] \in expired THEN 0 ELSE entries[k]]
  /\ UNCHANGED <<bytes, clock, manager, flightVars, used, charge, retained, busy, at, callerVars,
                 evictVars, active>>
\* collect_expired at the next second: a resource is first seen idle, later expired.
CollectExpired ==
  /\ Timeout # 0 /\ manager /\ dying = {} /\ passes < MaxPasses /\ passes' = passes + 1
  /\ LET since == [f \in Flights |-> IF f \notin Registered THEN idle_since[f]
                                     ELSE IF ~IsEvictable(f) THEN 0
                                     ELSE IF idle_since[f] = 0 THEN passes' ELSE idle_since[f]]
         expired == {f \in Registered : IsEvictable(f) /\ passes' - since[f] >= Timeout}
     IN /\ idle_since' = since /\ dying' = expired
        /\ entries' = [k \in Keys |-> IF entries[k] \in expired THEN 0 ELSE entries[k]]
  /\ UNCHANGED <<bytes, clock, manager, flightVars, used, charge, retained, busy, at, callerVars,
                 evictVars, active>>
DestroyExpired ==
  /\ \E f \in dying :
       /\ dying' = dying \ {f} /\ bytes' = bytes - charge[f]
       /\ charge' = [charge EXCEPT ![f] = 0]
  /\ UNCHANGED <<entries, clock, manager, flightVars, used, idle_since, retained, busy, at,
                 callerVars, evictVars, passes, active>>

\* The last manager handle goes: what nobody refers to is destroyed with the registry.
DropManager ==
  /\ Droppable /\ manager /\ manager' = FALSE
  /\ \A c \in Callers : at[c] \in {"idle", "leased"}
  /\ LET lost == {f \in Registered : ~Held(f)} IN
     /\ bytes' = bytes - Total([f \in Flights |-> IF f \in lost THEN charge[f] ELSE 0])
     /\ charge' = [f \in Flights |-> IF f \in lost THEN 0 ELSE charge[f]]
     /\ busy' = busy \ lost
  /\ entries' = [k \in Keys |-> 0]
  /\ UNCHANGED <<clock, flightVars, used, idle_since, retained, at, callerVars, evictVars,
                 cleanVars, active>>

Advance(c) == Hit(c) \/ Elect(c) \/ MakeRoom(c) \/ (\E ok \in BOOLEAN : Loaded(c, ok))
                \/ Publish(c) \/ Joined(c) \/ Destroy(c)
Next ==
  \/ \E c \in Callers : \/ Advance(c) \/ Reserve(c)
                        \/ \E k \in Keys : Load(c, k) \/ Evict(c, k)
                        \/ \E working \in BOOLEAN : Release(c, working)
                        \/ \E how \in {"pin", "keepalive"} : Retain(c, how)
  \/ \E f \in Flights : Drained(f) \/ \E how \in {"pin", "keepalive"} : Unretain(f, how)
  \/ CollectExpired \/ DestroyExpired \/ DropManager
Spec == Init /\ [][Next]_vars
-----------------------------------------------------------------------------
(* Properties. *)

\* "a byte ceiling": the atomic count is the sum of the charges of loaders, resident models
\* and models still being destroyed, so what exists never exceeds the budget.
BudgetExact == bytes = Total(charge) /\ bytes <= Limit

\* A model that is leased, pinned or kept alive is not destroyed, and while the manager lives
\* it is the entry of its key, so it is not loaded twice.
LeasedResident ==
  \A f \in Flights : result[f] = "ok" /\ (Held(f) \/ f \in busy) =>
    /\ f \notin dying /\ \A c \in Callers : victim[c] # f
    /\ manager => entries[name[f]] = f

\* "Failure/panic rolls back the reservation": nothing is charged for a load that failed, nor
\* for a model that left the registry and was destroyed.
NothingLeaks ==
  \A f \in Flights : charge[f] # 0 =>
    \/ \E k \in Keys : entries[k] = f
    \/ f \in dying \/ \E c \in Callers : victim[c] = f
    \/ ~manager /\ Held(f)

\* "Renewed activity resets the countdown": the cleanup thread removes a model only when its
\* last use ended at least the timeout before the pass.
IdleLongEnough == \A f \in dying' \ dying : passes' - active[f] >= Timeout

\* Concurrent loads share one flight: the registry implements SingleFlight while it lives,
\* under this mapping.
Ready == {f \in Flights : result[f] = "ok"}
Using == [c \in Callers |-> [key |-> IF flight[c] = 0 THEN 0 ELSE key[c], load |-> flight[c]]]
=============================================================================
