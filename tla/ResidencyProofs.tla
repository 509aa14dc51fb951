--------------------------- MODULE ResidencyProofs ---------------------------
(***************************************************************************)
(* Proofs about Residency, for every set of keys and callers, every budget *)
(* and every bound: what is in use is neither destroyed nor loaded twice,  *)
(* nothing stays charged that left the registry, the cleanup thread keeps  *)
(* to its timeout, the registry implements SingleFlight, and the budget    *)
(* counts exactly what is charged.                                         *)
(***************************************************************************)
EXTENDS Residency, TLAPS

Shared == INSTANCE SingleFlight WITH
  Loads <- Flights, cache <- entries, ready <- Ready, using <- Using

\* The constants: 0 stands for no key, and the calls and the timeout are numbers.
Sized == 0 \notin Keys /\ MaxClock \in Nat /\ Timeout \in Nat

\* Where a caller is in its load; a destructor it runs is on its way there.
Position(c) == IF at[c] = "destroy" THEN resume[c] ELSE at[c]
Loaders == {"loading", "loaded", "unloadable"}
Within == Loaders \union {"joined", "leased"}

Typed ==
  /\ clock \in 0 .. MaxClock /\ manager \in BOOLEAN
  /\ entries \in [Keys -> 0 .. MaxClock]
  /\ name \in [Flights -> Keys \union {0}] /\ result \in [Flights -> {"none", "ok", "failed"}]
  /\ retained \in [Flights -> SUBSET {"pin", "keepalive"}] /\ busy \subseteq Flights
  /\ at \in [Callers -> Within \union {"idle", "lookup", "destroy"}]
  /\ resume \in [Callers -> {"idle", "lookup", "loading", "leased"}]
  /\ key \in [Callers -> Keys \union {0}] /\ flight \in [Callers -> 0 .. MaxClock]
  /\ victim \in [Callers -> 0 .. MaxClock] /\ dying \subseteq Flights

\* The locals of a caller, and what it knows of its flight.
Placed ==
  \A c \in Callers :
    /\ Position(c) = "idle" => key[c] = 0
    /\ Position(c) = "lookup" => key[c] \in Keys
    /\ Position(c) \in {"idle", "lookup"} => flight[c] = 0
    /\ Position(c) \in Within => /\ key[c] \in Keys /\ flight[c] \in 1 .. clock
                                 /\ name[flight[c]] = key[c]
    /\ Position(c) \in Loaders => result[flight[c]] = "none"
    /\ Position(c) = "leased" => result[flight[c]] = "ok"
    /\ victim[c] # 0 <=> at[c] = "destroy"

\* Flights that no lookup has opened yet are in no entry, and nor are failed ones.
Fresh ==
  /\ \A f \in Flights : f > clock => result[f] = "none"
  /\ \A k \in Keys : entries[k] # 0 => /\ entries[k] <= clock /\ name[entries[k]] = k
                                       /\ result[entries[k]] # "failed"

\* A load is run by one caller, and the entry of a running load by somebody.
Loading ==
  /\ \A c, d \in Callers : /\ Position(c) \in Loaders /\ Position(d) \in Loaders
                           /\ flight[c] = flight[d]
                         => c = d
  /\ \A k \in Keys : entries[k] # 0 /\ result[entries[k]] = "none"
                       => \E c \in Callers : Position(c) \in Loaders /\ flight[c] = entries[k]

\* What is pinned, kept alive, busy or on its way out was loaded; while the manager lives,
\* what is in use is in the registry.
Kept ==
  /\ \A f \in Flights : retained[f] # {} \/ f \in busy => result[f] = "ok"
  /\ \A f \in Flights : manager /\ result[f] # "failed" /\ (Held(f) \/ f \in busy)
                          => name[f] \in Keys /\ entries[name[f]] = f
  /\ ~manager => /\ \A c \in Callers : at[c] \in {"idle", "leased"}
                 /\ \A k \in Keys : entries[k] = 0

\* What is on its way out is out of the registry and out of use.
Leaving(f) == f \in dying \/ \E c \in Callers : victim[c] = f
Gone ==
  \A f \in Flights : Leaving(f) => /\ result[f] = "ok" /\ ~Held(f) /\ f \notin busy
                                   /\ \A k \in Keys : entries[k] # f

Inv == Sized /\ Typed /\ Placed /\ Fresh /\ Loading /\ Kept /\ Gone

\* Only what exists is charged.
Charged ==
  /\ charge \in [Flights -> Int]
  /\ \A c \in Callers : at[c] = "unloadable" => charge[flight[c]] = 0
  /\ NothingLeaks

\* A resource seen idle is out of use since its last use, which ended before.
Unused ==
  /\ passes \in Nat
  /\ idle_since \in [Flights -> Nat] /\ active \in [Flights -> Nat]
  /\ \A f \in Flights : active[f] <= passes + 1 /\ idle_since[f] <= passes
  /\ \A f \in Flights : idle_since[f] # 0 => /\ result[f] = "ok" /\ ~Held(f) /\ f \notin busy
                                             /\ active[f] <= idle_since[f]
-----------------------------------------------------------------------------
LEMMA InvInit == Sized /\ Init => Inv
  BY DEF Sized, Init, Inv, Typed, Placed, Fresh, Loading, Kept, Gone, Leaving, Held, Position,
         Loaders, Within, Flights

\* What the flights of callers, pins and entries are.
LEMMA FlightTypes ==
  ASSUME Inv
  PROVE  /\ \A c \in Callers : flight[c] # 0 => flight[c] \in Flights
         /\ \A k \in Keys : entries[k] # 0 => entries[k] \in Flights
         /\ \A c \in Callers : victim[c] # 0 => victim[c] \in Flights
         /\ \A c \in Callers : Position(c) \in Within => flight[c] \in Flights /\ flight[c] # 0
         /\ \A c \in Callers : flight[c] # 0 => Position(c) \in Within
         /\ \A f \in Flights : f # 0 /\ f \in Int /\ f <= MaxClock
<1>1. \A c \in Callers : Position(c) \in Within \union {"idle", "lookup"}
  BY Zenon DEF Inv, Typed, Position, Within, Loaders
<1> QED
  BY <1>1 DEF Inv, Sized, Typed, Placed, Flights, Within, Loaders

\* Steps that let go of something or only move a loader on.
LEMMA QuietInv ==
  ASSUME Inv, Typed', UNCHANGED <<clock, manager, entries, name, result, key, flight>>,
         \A c \in Callers : /\ \/ Position(c)' = Position(c)
                               \/ Position(c) \in Loaders /\ Position(c)' \in Loaders
                            /\ victim'[c] # 0 <=> at'[c] = "destroy"
                            /\ manager \/ at'[c] \in {"idle", "leased"},
         busy' \subseteq busy,
         \A f \in Flights : retained'[f] \subseteq retained[f] /\ (Leaving(f)' => Leaving(f))
  PROVE  Inv'
<1>1. Placed'
  BY DEF Inv, Placed, Within, Loaders
<1>2. Fresh' /\ Sized'
  BY Zenon DEF Inv, Fresh, Sized
<1>3. Loading'
  BY Zenon DEF Inv, Loading, Loaders
<1>4. \A f \in Flights : Held(f)' => Held(f)
  BY Zenon DEF Held
<1>5. Kept'
  BY Zenon, <1>4 DEF Inv, Kept
<1>6. Gone'
  BY Zenon, <1>4 DEF Inv, Gone
<1> QED
  BY Zenon, <1>1, <1>2, <1>3, <1>5, <1>6 DEF Inv

\* An idle resource leaves the registry into the hands of a caller.
LEMMA RemoveInv ==
  ASSUME Inv, manager, NEW c \in Callers, NEW k \in Keys, IsEvictable(entries[k]),
         at[c] \in {"idle", "lookup", "loading", "leased"}, Remove(c, k, at[c]),
         clock' \in 0 .. MaxClock, clock <= clock',
         UNCHANGED <<manager, name, result, retained, busy, key, flight, dying>>
  PROVE  Inv'
<1> DEFINE f == entries[k]
<1>1. f \in Flights /\ f # 0 /\ result[f] = "ok" /\ ~Held(f) /\ f \notin busy /\ name[f] = k
  BY Zenon, FlightTypes DEF IsEvictable, Inv, Fresh
<1>2. /\ entries' = [entries EXCEPT ![k] = 0] /\ victim' = [victim EXCEPT ![c] = f]
      /\ resume' = [resume EXCEPT ![c] = at[c]] /\ at' = [at EXCEPT ![c] = "destroy"]
  BY Zenon DEF Remove, Go
<1> HIDE DEF f
<1>3. Typed'
  BY <1>1, <1>2 DEF Inv, Sized, Typed, Flights
<1>4. \A d \in Callers : Position(d)' = Position(d) /\ (victim'[d] # 0 <=> at'[d] = "destroy")
  BY <1>1, <1>2 DEF Inv, Typed, Placed, Position
<1>5. Placed'
  <2>1. clock \in Int /\ clock' \in Int /\ \A d \in Callers : flight[d] \in Int
    BY DEF Inv, Typed
  <2> QED
    BY <1>4, <2>1 DEF Inv, Placed
<1>6. \A j \in Keys : entries'[j] = IF j = k THEN 0 ELSE entries[j]
  BY Zenon, <1>2 DEF Inv, Typed
<1>7. Fresh' /\ Sized'
  <2>1. clock \in Int /\ clock' \in Int /\ \A j \in Keys : entries[j] \in Int
    BY DEF Inv, Typed
  <2> QED
    BY <1>6, <2>1 DEF Inv, Fresh, Sized, Flights
<1>8. Loading'
  BY <1>4, <1>6 DEF Inv, Loading
<1>9. \A g \in Flights : Held(g)' <=> Held(g)
  BY Zenon DEF Held
<1>10. Kept'
  <2>1. \A g \in Flights : Held(g) \/ g \in busy => g # f
    BY Zenon, <1>1
  <2>2. \A g \in Flights : (Held(g) \/ g \in busy) /\ result[g] # "failed" => name[g] # k
    BY Zenon, <2>1 DEF Inv, Kept, f
  <2> QED
    BY Zenon, <1>6, <1>9, <2>2 DEF Inv, Kept
<1>11. Gone'
  <2>1. \A g \in Flights : Leaving(g)' => Leaving(g) \/ g = f
    BY Zenon, <1>2 DEF Leaving, Inv, Typed
  <2>2. \A j \in Keys : entries'[j] # f
    BY <1>1, <1>6 DEF Inv, Fresh
  <2> QED
    BY <1>1, <1>6, <1>9, <2>1, <2>2, FlightTypes DEF Inv, Gone
<1> QED
  BY Zenon, <1>3, <1>5, <1>7, <1>8, <1>10, <1>11 DEF Inv

LEMMA LoadInv ==
  ASSUME Inv, NEW c \in Callers, NEW k \in Keys, Load(c, k)
  PROVE  Inv'
<1>1. /\ at[c] = "idle" /\ manager /\ key' = [key EXCEPT ![c] = k]
      /\ at' = [at EXCEPT ![c] = "lookup"]
      /\ UNCHANGED <<entries, clock, manager, name, result, retained, busy, flight, victim, resume,
                     dying>>
  BY Zenon DEF Load, Go, flightVars, evictVars, cleanVars
<1>2. Typed'
  BY Zenon, <1>1 DEF Inv, Typed
<1>3. /\ Position(c) = "idle" /\ Position(c)' = "lookup" /\ victim[c] = 0 /\ at'[c] = "lookup"
      /\ \A d \in Callers : d # c => Position(d)' = Position(d) /\ at'[d] = at[d] /\ key'[d] = key[d]
      /\ key'[c] = k
  BY <1>1 DEF Inv, Typed, Placed, Position
<1>4. Placed'
  BY <1>1, <1>3 DEF Inv, Placed, Within, Loaders
<1>5. Fresh' /\ Sized'
  BY Zenon, <1>1 DEF Inv, Fresh, Sized
<1>6. Loading'
  BY <1>1, <1>3 DEF Inv, Loading, Loaders
<1>7. Kept'
  BY Zenon, <1>1, <1>3 DEF Inv, Kept, Held
<1>8. Gone'
  BY Zenon, <1>1 DEF Inv, Gone, Held, Leaving
<1> QED
  BY Zenon, <1>2, <1>4, <1>5, <1>6, <1>7, <1>8 DEF Inv

\* While somebody looks up or loads, the manager lives and the entry of a load is there.
LEMMA ManagerLives ==
  ASSUME Inv, NEW c \in Callers, at[c] \notin {"idle", "leased"}
  PROVE  manager /\ (Position(c) \in Loaders => entries[key[c]] = flight[c])
<1>1. manager
  BY Zenon DEF Inv, Kept
<1>2. ASSUME Position(c) \in Loaders PROVE entries[key[c]] = flight[c]
  <2>1. /\ flight[c] \in Flights /\ name[flight[c]] = key[c] /\ result[flight[c]] = "none"
        /\ Held(flight[c])
    BY Zenon, <1>2, FlightTypes DEF Inv, Placed, Within, Held
  <2> QED
    BY Zenon, <1>1, <2>1 DEF Inv, Kept
<1> QED
  BY Zenon, <1>1, <1>2

LEMMA HitInv ==
  ASSUME Inv, NEW c \in Callers, Hit(c)
  PROVE  Inv'
<1> DEFINE f == entries[key[c]]
<1>1. /\ at[c] = "lookup" /\ clock < MaxClock /\ clock' = clock + 1 /\ f # 0
      /\ flight' = [flight EXCEPT ![c] = f]
      /\ UNCHANGED <<entries, manager, name, result, retained, busy, key, victim, resume, dying>>
  BY Zenon DEF Hit, Lookup, flightVars, evictVars, cleanVars
<1>2. PICK to \in {"joined", "leased"} : /\ at' = [at EXCEPT ![c] = to]
                                         /\ to = "leased" => result[f] = "ok"
  BY Zenon DEF Hit, Go
<1>3. Position(c) = "lookup" /\ key[c] \in Keys /\ manager
  BY Zenon, <1>1, ManagerLives DEF Inv, Placed, Position
<1>4. f \in Flights /\ name[f] = key[c] /\ f <= clock /\ clock \in Nat /\ result[f] # "failed"
  BY <1>1, <1>3, FlightTypes DEF Inv, Fresh, Typed
<1>5. entries[key[c]] = f
  BY Zenon
<1> HIDE DEF f
<1>6. Typed'
  BY <1>1, <1>2, <1>4 DEF Inv, Sized, Typed, Flights, Within
<1>7. /\ Position(c)' = to /\ flight'[c] = f /\ victim[c] = 0 /\ at'[c] = to
      /\ \A d \in Callers : d # c => /\ Position(d)' = Position(d) /\ flight'[d] = flight[d]
                                     /\ at'[d] = at[d]
  BY <1>1, <1>2 DEF Inv, Typed, Placed, Position
<1>8. Placed'
  <2>1. \A d \in Callers : flight[d] \in Int
    BY DEF Inv, Typed
  <2> QED
    BY <1>1, <1>2, <1>3, <1>4, <1>7, <2>1 DEF Inv, Placed, Within, Loaders, Flights
<1>9. Fresh' /\ Sized'
  <2>1. \A k \in Keys : entries[k] \in Int
    BY DEF Inv, Typed
  <2> QED
    BY <1>1, <1>4, <2>1 DEF Inv, Fresh, Sized, Flights
<1>10. Loading'
  BY <1>1, <1>2, <1>3, <1>7 DEF Inv, Loading, Loaders
<1>11. \A g \in Flights : Held(g)' => Held(g) \/ g = f
  BY Zenon, <1>1, <1>7 DEF Held
<1>12. Kept'
  BY <1>1, <1>3, <1>4, <1>5, <1>11 DEF Inv, Kept
<1>13. Gone'
  <2>1. ~Leaving(f)
    BY Zenon, <1>3, <1>4, <1>5 DEF Inv, Gone
  <2>2. \A g \in Flights : Leaving(g)' <=> Leaving(g)
    BY Zenon, <1>1 DEF Leaving
  <2> QED
    BY Zenon, <1>1, <1>11, <2>1, <2>2 DEF Inv, Gone
<1> QED
  BY Zenon, <1>6, <1>8, <1>9, <1>10, <1>12, <1>13 DEF Inv

LEMMA ElectInv ==
  ASSUME Inv, NEW c \in Callers, Elect(c)
  PROVE  Inv'
<1> DEFINE f == clock + 1
           k == key[c]
<1>1. /\ at[c] = "lookup" /\ clock < MaxClock /\ clock' = f /\ entries[k] = 0
      /\ name' = [name EXCEPT ![f] = k] /\ entries' = [entries EXCEPT ![k] = f]
      /\ flight' = [flight EXCEPT ![c] = f] /\ at' = [at EXCEPT ![c] = "loading"]
      /\ UNCHANGED <<manager, result, retained, busy, key, victim, resume, dying>>
  BY Zenon DEF Elect, Lookup, Go, flightVars, evictVars, cleanVars
<1>2. Position(c) = "lookup" /\ k \in Keys /\ manager
  BY Zenon, <1>1, ManagerLives DEF Inv, Placed, Position
<1>3. /\ clock \in Nat /\ f \in Flights /\ f > clock /\ f = clock + 1
      /\ \A d \in Callers : flight[d] \in Nat /\ flight[d] <= clock
      /\ \A j \in Keys : entries[j] \in Nat /\ entries[j] <= clock
  <2>1. clock \in Nat /\ f \in Flights /\ f > clock
    BY <1>1 DEF Inv, Typed, Sized, Flights
  <2>2. \A d \in Callers : flight[d] \in Nat /\ flight[d] <= clock
    BY <2>1, FlightTypes DEF Inv, Typed, Placed
  <2>3. \A j \in Keys : entries[j] \in Nat /\ entries[j] <= clock
    BY <2>1 DEF Inv, Typed, Fresh
  <2> QED
    BY Zenon, <2>1, <2>2, <2>3
<1>4. result[f] = "none" /\ retained[f] = {} /\ f \notin busy /\ ~Leaving(f)
  BY Zenon, <1>3 DEF Inv, Fresh, Kept, Gone
<1>5. key[c] = k
  BY Zenon
<1> HIDE DEF f, k
<1>6. Typed'
  BY <1>1, <1>2, <1>3 DEF Inv, Sized, Typed, Flights, Within, Loaders
<1>7. /\ Position(c)' = "loading" /\ flight'[c] = f /\ victim[c] = 0 /\ at'[c] = "loading"
      /\ \A d \in Callers : d # c => /\ Position(d)' = Position(d) /\ flight'[d] = flight[d]
                                     /\ at'[d] = at[d]
      /\ \A g \in Flights : name'[g] = IF g = f THEN k ELSE name[g]
      /\ \A j \in Keys : entries'[j] = IF j = k THEN f ELSE entries[j]
  BY <1>1, <1>2, <1>3 DEF Inv, Typed, Placed, Position
<1>8. \A d \in Callers : flight[d] # f
  BY <1>3
<1>9. Placed'
  BY <1>1, <1>2, <1>3, <1>4, <1>5, <1>7, <1>8, FlightTypes DEF Inv, Placed, Within, Loaders
<1>10. Fresh' /\ Sized'
  BY <1>1, <1>3, <1>4, <1>7, FlightTypes DEF Inv, Fresh, Sized, Flights
<1>11. Loading'
  <2>1. \A d, e \in Callers : Position(d)' \in Loaders /\ Position(e)' \in Loaders
                                /\ flight'[d] = flight'[e] => d = e
    BY <1>7, <1>8 DEF Inv, Loading
  <2>2. \A j \in Keys : entries'[j] # 0 /\ result'[entries'[j]] = "none"
                          => \E d \in Callers : Position(d)' \in Loaders /\ flight'[d] = entries'[j]
    <3> SUFFICES ASSUME NEW j \in Keys, entries'[j] # 0, result'[entries'[j]] = "none"
                 PROVE  \E d \in Callers : Position(d)' \in Loaders /\ flight'[d] = entries'[j]
      BY Zenon
    <3>1. CASE j = k
      BY Zenon, <3>1, <1>7 DEF Loaders
    <3>2. CASE j # k
      <4>1. PICK d \in Callers : Position(d) \in Loaders /\ flight[d] = entries[j]
        BY <1>1, <1>7, <3>2 DEF Inv, Loading
      <4>2. d # c
        BY Zenon, <1>2, <4>1 DEF Loaders
      <4> QED
        BY <1>7, <3>2, <4>1, <4>2
    <3> QED
      BY Zenon, <3>1, <3>2
  <2> QED
    BY Zenon, <2>1, <2>2 DEF Loading
<1>12. \A g \in Flights : Held(g)' => Held(g) \/ g = f
  BY Zenon, <1>1, <1>7 DEF Held
<1>13. Kept'
  <2>1. \A g \in Flights : g # f /\ result[g] # "failed" /\ (Held(g) \/ g \in busy) => name[g] # k
    BY <1>1, <1>2, FlightTypes DEF Inv, Kept
  <2> QED
    BY <1>1, <1>2, <1>4, <1>7, <1>12, <2>1 DEF Inv, Kept
<1>14. Gone'
  <2>1. \A g \in Flights : Leaving(g)' <=> Leaving(g)
    BY Zenon, <1>1 DEF Leaving
  <2> QED
    BY <1>1, <1>4, <1>7, <1>12, <2>1 DEF Inv, Gone
<1> QED
  BY Zenon, <1>6, <1>9, <1>10, <1>11, <1>13, <1>14 DEF Inv

\* A caller gives up or lets go of its lease, after which the resource may stay busy.
LEMMA LeaveInv ==
  ASSUME Inv, NEW c \in Callers, at[c] \in {"lookup", "joined", "leased"},
         at' = [at EXCEPT ![c] = "idle"], key' = [key EXCEPT ![c] = 0],
         flight' = [flight EXCEPT ![c] = 0],
         clock' \in 0 .. MaxClock, clock <= clock',
         busy' \subseteq busy \/ (at[c] = "leased" /\ busy' = busy \union {flight[c]}),
         UNCHANGED <<entries, manager, name, result, retained, victim, resume, dying>>
  PROVE  Inv'
<1>1. /\ Position(c)' = "idle" /\ Position(c) = at[c] /\ victim[c] = 0
      /\ at'[c] = "idle" /\ key'[c] = 0 /\ flight'[c] = 0
      /\ \A d \in Callers : d # c => /\ Position(d)' = Position(d) /\ flight'[d] = flight[d]
                                     /\ key'[d] = key[d] /\ at'[d] = at[d]
  BY DEF Inv, Typed, Placed, Position
<1>2. at[c] = "leased" => flight[c] \in Flights /\ result[flight[c]] = "ok" /\ Held(flight[c])
  BY <1>1, FlightTypes DEF Inv, Placed, Within, Held
<1>3. Typed'
  BY <1>2 DEF Inv, Sized, Typed
<1>4. clock \in Int /\ clock' \in Int /\ \A d \in Callers : flight[d] \in Int
  BY DEF Inv, Typed
<1>5. Placed'
  BY <1>1, <1>4 DEF Inv, Placed, Within, Loaders
<1>6. Fresh' /\ Sized'
  <2>1. \A k \in Keys : entries[k] \in Int
    BY DEF Inv, Typed
  <2> QED
    BY <1>4, <2>1 DEF Inv, Fresh, Sized, Flights
<1>7. Loading'
  BY <1>1 DEF Inv, Loading, Loaders
<1>8. \A g \in Flights : Held(g)' => Held(g)
  BY <1>1, FlightTypes DEF Held
<1>9. Kept'
  BY <1>1, <1>2, <1>8 DEF Inv, Kept
<1>10. Gone'
  <2>1. \A g \in Flights : Leaving(g)' <=> Leaving(g)
    BY Zenon DEF Leaving
  <2> QED
    BY Zenon, <1>2, <1>8, <2>1 DEF Inv, Gone
<1> QED
  BY Zenon, <1>3, <1>5, <1>6, <1>7, <1>9, <1>10 DEF Inv

LEMMA EvictIdleEvictable ==
  ASSUME NEW k \in EvictIdle
  PROVE  k \in Keys /\ manager /\ IsEvictable(entries[k])
  BY Zenon DEF EvictIdle, Idle

LEMMA MakeRoomInv ==
  ASSUME Inv, NEW c \in Callers, MakeRoom(c)
  PROVE  Inv'
<1>1. /\ at[c] = "lookup" /\ clock' \in 0 .. MaxClock /\ clock <= clock'
      /\ UNCHANGED <<manager, name, result, retained, busy, flight, dying>>
  BY DEF MakeRoom, Lookup, flightVars, cleanVars, Inv, Typed, Sized
<1>2. \/ \E k \in EvictIdle : Remove(c, k, "lookup") /\ UNCHANGED key
      \/ /\ at' = [at EXCEPT ![c] = "idle"] /\ key' = [key EXCEPT ![c] = 0]
         /\ UNCHANGED <<entries, victim, resume>>
  BY Zenon DEF MakeRoom, Go, evictVars
<1>3. flight' = [flight EXCEPT ![c] = 0]
  BY <1>1 DEF Inv, Typed, Placed, Position
<1> QED
  BY Zenon, <1>1, <1>2, <1>3, EvictIdleEvictable, RemoveInv, LeaveInv

LEMMA LoadedInv ==
  ASSUME Inv, NEW c \in Callers, NEW ok \in BOOLEAN, Loaded(c, ok)
  PROVE  Inv'
<1>1. /\ at[c] = "loading"
      /\ UNCHANGED <<entries, clock, manager, name, result, retained, busy, key, flight, victim,
                     resume, dying>>
  BY Zenon DEF Loaded, flightVars, callerVars, evictVars, cleanVars
<1>2. PICK to \in {"loaded", "unloadable"} : at' = [at EXCEPT ![c] = to]
  BY Zenon DEF Loaded, Go
<1>3. Typed'
  BY Zenon, <1>1, <1>2 DEF Inv, Typed, Within, Loaders
<1>4. /\ \A d \in Callers : d # c => at'[d] = at[d] /\ Position(d)' = Position(d)
      /\ at'[c] = to /\ Position(c) = "loading" /\ Position(c)' = to /\ victim[c] = 0
  BY <1>1, <1>2 DEF Inv, Typed, Placed, Position
<1>5. \A f \in Flights : Leaving(f)' => Leaving(f)
  BY Zenon, <1>1 DEF Leaving
<1>6. manager
  BY Zenon, <1>1, ManagerLives
<1>7. \A d \in Callers : victim'[d] # 0 <=> at'[d] = "destroy"
  BY <1>1, <1>2, <1>4 DEF Inv, Placed
<1> QED
  BY Zenon, <1>1, <1>3, <1>4, <1>5, <1>6, <1>7, QuietInv DEF Loaders

LEMMA PublishInv ==
  ASSUME Inv, NEW c \in Callers, Publish(c)
  PROVE  Inv'
<1> DEFINE f == flight[c]
           k == key[c]
<1>1. at[c] \in {"loaded", "unloadable"}
  BY Zenon DEF Publish
<1>2. /\ Position(c) = at[c] /\ Position(c) \in Loaders /\ k \in Keys /\ f \in Flights /\ f # 0
      /\ name[f] = k /\ result[f] = "none" /\ manager /\ entries[k] = f /\ victim[c] = 0
  BY Zenon, <1>1, ManagerLives, FlightTypes DEF Inv, Placed, Position, Loaders, Within
<1>3. retained[f] = {} /\ f \notin busy /\ ~Leaving(f)
  BY Zenon, <1>2 DEF Inv, Kept, Gone
<1>4. \A d \in Callers : d # c /\ Position(d) \in Loaders => flight[d] # f
  BY Zenon, <1>2 DEF Inv, Loading
<1>5. \A d \in Callers : Position(d) = "leased" => flight[d] # f
  BY Zenon, <1>2 DEF Inv, Placed
<1>6. key[c] = k /\ flight[c] = f
  BY Zenon
<1>7. CASE at[c] = "loaded"
  <2>1. /\ result' = [result EXCEPT ![f] = "ok"] /\ at' = [at EXCEPT ![c] = "leased"]
        /\ UNCHANGED <<entries, clock, manager, name, retained, busy, key, flight, victim, resume,
                       dying>>
    BY Zenon, <1>7 DEF Publish, Go, callerVars, evictVars, cleanVars
  <2> HIDE DEF f, k
  <2>2. Typed'
    BY Zenon, <1>2, <2>1 DEF Inv, Typed, Within
  <2>3. /\ Position(c)' = "leased" /\ at'[c] = "leased"
        /\ \A d \in Callers : d # c => Position(d)' = Position(d) /\ at'[d] = at[d]
        /\ \A g \in Flights : result'[g] = IF g = f THEN "ok" ELSE result[g]
    BY Zenon, <1>2, <2>1 DEF Inv, Typed, Position
  <2>4. Placed'
    BY <1>2, <1>4, <1>6, <2>1, <2>3, FlightTypes DEF Inv, Placed, Within, Loaders
  <2>5. Fresh' /\ Sized'
    <3>1. ~(f > clock)
      BY <1>2, <1>6 DEF Inv, Typed, Placed, Within
    <3> QED
      BY <2>1, <2>3, <3>1, FlightTypes DEF Inv, Fresh, Sized
  <2>6. Loading'
    BY <1>2, <1>6, <2>1, <2>3, FlightTypes DEF Inv, Loading, Loaders
  <2>7. \A g \in Flights : (Held(g)' <=> Held(g)) /\ (Leaving(g)' <=> Leaving(g))
    BY Zenon, <2>1 DEF Held, Leaving
  <2>8. Kept'
    BY <1>2, <2>1, <2>3, <2>7 DEF Inv, Kept
  <2>9. Gone'
    BY <1>3, <2>1, <2>3, <2>7 DEF Inv, Gone
  <2> QED
    BY Zenon, <2>2, <2>4, <2>5, <2>6, <2>8, <2>9 DEF Inv
<1>8. CASE at[c] = "unloadable"
  <2>1. /\ result' = [result EXCEPT ![f] = "failed"] /\ at' = [at EXCEPT ![c] = "idle"]
        /\ entries' = [entries EXCEPT ![k] = 0]
        /\ key' = [key EXCEPT ![c] = 0] /\ flight' = [flight EXCEPT ![c] = 0]
        /\ UNCHANGED <<clock, manager, name, retained, busy, victim, resume, dying>>
    BY Zenon, <1>8 DEF Publish, Leave, Go, callerVars, evictVars, cleanVars
  <2> HIDE DEF f, k
  <2>2. Typed'
    BY Zenon, <1>2, <2>1 DEF Inv, Sized, Typed, Within
  <2>3. /\ Position(c)' = "idle" /\ at'[c] = "idle" /\ key'[c] = 0 /\ flight'[c] = 0
        /\ \A d \in Callers : d # c => /\ Position(d)' = Position(d) /\ at'[d] = at[d]
                                       /\ key'[d] = key[d] /\ flight'[d] = flight[d]
        /\ \A g \in Flights : result'[g] = IF g = f THEN "failed" ELSE result[g]
        /\ \A j \in Keys : entries'[j] = IF j = k THEN 0 ELSE entries[j]
    BY Zenon, <1>2, <2>1 DEF Inv, Typed, Position
  <2>4. Placed'
    BY <1>2, <1>4, <1>5, <2>1, <2>3, FlightTypes DEF Inv, Placed, Within, Loaders
  <2>5. \A j \in Keys : entries'[j] # f
    BY <1>2, <2>3 DEF Inv, Fresh
  <2>6. Fresh' /\ Sized'
    <3>1. ~(f > clock)
      BY <1>2, <1>6 DEF Inv, Typed, Placed, Within
    <3> QED
      BY <2>1, <2>3, <2>5, <3>1, FlightTypes DEF Inv, Fresh, Sized
  <2>7. Loading'
    <3>1. \A d, e \in Callers : Position(d)' \in Loaders /\ Position(e)' \in Loaders
                                  /\ flight'[d] = flight'[e] => d = e
      BY <2>3 DEF Inv, Loading, Loaders
    <3>2. ASSUME NEW j \in Keys, entries'[j] # 0, result'[entries'[j]] = "none"
          PROVE  \E d \in Callers : Position(d)' \in Loaders /\ flight'[d] = entries'[j]
      <4>1. entries'[j] = entries[j] /\ entries[j] # f /\ result[entries[j]] = "none"
        BY <2>3, <2>5, <3>2, FlightTypes
      <4>2. PICK d \in Callers : Position(d) \in Loaders /\ flight[d] = entries[j]
        BY Zenon, <3>2, <4>1 DEF Inv, Loading
      <4> QED
        BY Zenon, <1>6, <2>3, <4>1, <4>2
    <3> QED
      BY Zenon, <3>1, <3>2 DEF Loading
  <2>8. \A g \in Flights : (Held(g)' => Held(g)) /\ (Leaving(g)' <=> Leaving(g))
    BY Zenon, <2>1, <2>3, FlightTypes DEF Held, Leaving
  <2>9. Kept'
    <3>1. \A g \in Flights : g # f /\ result[g] # "failed" /\ (Held(g) \/ g \in busy) => name[g] # k
      BY Zenon, <1>2 DEF Inv, Kept
    <3> QED
      BY <1>2, <1>3, <2>1, <2>3, <2>8, <3>1 DEF Inv, Kept
  <2>10. Gone'
    BY <1>3, <2>1, <2>3, <2>8, FlightTypes DEF Inv, Gone
  <2> QED
    BY Zenon, <2>2, <2>4, <2>6, <2>7, <2>9, <2>10 DEF Inv
<1> QED
  BY Zenon, <1>1, <1>7, <1>8

LEMMA JoinedInv ==
  ASSUME Inv, NEW c \in Callers, Joined(c)
  PROVE  Inv'
<1>1. /\ at[c] = "joined"
      /\ UNCHANGED <<entries, clock, manager, name, result, retained, busy, victim, resume, dying>>
  BY Zenon DEF Joined, flightVars, evictVars, cleanVars
<1>2. clock' \in 0 .. MaxClock /\ clock <= clock'
  BY <1>1 DEF Inv, Typed
<1>3. CASE result[flight[c]] = "ok"
  <2>1. at' = [at EXCEPT ![c] = "leased"] /\ UNCHANGED <<key, flight>>
    BY Zenon, <1>3 DEF Joined, Go, callerVars
  <2>2. Typed'
    BY Zenon, <1>1, <2>1 DEF Inv, Typed, Within
  <2>3. /\ Position(c) = "joined" /\ Position(c)' = "leased" /\ at'[c] = "leased"
        /\ \A d \in Callers : d # c => Position(d)' = Position(d) /\ at'[d] = at[d]
    BY Zenon, <1>1, <2>1 DEF Inv, Typed, Position
  <2>4. Placed'
    BY <1>1, <1>3, <2>1, <2>3 DEF Inv, Placed, Within, Loaders
  <2>5. Fresh' /\ Sized'
    BY Zenon, <1>1 DEF Inv, Fresh, Sized
  <2>6. Loading'
    BY <1>1, <2>1, <2>3 DEF Inv, Loading, Loaders
  <2>7. \A g \in Flights : (Held(g)' <=> Held(g)) /\ (Leaving(g)' <=> Leaving(g))
    BY Zenon, <1>1, <2>1 DEF Held, Leaving
  <2>8. Kept' /\ Gone'
    BY Zenon, <1>1, <2>1, <2>3, <2>7 DEF Inv, Kept, Gone
  <2> QED
    BY Zenon, <2>2, <2>4, <2>5, <2>6, <2>8 DEF Inv
<1>4. CASE result[flight[c]] = "failed"
  <2>1. /\ at' = [at EXCEPT ![c] = "idle"] /\ key' = [key EXCEPT ![c] = 0]
        /\ flight' = [flight EXCEPT ![c] = 0]
    BY Zenon, <1>4 DEF Joined, Leave, Go
  <2> QED
    BY Zenon, <1>1, <1>2, <2>1, LeaveInv
<1> QED
  BY Zenon, <1>3, <1>4 DEF Joined

LEMMA LeaseInv ==
  ASSUME Inv, NEW c \in Callers,
         \/ \E working \in BOOLEAN : Release(c, working)
         \/ \E how \in {"pin", "keepalive"} : Retain(c, how)
  PROVE  Inv'
<1> DEFINE f == flight[c]
<1>1. at[c] = "leased"
  BY Zenon DEF Release, Retain
<1>2. f \in Flights /\ result[f] = "ok" /\ Held(f)
  BY Zenon, <1>1, FlightTypes DEF Inv, Placed, Position, Within, Held
<1>3. ASSUME NEW working \in BOOLEAN, Release(c, working) PROVE Inv'
  <2>1. /\ at' = [at EXCEPT ![c] = "idle"] /\ key' = [key EXCEPT ![c] = 0]
        /\ flight' = [flight EXCEPT ![c] = 0]
        /\ UNCHANGED <<entries, clock, manager, name, result, retained, victim, resume, dying>>
    BY Zenon, <1>3 DEF Release, Leave, Go, flightVars, evictVars, cleanVars
  <2>2. busy' \subseteq busy \/ busy' = busy \union {f}
    BY Zenon, <1>3 DEF Release, Forget
  <2>3. clock' \in 0 .. MaxClock /\ clock <= clock'
    BY <2>1 DEF Inv, Typed
  <2> QED
    BY Zenon, <1>1, <2>1, <2>2, <2>3, LeaveInv
<1>4. ASSUME NEW how \in {"pin", "keepalive"}, Retain(c, how) PROVE Inv'
  <2>1. /\ retained' = [retained EXCEPT ![f] = @ \union {how}]
        /\ UNCHANGED <<entries, clock, manager, name, result, busy, at, key, flight, victim, resume,
                       dying>>
    BY Zenon, <1>4 DEF Retain, flightVars, callerVars, evictVars, cleanVars
  <2> HIDE DEF f
  <2>2. Typed'
    BY Zenon, <1>2, <2>1 DEF Inv, Typed
  <2>3. Placed' /\ Loading'
    BY <2>1 DEF Inv, Placed, Loading, Position
  <2>4. Fresh' /\ Sized'
    BY Zenon, <2>1 DEF Inv, Fresh, Sized
  <2>5. \A g \in Flights : /\ retained'[g] # {} => retained[g] # {} \/ g = f
                           /\ Held(g)' => Held(g)
                           /\ Leaving(g)' <=> Leaving(g)
    BY Zenon, <1>2, <2>1 DEF Held, Leaving, Inv, Typed
  <2>6. Kept' /\ Gone'
    BY Zenon, <1>2, <2>1, <2>5 DEF Inv, Kept, Gone
  <2> QED
    BY Zenon, <2>2, <2>3, <2>4, <2>6 DEF Inv
<1> QED
  BY Zenon, <1>3, <1>4

\* Steps that leave the callers and the registry as they are.
LEMMA LettingGoInv ==
  ASSUME Inv, UNCHANGED <<entries, clock, manager, name, result, at, key, flight, victim, resume>>,
         busy' \subseteq busy, dying' \subseteq dying,
         \/ UNCHANGED retained
         \/ \E f \in Flights, how \in {"pin", "keepalive"} :
              retained' = [retained EXCEPT ![f] = @ \ {how}]
  PROVE  Inv'
<1>1. Typed'
  BY DEF Inv, Typed
<1>2. \A f \in Flights : retained'[f] \subseteq retained[f] /\ (Leaving(f)' => Leaving(f))
  BY DEF Inv, Typed, Leaving
<1>3. \A c \in Callers : Position(c)' = Position(c)
  BY Zenon DEF Position
<1> QED
  BY Zenon, <1>1, <1>2, <1>3, QuietInv DEF Inv, Placed, Kept

LEMMA DestroyInv ==
  ASSUME Inv, NEW c \in Callers, Destroy(c)
  PROVE  Inv'
<1>1. /\ at[c] = "destroy" /\ at' = [at EXCEPT ![c] = resume[c]]
      /\ victim' = [victim EXCEPT ![c] = 0] /\ resume' = [resume EXCEPT ![c] = "idle"]
      /\ UNCHANGED <<entries, clock, manager, name, result, retained, busy, key, flight, dying>>
  BY Zenon DEF Destroy, Go, flightVars, callerVars, cleanVars
<1>2. resume[c] \in {"idle", "lookup", "loading", "leased"}
  BY Zenon DEF Inv, Typed
<1>3. Typed'
  BY <1>1, <1>2 DEF Inv, Sized, Typed, Within, Loaders
<1>4. \A d \in Callers : Position(d)' = Position(d) /\ (victim'[d] # 0 <=> at'[d] = "destroy")
  BY <1>1, <1>2 DEF Inv, Typed, Placed, Position
<1>5. \A f \in Flights : Leaving(f)' => Leaving(f)
  BY Zenon, <1>1, FlightTypes DEF Inv, Typed, Leaving
<1>6. manager
  BY Zenon, <1>1, ManagerLives
<1> QED
  BY Zenon, <1>1, <1>3, <1>4, <1>5, <1>6, QuietInv

\* What a cleanup pass takes out of the registry.
LEMMA Collected ==
  ASSUME CollectExpired
  PROVE  \E expired : /\ \A f \in expired : f \in Flights /\ IsEvictable(f)
                      /\ dying' = expired /\ dying = {}
                      /\ entries' = [k \in Keys |-> IF entries[k] \in expired THEN 0 ELSE entries[k]]
<1> DEFINE since == [f \in Flights |-> IF f \notin Registered THEN idle_since[f]
                                       ELSE IF ~IsEvictable(f) THEN 0
                                       ELSE IF idle_since[f] = 0 THEN passes' ELSE idle_since[f]]
<1>1. \A f \in {f \in Registered : IsEvictable(f) /\ passes' - since[f] >= Timeout} :
        f \in Flights /\ IsEvictable(f)
  BY Zenon DEF Registered
<1> QED
  BY Zenon, <1>1 DEF CollectExpired

LEMMA CollectInv ==
  ASSUME Inv, CollectExpired
  PROVE  Inv'
<1>1. PICK expired : /\ \A f \in expired : f \in Flights /\ IsEvictable(f)
                     /\ dying' = expired /\ dying = {}
                     /\ entries' = [k \in Keys |-> IF entries[k] \in expired THEN 0 ELSE entries[k]]
  BY Zenon, Collected
<1>2. UNCHANGED <<clock, manager, name, result, retained, busy, at, key, flight, victim, resume>>
  BY Zenon DEF CollectExpired, flightVars, callerVars, evictVars
<1>3. manager
  BY Zenon DEF CollectExpired
<1>4. \A f \in expired : f \in Flights /\ result[f] = "ok" /\ ~Held(f) /\ f \notin busy
  BY Zenon, <1>1 DEF IsEvictable
<1>5. Typed'
  BY <1>1, <1>2 DEF Inv, Sized, Typed
<1>6. \A k \in Keys : entries'[k] = IF entries[k] \in expired THEN 0 ELSE entries[k]
  BY Zenon, <1>1
<1>7. \A c \in Callers : Position(c)' = Position(c)
  BY Zenon, <1>2 DEF Position
<1>8. Placed'
  BY <1>2, <1>7 DEF Inv, Placed
<1>9. Fresh' /\ Sized'
  BY Zenon, <1>2, <1>6 DEF Inv, Fresh, Sized
<1>10. Loading'
  BY <1>2, <1>6, <1>7 DEF Inv, Loading
<1>11. \A g \in Flights : (Held(g)' <=> Held(g)) /\ (Leaving(g)' => Leaving(g) \/ g \in expired)
  BY Zenon, <1>1, <1>2 DEF Held, Leaving
<1>12. Kept'
  BY <1>2, <1>3, <1>4, <1>6, <1>11 DEF Inv, Kept
<1>13. Gone'
  BY <1>2, <1>4, <1>6, <1>11, FlightTypes DEF Inv, Gone
<1> QED
  BY Zenon, <1>5, <1>8, <1>9, <1>10, <1>12, <1>13 DEF Inv

LEMMA DropManagerInv ==
  ASSUME Inv, DropManager
  PROVE  Inv'
<1>1. /\ manager' = FALSE /\ \A c \in Callers : at[c] \in {"idle", "leased"}
      /\ busy' \subseteq busy /\ entries' = [k \in Keys |-> 0]
      /\ UNCHANGED <<clock, name, result, retained, at, key, flight, victim, resume, dying>>
  BY Zenon DEF DropManager, flightVars, callerVars, evictVars, cleanVars
<1>2. Typed'
  <2>1. manager' \in BOOLEAN
    BY Zenon, <1>1
  <2>2. entries' \in [Keys -> 0 .. MaxClock]
    BY <1>1 DEF Inv, Sized
  <2>3. busy' \subseteq Flights
    BY Zenon, <1>1 DEF Inv, Typed
  <2> QED
    BY Zenon, <1>1, <2>1, <2>2, <2>3 DEF Inv, Typed
<1>3. \A c \in Callers : Position(c)' = Position(c)
  BY Zenon, <1>1 DEF Position
<1>4. Placed'
  BY <1>1, <1>3 DEF Inv, Placed
<1>5. Fresh' /\ Sized' /\ Loading'
  BY <1>1, <1>3 DEF Inv, Fresh, Sized, Loading
<1>6. \A g \in Flights : (Held(g)' <=> Held(g)) /\ (Leaving(g)' => Leaving(g)) /\ g # 0
  BY Zenon, <1>1, FlightTypes DEF Held, Leaving
<1>7. Kept' /\ Gone'
  BY Zenon, <1>1, <1>6 DEF Inv, Kept, Gone
<1> QED
  BY Zenon, <1>2, <1>4, <1>5, <1>7 DEF Inv

LEMMA StepInv == Inv /\ [Next]_vars => Inv'
<1> SUFFICES ASSUME Inv, [Next]_vars PROVE Inv'
  BY Zenon
<1> USE DEF flightVars, callerVars, evictVars, cleanVars
<1>1. ASSUME NEW c \in Callers, Advance(c) PROVE Inv'
  BY Zenon, <1>1, HitInv, ElectInv, MakeRoomInv, LoadedInv, PublishInv, JoinedInv, DestroyInv DEF Advance
<1>2. clock \in 0 .. MaxClock /\ clock <= clock
  BY DEF Inv, Typed
<1>3. ASSUME NEW c \in Callers, Reserve(c) PROVE Inv'
  <2>1. /\ at[c] \in {"loading", "leased"}
        /\ UNCHANGED <<clock, manager, name, result, retained, busy, key, flight, dying>>
    BY Zenon, <1>3 DEF Reserve
  <2>2. \/ UNCHANGED <<entries, at, victim, resume>>
        \/ \E k \in EvictIdle : Remove(c, k, at[c])
    BY Zenon, <1>3 DEF Reserve
  <2> QED
    BY Zenon, <1>2, <2>1, <2>2, LettingGoInv, EvictIdleEvictable, RemoveInv
<1>4. ASSUME NEW c \in Callers, NEW k \in Keys, Evict(c, k) PROVE Inv'
  BY Zenon, <1>2, <1>4, RemoveInv DEF Evict
<1>5. ASSUME NEW f \in Flights, Drained(f) PROVE Inv'
  BY Zenon, <1>5, LettingGoInv DEF Drained
<1>6. ASSUME NEW f \in Flights, NEW how \in {"pin", "keepalive"}, Unretain(f, how) PROVE Inv'
  BY Zenon, <1>6, LettingGoInv DEF Unretain, Forget
<1>7. CASE DestroyExpired \/ UNCHANGED vars
  BY Zenon, <1>7, LettingGoInv DEF DestroyExpired, vars
<1> QED
  BY Zenon, <1>1, <1>3, <1>4, <1>5, <1>6, <1>7, LoadInv, LeaseInv, CollectInv, DropManagerInv DEF Next
-----------------------------------------------------------------------------
(* Charges. *)

\* Steps that neither charge nor take anything out of the registry.
LEMMA ChargesQuiet ==
  ASSUME Inv, Charged, UNCHANGED <<charge, entries, manager, victim, dying>>,
         \A c \in Callers : at'[c] = "unloadable" => at[c] = "unloadable" /\ flight'[c] = flight[c],
         manager \/ \A f \in Flights : Held(f) => Held(f)'
  PROVE  Charged'
<1>1. NothingLeaks'
  BY Zenon DEF Charged, NothingLeaks
<1> QED
  BY Zenon, <1>1 DEF Charged

LEMMA RemoveCharges ==
  ASSUME Inv, Charged, NEW c \in Callers, NEW k \in Keys, at[c] # "destroy", Remove(c, k, at[c]),
         manager, UNCHANGED <<charge, manager, flight, dying>>
  PROVE  Charged'
<1>1. /\ entries' = [entries EXCEPT ![k] = 0] /\ victim' = [victim EXCEPT ![c] = entries[k]]
      /\ at' = [at EXCEPT ![c] = "destroy"]
  BY Zenon DEF Remove, Go
<1>2. victim[c] = 0
  BY Zenon DEF Inv, Placed
<1>3. /\ \A j \in Keys : entries'[j] = IF j = k THEN 0 ELSE entries[j]
      /\ \A d \in Callers : victim'[d] = IF d = c THEN entries[k] ELSE victim[d]
      /\ \A d \in Callers : at'[d] = "unloadable" => at[d] = "unloadable"
  BY Zenon, <1>1 DEF Inv, Typed
<1>4. NothingLeaks'
  <2> SUFFICES ASSUME NEW f \in Flights, charge[f] # 0
               PROVE  (\E j \in Keys : entries'[j] = f) \/ f \in dying \/ \E d \in Callers : victim'[d] = f
    BY Zenon DEF NothingLeaks
  <2>1. CASE \E j \in Keys : entries[j] = f
    BY Zenon, <1>3, <2>1
  <2>2. CASE \E d \in Callers : victim[d] = f
    BY Zenon, <1>2, <1>3, <2>2, FlightTypes
  <2> QED
    BY Zenon, <2>1, <2>2 DEF Charged, NothingLeaks
<1> QED
  BY Zenon, <1>3, <1>4 DEF Charged

LEMMA ElectCharges ==
  ASSUME Inv, Charged, Peak \in [Keys -> Int], NEW c \in Callers, Elect(c)
  PROVE  Charged'
<1> DEFINE f == clock + 1
           k == key[c]
<1>1. /\ at[c] = "lookup" /\ clock < MaxClock /\ entries[k] = 0
      /\ entries' = [entries EXCEPT ![k] = f] /\ flight' = [flight EXCEPT ![c] = f]
      /\ charge' = [charge EXCEPT ![f] = Peak[k]] /\ at' = [at EXCEPT ![c] = "loading"]
      /\ UNCHANGED <<manager, victim, dying>>
  BY Zenon DEF Elect, Lookup, Go, evictVars, cleanVars
<1>2. k \in Keys /\ manager /\ f \in Flights /\ \A d \in Callers : flight[d] # f
  <2>1. k \in Keys /\ manager
    BY Zenon, <1>1, ManagerLives DEF Inv, Placed, Position
  <2>2. f \in Flights
    BY <1>1 DEF Inv, Typed, Flights, Sized
  <2>3. \A d \in Callers : flight[d] # f
    BY FlightTypes DEF Inv, Typed, Placed
  <2> QED
    BY Zenon, <2>1, <2>2, <2>3
<1> HIDE DEF f, k
<1>3. /\ \A j \in Keys : entries'[j] = IF j = k THEN f ELSE entries[j]
      /\ \A g \in Flights : charge'[g] = IF g = f THEN Peak[k] ELSE charge[g]
      /\ \A d \in Callers : at'[d] = "unloadable" => at[d] = "unloadable" /\ flight'[d] = flight[d]
      /\ charge' \in [Flights -> Int]
  BY Zenon, <1>1, <1>2 DEF Inv, Typed, Charged
<1>4. NothingLeaks'
  <2> SUFFICES ASSUME NEW g \in Flights, charge'[g] # 0
               PROVE  (\E j \in Keys : entries'[j] = g) \/ g \in dying \/ \E d \in Callers : victim[d] = g
    BY Zenon, <1>1 DEF NothingLeaks
  <2>1. CASE g = f
    BY Zenon, <1>2, <1>3, <2>1
  <2>2. CASE g # f
    <3>1. (\E j \in Keys : entries[j] = g) \/ g \in dying \/ \E d \in Callers : victim[d] = g
      BY Zenon, <1>2, <1>3, <2>2 DEF Charged, NothingLeaks
    <3> QED
      BY <1>1, <1>3, <3>1, FlightTypes
  <2> QED
    BY Zenon, <2>1, <2>2
<1>5. \A d \in Callers : at'[d] = "unloadable" => charge'[flight'[d]] = 0
  BY <1>2, <1>3, FlightTypes DEF Charged, Inv, Position, Within, Loaders
<1> QED
  BY Zenon, <1>3, <1>4, <1>5 DEF Charged

LEMMA LoadedCharges ==
  ASSUME Inv, Charged, Peak \in [Keys -> Int], Resident \in [Keys -> Int],
         NEW c \in Callers, NEW ok \in BOOLEAN, Loaded(c, ok)
  PROVE  Charged'
<1> DEFINE f == flight[c]
<1>1. /\ at[c] = "loading" /\ UNCHANGED <<entries, manager, flight, victim, dying>>
      /\ at' = [at EXCEPT ![c] = IF ok THEN "loaded" ELSE "unloadable"]
      /\ charge' = [charge EXCEPT ![f] = IF ok THEN charge[f] - Peak[name[f]] + Resident[name[f]] ELSE 0]
  BY Zenon DEF Loaded, Go, callerVars, evictVars, cleanVars, Charged
<1>2. /\ f \in Flights /\ name[f] = key[c] /\ key[c] \in Keys /\ entries[key[c]] = f /\ manager
      /\ Position(c) = "loading"
  BY Zenon, <1>1, ManagerLives, FlightTypes DEF Inv, Placed, Position, Loaders, Within
<1>3. f = flight[c]
  BY Zenon
<1> HIDE DEF f
<1>4. /\ charge' \in [Flights -> Int] /\ \A g \in Flights : g # f => charge'[g] = charge[g]
      /\ ~ok => charge'[f] = 0
  BY <1>1, <1>2 DEF Charged
<1>5. NothingLeaks'
  BY Zenon, <1>1, <1>2, <1>4 DEF Charged, NothingLeaks
<1>6. ASSUME NEW d \in Callers, at'[d] = "unloadable" PROVE charge'[flight'[d]] = 0
  <2>1. CASE d = c
    BY Zenon, <1>1, <1>3, <1>4, <1>6, <2>1 DEF Inv, Typed
  <2>2. CASE d # c
    <3>1. at[d] = "unloadable"
      BY Zenon, <1>1, <1>6, <2>2 DEF Inv, Typed
    <3>2. Position(d) = "unloadable"
      BY Zenon, <3>1 DEF Position
    <3>3. flight[d] # f /\ flight[d] \in Flights
      BY Zenon, <1>2, <1>3, <2>2, <3>2, FlightTypes DEF Inv, Loading, Loaders, Within
    <3> QED
      BY Zenon, <1>1, <1>4, <3>1, <3>3 DEF Charged
  <2> QED
    BY Zenon, <2>1, <2>2
<1> QED
  BY Zenon, <1>4, <1>5, <1>6 DEF Charged

LEMMA ReserveCharges ==
  ASSUME Inv, Charged, Growth \in Int, NEW c \in Callers, Reserve(c)
  PROVE  Charged'
<1>1. at[c] \in {"loading", "leased"} /\ UNCHANGED <<manager, flight, dying, retained>>
  BY Zenon DEF Reserve, flightVars, callerVars, evictVars, cleanVars
<1>2. PICK f \in Flights : f = flight[c]
  BY Zenon, <1>1, FlightTypes DEF Position, Loaders, Within
<1>3. \/ charge' = [charge EXCEPT ![f] = charge[f] + Growth] /\ UNCHANGED <<entries, at, victim>>
      \/ (\E k \in EvictIdle : Remove(c, k, at[c])) /\ UNCHANGED charge
  BY Zenon, <1>2 DEF Reserve, evictVars, Charged
<1>4. Held(f) /\ result[f] # "failed" /\ Position(c) = at[c]
  BY Zenon, <1>1, <1>2 DEF Inv, Placed, Position, Loaders, Within, Held
<1>5. manager => \E k \in Keys : entries[k] = f
  BY Zenon, <1>4 DEF Inv, Kept
<1>6. CASE charge' = [charge EXCEPT ![f] = charge[f] + Growth] /\ UNCHANGED <<entries, at, victim>>
  <2>1. charge' \in [Flights -> Int] /\ \A g \in Flights : g # f => charge'[g] = charge[g]
    BY <1>6 DEF Charged
  <2>2. \A g \in Flights : Held(g)' <=> Held(g)
    BY Zenon, <1>1 DEF Held
  <2>3. NothingLeaks'
    BY Zenon, <1>1, <1>4, <1>5, <1>6, <2>1, <2>2 DEF Charged, NothingLeaks
  <2>4. ASSUME NEW d \in Callers, at[d] = "unloadable" PROVE flight[d] # f /\ flight[d] \in Flights
    <3>1. Position(d) = "unloadable"
      BY Zenon, <2>4 DEF Position
    <3>2. result[flight[d]] = "none" /\ flight[d] \in Flights
      BY Zenon, <3>1, FlightTypes DEF Inv, Placed, Loaders, Within
    <3>3. at[c] = "leased" => result[f] = "ok"
      BY Zenon, <1>2, <1>4 DEF Inv, Placed
    <3>4. at[c] = "loading" => flight[d] # f
      BY Zenon, <1>2, <1>4, <2>4, <3>1 DEF Inv, Loading, Loaders
    <3> QED
      BY Zenon, <1>1, <3>2, <3>3, <3>4
  <2> QED
    BY Zenon, <1>1, <1>6, <2>1, <2>3, <2>4 DEF Charged
<1>7. CASE (\E k \in EvictIdle : Remove(c, k, at[c])) /\ UNCHANGED charge
  BY Zenon, <1>1, <1>7, EvictIdleEvictable, RemoveCharges
<1> QED
  BY Zenon, <1>3, <1>6, <1>7

\* Whatever lets go of a resource without the registry destroys it if it was the last.
LEMMA ForgetCharges ==
  ASSUME Inv, Charged, NEW f \in Flights, NEW working, Forget(f, working),
         UNCHANGED <<entries, manager, victim, dying>>,
         \A g \in Flights : g # f => retained'[g] = retained[g],
         \A c \in Callers : \/ at'[c] = at[c] /\ flight'[c] = flight[c]
                            \/ at'[c] = "idle" /\ flight'[c] = 0 /\ flight[c] = f
  PROVE  Charged'
<1>1. /\ charge' \in [Flights -> Int]
      /\ \A g \in Flights : g # f => charge'[g] = charge[g]
      /\ charge'[f] # 0 => ~Orphan(f) /\ charge[f] # 0
  BY DEF Forget, Charged
<1>2. \A g \in Flights : g # f /\ Held(g) => Held(g)'
  BY Zenon DEF Held
<1>3. ~Orphan(f) => manager \/ Held(f)'
  BY Zenon DEF Orphan, Held
<1>4. NothingLeaks'
  <2> SUFFICES ASSUME NEW g \in Flights, charge'[g] # 0
               PROVE  \/ \E k \in Keys : entries[k] = g
                      \/ g \in dying \/ \E d \in Callers : victim[d] = g
                      \/ ~manager /\ Held(g)'
    BY Zenon DEF NothingLeaks
  <2>1. \/ \E k \in Keys : entries[k] = g
        \/ g \in dying \/ \E d \in Callers : victim[d] = g
        \/ ~manager /\ Held(g)
    BY Zenon, <1>1 DEF Charged, NothingLeaks
  <2> QED
    BY Zenon, <1>1, <1>2, <1>3, <2>1
<1>5. ASSUME NEW d \in Callers, at'[d] = "unloadable" PROVE charge'[flight'[d]] = 0
  <2>1. at[d] = "unloadable" /\ flight'[d] = flight[d]
    BY Zenon, <1>5
  <2>2. flight[d] \in Flights
    BY Zenon, <2>1, FlightTypes DEF Inv, Position, Loaders, Within
  <2> QED
    BY <1>1, <2>1, <2>2 DEF Charged
<1> QED
  BY Zenon, <1>1, <1>4, <1>5 DEF Charged

LEMMA PublishCharges ==
  ASSUME Inv, Charged, NEW c \in Callers, Publish(c)
  PROVE  Charged'
<1>1. at[c] \in {"loaded", "unloadable"} /\ UNCHANGED <<charge, manager, victim, dying>>
  BY Zenon DEF Publish, evictVars, cleanVars
<1>2. manager /\ key[c] \in Keys /\ entries[key[c]] = flight[c]
  BY Zenon, <1>1, ManagerLives DEF Inv, Placed, Position, Loaders, Within
<1>3. CASE at[c] = "loaded"
  <2>1. at' = [at EXCEPT ![c] = "leased"] /\ UNCHANGED <<entries, flight>>
    BY Zenon, <1>3 DEF Publish, Go, callerVars
  <2>2. \A d \in Callers : at'[d] = "unloadable" => at[d] = "unloadable"
    BY Zenon, <2>1 DEF Inv, Typed
  <2> QED
    BY Zenon, <1>1, <1>2, <2>1, <2>2, ChargesQuiet
<1>4. CASE at[c] = "unloadable"
  <2>1. /\ at' = [at EXCEPT ![c] = "idle"] /\ entries' = [entries EXCEPT ![key[c]] = 0]
        /\ flight' = [flight EXCEPT ![c] = 0]
    BY Zenon, <1>4 DEF Publish, Leave, Go
  <2>2. /\ \A d \in Callers : at'[d] = "unloadable" => at[d] = "unloadable" /\ flight'[d] = flight[d]
        /\ \A k \in Keys : entries[k] # 0 /\ entries[k] # flight[c] => entries'[k] = entries[k]
    BY Zenon, <1>2, <2>1 DEF Inv, Typed
  <2>3. charge[flight[c]] = 0
    BY Zenon, <1>4 DEF Charged
  <2>4. NothingLeaks'
    <3> SUFFICES ASSUME NEW f \in Flights, charge[f] # 0
                 PROVE  \/ \E k \in Keys : entries'[k] = f
                        \/ f \in dying \/ \E d \in Callers : victim[d] = f
      BY Zenon, <1>1 DEF NothingLeaks
    <3>1. f # flight[c] /\ f # 0
      BY Zenon, <2>3, FlightTypes
    <3> QED
      BY Zenon, <1>2, <2>2, <3>1 DEF Charged, NothingLeaks
  <2> QED
    BY Zenon, <1>1, <2>2, <2>4 DEF Charged
<1> QED
  BY Zenon, <1>1, <1>3, <1>4

\* A destructor ends: of a victim, or of an expired resource.
LEMMA DestroyCharges ==
  ASSUME Inv, Charged, (\E c \in Callers : Destroy(c)) \/ DestroyExpired
  PROVE  Charged'
<1>1. UNCHANGED <<entries, manager, flight, retained>>
  BY Zenon DEF Destroy, DestroyExpired, callerVars
<1>2. PICK f \in Flights : /\ charge' = [charge EXCEPT ![f] = 0]
                           /\ \A g \in Flights : g # f /\ Leaving(g) => Leaving(g)'
                           /\ \A d \in Callers : at'[d] = "unloadable" => at[d] = "unloadable"
  <2>1. ASSUME NEW c \in Callers, Destroy(c)
        PROVE  \E f \in Flights : /\ charge' = [charge EXCEPT ![f] = 0]
                                  /\ \A g \in Flights : g # f /\ Leaving(g) => Leaving(g)'
                                  /\ \A d \in Callers : at'[d] = "unloadable" => at[d] = "unloadable"
    <3>1. /\ at[c] = "destroy" /\ at' = [at EXCEPT ![c] = resume[c]] /\ UNCHANGED dying
          /\ victim' = [victim EXCEPT ![c] = 0] /\ charge' = [charge EXCEPT ![victim[c]] = 0]
      BY Zenon, <2>1 DEF Destroy, Go, cleanVars
    <3>2. victim[c] \in Flights /\ resume[c] # "unloadable"
      BY Zenon, <3>1, FlightTypes DEF Inv, Placed, Typed
    <3>3. \A g \in Flights : g # victim[c] /\ Leaving(g) => Leaving(g)'
      BY Zenon, <3>1 DEF Leaving, Inv, Typed
    <3>4. \A d \in Callers : at'[d] = "unloadable" => at[d] = "unloadable"
      BY Zenon, <3>1, <3>2 DEF Inv, Typed
    <3> QED
      BY Zenon, <3>1, <3>2, <3>3, <3>4
  <2>2. CASE DestroyExpired
    <3>1. PICK f \in dying : dying' = dying \ {f} /\ charge' = [charge EXCEPT ![f] = 0]
      BY Zenon, <2>2 DEF DestroyExpired
    <3>2. UNCHANGED <<at, victim>>
      BY Zenon, <2>2 DEF DestroyExpired, evictVars
    <3> QED
      BY Zenon, <3>1, <3>2 DEF Leaving, Inv, Typed
  <2> QED
    BY Zenon, <2>1, <2>2
<1>3. charge' \in [Flights -> Int] /\ \A g \in Flights : charge'[g] = IF g = f THEN 0 ELSE charge[g]
  BY <1>2 DEF Charged
<1>4. \A g \in Flights : Held(g)' <=> Held(g)
  BY Zenon, <1>1 DEF Held
<1>5. NothingLeaks'
  <2> SUFFICES ASSUME NEW g \in Flights, charge'[g] # 0
               PROVE  (\E k \in Keys : entries[k] = g) \/ Leaving(g)' \/ (~manager /\ Held(g))
    BY Zenon, <1>1, <1>4 DEF NothingLeaks, Leaving
  <2> QED
    BY Zenon, <1>2, <1>3 DEF Charged, NothingLeaks, Leaving
<1>6. ASSUME NEW d \in Callers, at'[d] = "unloadable" PROVE charge'[flight'[d]] = 0
  <2>1. at[d] = "unloadable"
    BY Zenon, <1>2, <1>6
  <2>2. flight[d] \in Flights
    BY Zenon, <2>1, FlightTypes DEF Inv, Position, Loaders, Within
  <2> QED
    BY Zenon, <1>1, <1>3, <2>1, <2>2 DEF Charged
<1> QED
  BY Zenon, <1>3, <1>5, <1>6 DEF Charged

LEMMA CollectCharges ==
  ASSUME Inv, Charged, CollectExpired
  PROVE  Charged'
<1>1. UNCHANGED <<charge, manager, at, flight, victim>> /\ manager
  BY Zenon DEF CollectExpired, callerVars, evictVars
<1>2. /\ dying = {}
      /\ entries' = [k \in Keys |-> IF entries[k] \in dying' THEN 0 ELSE entries[k]]
  BY Zenon DEF CollectExpired
<1>3. NothingLeaks'
  BY Zenon, <1>1, <1>2 DEF Charged, NothingLeaks
<1> QED
  BY Zenon, <1>1, <1>3 DEF Charged

LEMMA DropManagerCharges ==
  ASSUME Inv, Charged, DropManager
  PROVE  Charged'
<1> DEFINE lost == {f \in Registered : ~Held(f)}
<1>1. /\ manager /\ ~manager' /\ \A c \in Callers : at[c] \in {"idle", "leased"}
      /\ charge' = [f \in Flights |-> IF f \in lost THEN 0 ELSE charge[f]]
      /\ UNCHANGED <<at, flight, victim, dying, retained>>
  BY Zenon DEF DropManager, callerVars, evictVars, cleanVars
<1>2. \A k \in Keys : entries[k] # 0 => entries[k] \in Registered
  <2> SUFFICES ASSUME NEW k \in Keys, entries[k] # 0 PROVE result[entries[k]] = "ok"
    BY Zenon, FlightTypes DEF Registered
  <2>1. result[entries[k]] # "none"
    BY Zenon, <1>1 DEF Inv, Loading, Position, Loaders
  <2> QED
    BY <2>1, FlightTypes DEF Inv, Fresh, Typed
<1>3. \A f \in Flights : (Held(f)' <=> Held(f)) /\ f # 0
  BY Zenon, <1>1, FlightTypes DEF Held
<1>4. ASSUME NEW f \in Flights, charge'[f] # 0
      PROVE  f \in dying \/ (\E d \in Callers : victim[d] = f) \/ Held(f)
  BY Zenon, <1>1, <1>2, <1>3, <1>4 DEF Charged, NothingLeaks
<1>5. NothingLeaks'
  BY Zenon, <1>1, <1>3, <1>4 DEF NothingLeaks
<1>6. charge' \in [Flights -> Int]
  BY <1>1 DEF Charged
<1> QED
  BY Zenon, <1>1, <1>5, <1>6 DEF Charged

\* The bytes of the keys are numbers.
Measured == Peak \in [Keys -> Int] /\ Resident \in [Keys -> Int] /\ Growth \in Int

LEMMA StepCharges ==
  ASSUME Measured, Inv, Charged, [Next]_vars
  PROVE  Charged'
<1> USE DEF flightVars, callerVars, evictVars, cleanVars
<1>1. ASSUME NEW c \in Callers, NEW to, to # "unloadable", at' = [at EXCEPT ![c] = to],
             \A d \in Callers : d # c => flight'[d] = flight[d],
             UNCHANGED <<charge, entries, manager, victim, dying>>, manager
      PROVE  Charged'
  <2>1. \A d \in Callers : at'[d] = "unloadable" => at[d] = "unloadable" /\ flight'[d] = flight[d]
    BY Zenon, <1>1 DEF Inv, Typed
  <2> QED
    BY Zenon, <1>1, <2>1, ChargesQuiet
<1>2. ASSUME NEW c \in Callers, NEW k \in Keys, Load(c, k) PROVE Charged'
  BY Zenon, <1>1, <1>2 DEF Load, Go
<1>3. ASSUME NEW c \in Callers, Hit(c) \/ Joined(c) PROVE Charged'
  <2>1. /\ at[c] \in {"lookup", "joined"} /\ UNCHANGED <<charge, entries, manager, victim, dying>>
        /\ \E to \in {"leased", "joined", "idle"} : at' = [at EXCEPT ![c] = to]
    BY Zenon, <1>3 DEF Hit, Joined, Lookup, Leave, Go
  <2>2. \A d \in Callers : d # c => flight'[d] = flight[d]
    BY Zenon, <1>3 DEF Hit, Joined, Leave, Inv, Typed
  <2>3. manager
    BY Zenon, <2>1, ManagerLives
  <2> QED
    BY Zenon, <1>1, <2>1, <2>2, <2>3
<1>4. ASSUME NEW c \in Callers, MakeRoom(c) PROVE Charged'
  <2>1. at[c] = "lookup" /\ UNCHANGED <<charge, manager, flight, dying>>
    BY Zenon, <1>4 DEF MakeRoom, Lookup
  <2>2. \/ \E k \in EvictIdle : Remove(c, k, at[c])
        \/ at' = [at EXCEPT ![c] = "idle"] /\ UNCHANGED <<entries, victim>>
    BY Zenon, <1>4, <2>1 DEF MakeRoom, Go
  <2>3. manager
    BY Zenon, <2>1, ManagerLives
  <2> QED
    BY Zenon, <1>1, <2>1, <2>2, <2>3, EvictIdleEvictable, RemoveCharges
<1>5. ASSUME NEW c \in Callers, Advance(c) PROVE Charged'
  BY Zenon, <1>3, <1>4, <1>5, ElectCharges, LoadedCharges, PublishCharges, DestroyCharges
     DEF Advance, Measured
<1>6. ASSUME NEW c \in Callers, NEW k \in Keys, Evict(c, k) PROVE Charged'
  BY Zenon, <1>6, RemoveCharges DEF Evict
<1>7. ASSUME NEW c \in Callers, NEW working \in BOOLEAN, Release(c, working) PROVE Charged'
  <2>1. PICK f \in Flights : f = flight[c]
    BY Zenon, <1>7, FlightTypes DEF Release, Position, Within
  <2>2. /\ at' = [at EXCEPT ![c] = "idle"] /\ flight' = [flight EXCEPT ![c] = 0]
        /\ UNCHANGED <<entries, manager, victim, dying, retained>>
        /\ Forget(f, IF working THEN {f} ELSE {})
    BY Zenon, <1>7, <2>1 DEF Release, Leave, Go
  <2>3. \A d \in Callers : \/ at'[d] = at[d] /\ flight'[d] = flight[d]
                           \/ at'[d] = "idle" /\ flight'[d] = 0 /\ flight[d] = f
    BY Zenon, <2>1, <2>2 DEF Inv, Typed
  <2> QED
    BY Zenon, <2>2, <2>3, ForgetCharges
<1>8. ASSUME NEW f \in Flights, NEW how \in {"pin", "keepalive"}, Unretain(f, how) PROVE Charged'
  <2>1. /\ retained' = [retained EXCEPT ![f] = retained[f] \ {how}] /\ Forget(f, {})
        /\ UNCHANGED <<entries, manager, victim, dying, at, flight>>
    BY Zenon, <1>8 DEF Unretain
  <2>2. \A g \in Flights : g # f => retained'[g] = retained[g]
    BY Zenon, <2>1 DEF Inv, Typed
  <2> QED
    BY Zenon, <2>1, <2>2, ForgetCharges
<1>9. ASSUME NEW c \in Callers, NEW how \in {"pin", "keepalive"}, Retain(c, how) PROVE Charged'
  <2>1. /\ UNCHANGED <<charge, entries, manager, victim, dying, at, flight>>
        /\ retained' = [retained EXCEPT ![flight[c]] = retained[flight[c]] \union {how}]
    BY Zenon, <1>9 DEF Retain
  <2>2. \A f \in Flights : Held(f) => Held(f)'
    BY Zenon, <2>1 DEF Held, Inv, Typed
  <2> QED
    BY Zenon, <2>1, <2>2, ChargesQuiet
<1>10. ASSUME NEW f \in Flights, Drained(f) PROVE Charged'
  BY Zenon, <1>10, ChargesQuiet DEF Drained, Held
<1>11. CASE UNCHANGED vars
  BY Zenon, <1>11, ChargesQuiet DEF vars, Held
<1> QED
  BY Zenon, <1>2, <1>5, <1>6, <1>7, <1>8, <1>9, <1>10, <1>11, ReserveCharges, CollectCharges,
     DestroyCharges, DropManagerCharges DEF Next, Measured
-----------------------------------------------------------------------------
(* The timeout. *)

\* Steps that bring at most one flight into use, and restart its countdown.
LEMMA UnusedKept ==
  ASSUME Inv, Unused, UNCHANGED <<passes, active>>, busy' \subseteq busy, NEW f,
         idle_since' \in [Flights -> Nat], f \in Flights => idle_since'[f] = 0,
         \A g \in Flights : g # f => /\ idle_since'[g] = idle_since[g]
                                     /\ retained'[g] = retained[g] /\ result'[g] = result[g],
         \A c \in Callers : flight'[c] \in {flight[c], 0, f}
  PROVE  Unused'
<1>1. \A g \in Flights : g # f /\ g # 0 /\ Held(g)' => Held(g)
  BY Zenon DEF Held
<1>2. \A g \in Flights : idle_since'[g] # 0 =>
        /\ idle_since'[g] = idle_since[g] /\ result'[g] = result[g]
        /\ Held(g)' => Held(g)
        /\ g \in busy' => g \in busy
  BY Zenon, <1>1, FlightTypes
<1>3. passes' = passes /\ active' = active
  BY Zenon
<1>4. \A g \in Flights : active'[g] <= passes' + 1 /\ idle_since'[g] <= passes'
  BY <1>2, <1>3 DEF Unused
<1>5. \A g \in Flights : idle_since'[g] # 0 =>
        result'[g] = "ok" /\ ~Held(g)' /\ g \notin busy' /\ active'[g] <= idle_since'[g]
  BY Zenon, <1>2, <1>3 DEF Unused
<1> QED
  BY Zenon, <1>3, <1>4, <1>5 DEF Unused

\* Steps that end a use.
LEMMA UnusedTouched ==
  ASSUME Inv, Unused, NEW f \in Flights, Held(f) \/ f \in busy, Touch(f),
         UNCHANGED <<passes, idle_since, result>>, busy' \subseteq busy \union {f},
         \A g \in Flights : g # f => retained'[g] = retained[g],
         \A c \in Callers : flight'[c] \in {flight[c], 0}
  PROVE  Unused'
<1>1. idle_since[f] = 0
  BY Zenon DEF Unused
<1>2. active' \in [Flights -> Nat] /\ active'[f] <= passes' + 1
      /\ \A g \in Flights : g # f => active'[g] = active[g]
  BY DEF Touch, Unused
<1>3. \A g \in Flights : g # f /\ g # 0 /\ Held(g)' => Held(g)
  BY Zenon DEF Held
<1>4. \A g \in Flights : idle_since'[g] # 0 =>
        result'[g] = "ok" /\ ~Held(g)' /\ g \notin busy' /\ active'[g] <= idle_since'[g]
  BY Zenon, <1>1, <1>2, <1>3, FlightTypes DEF Unused
<1>5. \A g \in Flights : active'[g] <= passes' + 1 /\ idle_since'[g] <= passes'
  BY Zenon, <1>2 DEF Unused
<1> QED
  BY Zenon, <1>2, <1>4, <1>5 DEF Unused

\* A pass: what it sees idle is idle.
LEMMA UnusedCollected ==
  ASSUME Inv, Unused, CollectExpired
  PROVE  Unused'
<1>1. /\ passes' = passes + 1 /\ UNCHANGED <<result, retained, busy, flight, active>>
      /\ idle_since' = [f \in Flights |-> IF f \notin Registered THEN idle_since[f]
                                          ELSE IF ~IsEvictable(f) THEN 0
                                          ELSE IF idle_since[f] = 0 THEN passes' ELSE idle_since[f]]
  BY Zenon DEF CollectExpired, flightVars, callerVars
<1>2. \A f \in Flights : idle_since'[f] \in Nat /\ idle_since'[f] <= passes'
  BY <1>1 DEF Unused
<1>3. \A f \in Flights : Held(f)' <=> Held(f)
  BY Zenon, <1>1 DEF Held
<1>4. ASSUME NEW f \in Flights, idle_since'[f] # 0
      PROVE  result[f] = "ok" /\ ~Held(f) /\ f \notin busy /\ active[f] <= idle_since'[f]
  <2>1. CASE idle_since'[f] = idle_since[f]
    BY Zenon, <1>4, <2>1 DEF Unused
  <2>2. CASE IsEvictable(f) /\ idle_since'[f] = passes'
    BY Zenon, <1>1, <2>2 DEF Unused, IsEvictable
  <2> QED
    BY Zenon, <1>1, <1>4, <2>1, <2>2
<1>5. idle_since' \in [Flights -> Nat] /\ passes' \in Nat /\ active' \in [Flights -> Nat]
  BY <1>1, <1>2 DEF Unused
<1>6. \A f \in Flights : active'[f] <= passes' + 1
  BY <1>1 DEF Unused
<1>7. \A f \in Flights : idle_since'[f] # 0 =>
        result'[f] = "ok" /\ ~Held(f)' /\ f \notin busy' /\ active'[f] <= idle_since'[f]
  BY Zenon, <1>1, <1>3, <1>4
<1> QED
  BY Zenon, <1>2, <1>5, <1>6, <1>7 DEF Unused

LEMMA StepUnused ==
  ASSUME Inv, Unused, [Next]_vars
  PROVE  Unused'
<1> USE DEF flightVars, callerVars, evictVars, cleanVars
<1>0. idle_since \in [Flights -> Nat] /\ flight \in [Callers -> 0 .. MaxClock] /\ 0 \notin Flights
      /\ \A f \in Flights : result[f] # "ok" => idle_since[f] = 0
  BY Zenon, FlightTypes DEF Unused, Inv, Typed
<1>1. ASSUME UNCHANGED <<passes, active, idle_since, retained, result>>, busy' \subseteq busy,
             \A d \in Callers : flight'[d] \in {flight[d], 0}
      PROVE  Unused'
  BY Zenon, <1>0, <1>1, UnusedKept
<1>2. ASSUME NEW c \in Callers, \/ \E k \in Keys : Load(c, k) \/ Evict(c, k)
                                \/ MakeRoom(c) \/ Reserve(c) \/ Destroy(c)
                                \/ \E ok \in BOOLEAN : Loaded(c, ok)
      PROVE  Unused'
  <2>1. UNCHANGED <<passes, active, idle_since, retained, result, busy, flight>>
    BY Zenon, <1>2 DEF Load, Evict, MakeRoom, Reserve, Destroy, Loaded
  <2> QED
    BY Zenon, <1>1, <2>1
<1>3. ASSUME NEW c \in Callers, Hit(c) PROVE Unused'
  <2>1. PICK f \in Flights : f = entries[key[c]]
    <3>1. at[c] = "lookup" /\ entries[key[c]] # 0
      BY Zenon, <1>3 DEF Hit, Lookup
    <3> QED
      BY Zenon, <3>1, FlightTypes DEF Inv, Placed, Position
  <2>2. /\ flight' = [flight EXCEPT ![c] = f]
        /\ MarkActive(f) \/ (result[f] = "none" /\ UNCHANGED idle_since)
        /\ UNCHANGED <<passes, active, retained, result, busy>>
    BY Zenon, <1>3, <2>1 DEF Hit
  <2> QED
    BY <1>0, <2>2, UnusedKept DEF MarkActive
<1>4. ASSUME NEW c \in Callers, Elect(c) PROVE Unused'
  <2>1. PICK f \in Flights : f = clock + 1
    BY <1>4 DEF Elect, Lookup, Inv, Typed, Sized, Flights
  <2>2. /\ flight' = [flight EXCEPT ![c] = f]
        /\ UNCHANGED <<passes, active, retained, result, busy, idle_since>>
    BY Zenon, <1>4, <2>1 DEF Elect
  <2>3. result[f] = "none"
    BY <2>1 DEF Inv, Fresh, Typed, Sized
  <2> QED
    BY Zenon, <1>0, <2>2, <2>3, UnusedKept
<1>5. ASSUME NEW c \in Callers, Publish(c) PROVE Unused'
  <2>1. PICK f \in Flights : f = flight[c] /\ result[f] = "none"
    <3>1. at[c] \in {"loaded", "unloadable"}
      BY Zenon, <1>5 DEF Publish
    <3> QED
      BY Zenon, <3>1, FlightTypes DEF Position, Within, Loaders, Inv, Placed
  <2>2. /\ \E r \in {"ok", "failed"} : result' = [result EXCEPT ![f] = r]
        /\ MarkActive(f) \/ UNCHANGED idle_since
        /\ UNCHANGED <<passes, active, retained, busy>>
        /\ flight' = flight \/ flight' = [flight EXCEPT ![c] = 0]
    BY Zenon, <1>5, <2>1 DEF Publish, Leave
  <2>3. \A g \in Flights : g # f => result'[g] = result[g]
    BY Zenon, <2>2 DEF Inv, Typed
  <2> QED
    BY <1>0, <2>1, <2>2, <2>3, UnusedKept DEF MarkActive
<1>6. ASSUME NEW c \in Callers, Joined(c) PROVE Unused'
  <2>1. PICK f \in Flights : f = flight[c]
    BY Zenon, <1>6, FlightTypes DEF Joined, Position, Within
  <2>2. /\ UNCHANGED <<passes, active, retained, busy, result>>
        /\ \/ MarkActive(f) /\ UNCHANGED flight
           \/ UNCHANGED idle_since /\ flight' = [flight EXCEPT ![c] = 0]
    BY Zenon, <1>6, <2>1 DEF Joined, Leave
  <2>3. CASE MarkActive(f) /\ UNCHANGED flight
    BY Zenon, <1>0, <2>2, <2>3, UnusedKept DEF MarkActive
  <2> QED
    BY Zenon, <1>0, <1>1, <2>2, <2>3
<1>7. ASSUME NEW c \in Callers, NEW how \in {"pin", "keepalive"}, Retain(c, how) PROVE Unused'
  <2>1. PICK f \in Flights : f = flight[c]
    BY Zenon, <1>7, FlightTypes DEF Retain, Position, Within
  <2>2. /\ UNCHANGED <<passes, active, flight, busy, result>> /\ MarkActive(f)
        /\ retained' = [retained EXCEPT ![f] = retained[f] \union {how}]
    BY Zenon, <1>7, <2>1 DEF Retain
  <2>3. \A g \in Flights : g # f => retained'[g] = retained[g]
    BY Zenon, <2>2 DEF Inv, Typed
  <2> QED
    BY Zenon, <1>0, <2>2, <2>3, UnusedKept DEF MarkActive
<1>8. ASSUME NEW c \in Callers, NEW working \in BOOLEAN, Release(c, working) PROVE Unused'
  <2>1. PICK f \in Flights : f = flight[c]
    BY Zenon, <1>8, FlightTypes DEF Release, Position, Within
  <2>2. /\ UNCHANGED <<passes, idle_since, result, retained>> /\ Touch(f)
        /\ flight' = [flight EXCEPT ![c] = 0] /\ busy' \subseteq busy \union {f}
    BY Zenon, <1>8, <2>1 DEF Release, Leave, Forget
  <2> QED
    BY Zenon, <1>0, <2>1, <2>2, UnusedTouched DEF Held
<1>9. ASSUME NEW f \in Flights, Drained(f) PROVE Unused'
  BY Zenon, <1>9, UnusedTouched DEF Drained
<1>10. ASSUME NEW f \in Flights, NEW how \in {"pin", "keepalive"}, Unretain(f, how) PROVE Unused'
  <2>1. /\ UNCHANGED <<passes, idle_since, result, flight>> /\ Touch(f) /\ how \in retained[f]
        /\ retained' = [retained EXCEPT ![f] = retained[f] \ {how}] /\ busy' \subseteq busy \union {f}
    BY Zenon, <1>10 DEF Unretain, Forget
  <2>2. \A g \in Flights : g # f => retained'[g] = retained[g]
    BY Zenon, <2>1 DEF Inv, Typed
  <2> QED
    BY Zenon, <2>1, <2>2, UnusedTouched DEF Held
<1>11. CASE DestroyExpired \/ DropManager \/ UNCHANGED vars
  <2>1. UNCHANGED <<passes, active, idle_since, retained, result, flight>> /\ busy' \subseteq busy
    BY Zenon, <1>11 DEF DestroyExpired, DropManager, vars
  <2> QED
    BY Zenon, <1>1, <2>1
<1> QED
  BY Zenon, <1>2, <1>3, <1>4, <1>5, <1>6, <1>7, <1>8, <1>9, <1>10, <1>11, UnusedCollected DEF Next, Advance
-----------------------------------------------------------------------------
(* The registry implements SingleFlight. *)

\* What a caller uses, for the abstract cache.
LEMMA UsingFacts ==
  ASSUME Inv
  PROVE  /\ DOMAIN Using = Callers
         /\ \A c \in Callers : Using[c].load = flight[c]
         /\ \A c \in Callers : flight[c] # 0 => Using[c].key = key[c]
         /\ \A c \in Callers : Using[c] = Shared!Unused <=> flight[c] = 0
  BY Zenon DEF Using, Shared!Unused

\* A caller starts to use a load, or ends its use.
LEMMA UsingMoved ==
  ASSUME Inv, NEW c \in Callers, NEW f, flight' = [flight EXCEPT ![c] = f],
         \A d \in Callers : d # c => key'[d] = key[d]
  PROVE  Using' = [Using EXCEPT ![c] = [key |-> IF f = 0 THEN 0 ELSE key'[c], load |-> f]]
<1>1. \A d \in Callers : flight'[d] = IF d = c THEN f ELSE flight[d]
  BY Zenon DEF Inv, Typed
<1> QED
  BY Zenon, <1>1 DEF Using

LEMMA UsingKept ==
  ASSUME UNCHANGED flight, \A c \in Callers : flight[c] # 0 => key'[c] = key[c]
  PROVE  UNCHANGED Using
  BY Zenon DEF Using

LEMMA ReadyKept ==
  ASSUME UNCHANGED result
  PROVE  UNCHANGED Ready
  BY Zenon DEF Ready

\* Idle resources that leave the registry are values nobody uses.
LEMMA EvictImplements ==
  ASSUME Inv, NEW K \in SUBSET Keys, \A k \in K : IsEvictable(entries[k]),
         entries' = [k \in Keys |-> IF k \in K THEN 0 ELSE entries[k]],
         UNCHANGED <<result, key, flight>>
  PROVE  Shared!Next
<1>1. UNCHANGED <<Ready, Using>>
  BY Zenon, UsingKept, ReadyKept
<1>2. \A k \in K : entries[k] \in Ready /\ \A c \in Callers : Using[c].load # entries[k]
  BY UsingFacts, FlightTypes DEF IsEvictable, Ready, Held
<1>3. K \in Shared!Unneeded
  BY Zenon, <1>2 DEF Shared!Unneeded
<1>4. Shared!Evict
  BY Zenon, <1>1, <1>3 DEF Shared!Evict, Shared!Without
<1> QED
  BY Zenon, <1>4 DEF Shared!Next

LEMMA RemoveImplements ==
  ASSUME Inv, NEW c \in Callers, NEW k \in Keys, IsEvictable(entries[k]), NEW then,
         Remove(c, k, then), UNCHANGED <<result, key, flight>>
  PROVE  Shared!Next
<1>1. PICK K \in SUBSET Keys : K = {k}
  BY Zenon
<1>2. entries' = [j \in Keys |-> IF j \in K THEN 0 ELSE entries[j]]
  BY Zenon, <1>1 DEF Remove, Inv, Typed
<1>3. \A j \in K : IsEvictable(entries[j])
  BY Zenon, <1>1
<1> QED
  BY Zenon, <1>2, <1>3, EvictImplements

LEMMA HitImplements ==
  ASSUME Inv, NEW c \in Callers, Hit(c)
  PROVE  Shared!Next
<1>1. at[c] = "lookup" /\ entries[key[c]] # 0 /\ flight' = [flight EXCEPT ![c] = entries[key[c]]]
      /\ UNCHANGED <<entries, result, key>>
  BY Zenon DEF Hit, Lookup, flightVars
<1>2. key[c] \in Keys /\ flight[c] = 0
  BY Zenon, <1>1 DEF Inv, Placed, Position
<1>3. Using' = [Using EXCEPT ![c] = [key |-> key[c], load |-> entries[key[c]]]]
  BY Zenon, <1>1, UsingMoved
<1>4. Shared!Join(c, key[c])
  BY Zenon, <1>1, <1>2, <1>3, UsingFacts, ReadyKept DEF Shared!Join
<1> QED
  BY Zenon, <1>2, <1>4 DEF Shared!Next

LEMMA ElectImplements ==
  ASSUME Inv, NEW c \in Callers, Elect(c)
  PROVE  Shared!Next
<1>1. PICK f \in Flights : f = clock + 1
  BY DEF Elect, Lookup, Inv, Typed, Sized, Flights
<1>2. /\ at[c] = "lookup" /\ entries[key[c]] = 0 /\ flight' = [flight EXCEPT ![c] = f]
      /\ entries' = [entries EXCEPT ![key[c]] = f] /\ UNCHANGED <<result, key>>
  BY Zenon, <1>1 DEF Elect, Lookup
<1>3. key[c] \in Keys /\ flight[c] = 0 /\ f # 0
  BY Zenon, <1>2, FlightTypes DEF Inv, Placed, Position
<1>4. Using' = [Using EXCEPT ![c] = [key |-> key[c], load |-> f]]
  BY Zenon, <1>2, <1>3, UsingMoved
<1>5. f \notin Ready /\ \A d \in Callers : Using[d].load # f
  <2>1. \A d \in Callers : flight[d] = 0 \/ flight[d] \in 1 .. clock
    BY Zenon, FlightTypes DEF Inv, Placed
  <2>2. result[f] = "none" /\ \A d \in Callers : flight[d] # f
    BY <1>1, <1>3, <2>1 DEF Inv, Fresh, Typed, Sized
  <2> QED
    BY Zenon, <2>2, UsingFacts DEF Ready
<1>6. {} \in Shared!Unneeded /\ Shared!Without({}) = entries
  BY Zenon DEF Shared!Unneeded, Shared!Without, Inv, Typed
<1>7. \E K \in Shared!Unneeded : entries' = [Shared!Without(K) EXCEPT ![key[c]] = f]
  BY Zenon, <1>2, <1>6
<1>8. Shared!Prepare(c, key[c], f)
  BY Zenon, <1>2, <1>3, <1>4, <1>5, <1>7, UsingFacts, ReadyKept DEF Shared!Prepare
<1> QED
  BY Zenon, <1>3, <1>8 DEF Shared!Next

LEMMA PublishImplements ==
  ASSUME Inv, NEW c \in Callers, Publish(c)
  PROVE  Shared!Next
<1>1. /\ Position(c) \in Loaders /\ key[c] \in Keys /\ flight[c] \in Flights /\ flight[c] # 0
      /\ result[flight[c]] = "none" /\ entries[key[c]] = flight[c]
  <2>1. at[c] \in {"loaded", "unloadable"}
    BY Zenon DEF Publish
  <2>2. Position(c) \in Loaders /\ Position(c) \in Within
    BY Zenon, <2>1 DEF Position, Loaders, Within
  <2> QED
    BY Zenon, <2>1, <2>2, ManagerLives, FlightTypes DEF Inv, Placed
<1>2. Using[c].load = flight[c] /\ Using[c].key = key[c] /\ Using[c] # Shared!Unused
      /\ flight[c] \notin Ready
  BY Zenon, <1>1, UsingFacts DEF Ready
<1>3. CASE at[c] = "loaded"
  <2>1. result' = [result EXCEPT ![flight[c]] = "ok"] /\ UNCHANGED <<entries, key, flight>>
    BY Zenon, <1>3 DEF Publish, callerVars
  <2>2. Ready' = Ready \union {entries[key[c]]}
    BY <1>1, <2>1 DEF Ready, Inv, Typed
  <2>3. Shared!Succeed(key[c])
    BY Zenon, <1>1, <1>2, <2>1, <2>2, UsingKept DEF Shared!Succeed
  <2> QED
    BY Zenon, <1>1, <2>3 DEF Shared!Next
<1>4. CASE at[c] = "unloadable"
  <2>1. /\ result' = [result EXCEPT ![flight[c]] = "failed"]
        /\ entries' = [entries EXCEPT ![key[c]] = 0]
        /\ key' = [key EXCEPT ![c] = 0] /\ flight' = [flight EXCEPT ![c] = 0]
    BY Zenon, <1>4 DEF Publish, Leave
  <2>2. Ready' = Ready
    BY Zenon, <1>1, <2>1 DEF Ready, Inv, Typed
  <2>3. Using' = [Using EXCEPT ![c] = Shared!Unused]
    <3>1. \A d \in Callers : d # c => key'[d] = key[d]
      BY Zenon, <2>1 DEF Inv, Typed
    <3> QED
      BY Zenon, <2>1, <3>1, UsingMoved DEF Shared!Unused
  <2>4. Shared!Fail(c)
    BY Zenon, <1>1, <1>2, <2>1, <2>2, <2>3 DEF Shared!Fail
  <2> QED
    BY Zenon, <2>4 DEF Shared!Next
<1> QED
  BY Zenon, <1>3, <1>4 DEF Publish

LEMMA PutImplements ==
  ASSUME Inv, NEW c \in Callers,
         \/ Joined(c) /\ result[flight[c]] = "failed"
         \/ \E working \in BOOLEAN : Release(c, working)
  PROVE  Shared!Next
<1>1. /\ UNCHANGED <<entries, result>> /\ at[c] \in {"joined", "leased"}
      /\ key' = [key EXCEPT ![c] = 0] /\ flight' = [flight EXCEPT ![c] = 0]
      /\ at[c] = "joined" => result[flight[c]] = "failed"
  BY Zenon DEF Joined, Release, Leave, flightVars
<1>2. /\ flight[c] \in Flights /\ flight[c] # 0 /\ key[c] \in Keys
      /\ at[c] = "leased" => result[flight[c]] = "ok"
  BY Zenon, <1>1, FlightTypes DEF Inv, Placed, Position, Within
<1>3. flight[c] \in Ready \/ entries[key[c]] # flight[c]
  BY Zenon, <1>1, <1>2 DEF Ready, Inv, Fresh
<1>4. Using' = [Using EXCEPT ![c] = Shared!Unused]
  <2>1. \A d \in Callers : d # c => key'[d] = key[d]
    BY Zenon, <1>1 DEF Inv, Typed
  <2> QED
    BY Zenon, <1>1, <2>1, UsingMoved DEF Shared!Unused
<1>5. Using[c] # Shared!Unused /\ Shared!Put(c)
  BY Zenon, <1>1, <1>2, <1>3, <1>4, UsingFacts, ReadyKept DEF Shared!Put
<1> QED
  BY Zenon, <1>5 DEF Shared!Next

LEMMA CollectImplements ==
  ASSUME Inv, CollectExpired
  PROVE  Shared!Next
<1>1. PICK expired : /\ entries' = [k \in Keys |-> IF entries[k] \in expired THEN 0 ELSE entries[k]]
                     /\ \A f \in expired : IsEvictable(f)
  BY Zenon, Collected
<1>2. PICK K \in SUBSET Keys : K = {k \in Keys : entries[k] \in expired}
  BY Zenon
<1>3. entries' = [k \in Keys |-> IF k \in K THEN 0 ELSE entries[k]]
  BY Zenon, <1>1, <1>2
<1>4. \A k \in K : IsEvictable(entries[k])
  BY Zenon, <1>1, <1>2
<1>5. UNCHANGED <<result, key, flight>>
  BY Zenon DEF CollectExpired, flightVars, callerVars
<1> QED
  BY Zenon, <1>3, <1>4, <1>5, EvictImplements

\* The manager goes only when nothing is loading.
LEMMA DropManagerImplements ==
  ASSUME Inv, DropManager
  PROVE  Shared!Next
<1>1. /\ \A c \in Callers : at[c] \in {"idle", "leased"}
      /\ entries' = [k \in Keys |-> 0] /\ UNCHANGED <<result, key, flight>>
  BY Zenon DEF DropManager, flightVars, callerVars
<1>2. \A c \in Callers : Position(c) \notin Loaders
  BY Zenon, <1>1 DEF Position, Loaders
<1>3. ASSUME NEW k \in Keys PROVE entries[k] \in Ready \union {0}
  BY <1>2, FlightTypes DEF Inv, Typed, Fresh, Loading, Ready
<1>4. Shared!Close
  BY Zenon, <1>1, <1>3, UsingKept, ReadyKept DEF Shared!Close
<1> QED
  BY Zenon, <1>4 DEF Shared!Next

LEMMA StepImplements ==
  ASSUME Inv, [Next]_vars
  PROVE  [Shared!Next]_(Shared!vars)
<1> USE DEF flightVars, callerVars, evictVars, cleanVars
<1>1. ASSUME UNCHANGED <<entries, result, flight>>,
             \A d \in Callers : flight[d] # 0 => key'[d] = key[d]
      PROVE  UNCHANGED Shared!vars
  BY Zenon, <1>1, UsingKept, ReadyKept DEF Shared!vars
<1>2. ASSUME NEW c \in Callers, Position(c) \in {"idle", "lookup"},
             NEW k, key' = [key EXCEPT ![c] = k], UNCHANGED <<entries, result, flight>>
      PROVE  UNCHANGED Shared!vars
  <2>1. \A d \in Callers : flight[d] # 0 => key'[d] = key[d]
    BY <1>2 DEF Inv, Typed, Placed
  <2> QED
    BY Zenon, <1>1, <1>2, <2>1
<1>3. ASSUME NEW c \in Callers, NEW k \in Keys, Load(c, k) PROVE UNCHANGED Shared!vars
  BY Zenon, <1>2, <1>3 DEF Load, Position
<1>4. ASSUME NEW c \in Callers, MakeRoom(c) PROVE [Shared!Next]_(Shared!vars)
  <2>1. at[c] = "lookup" /\ UNCHANGED <<result, flight>>
    BY Zenon, <1>4 DEF MakeRoom, Lookup
  <2>2. \/ (\E k \in EvictIdle : Remove(c, k, "lookup")) /\ UNCHANGED key
        \/ key' = [key EXCEPT ![c] = 0] /\ UNCHANGED entries
    BY Zenon, <1>4 DEF MakeRoom
  <2> QED
    BY Zenon, <1>2, <2>1, <2>2, EvictIdleEvictable, RemoveImplements DEF Position
<1>5. ASSUME NEW c \in Callers, Joined(c) PROVE [Shared!Next]_(Shared!vars)
  BY Zenon, <1>1, <1>5, PutImplements DEF Joined
<1>6. ASSUME NEW c \in Callers, Reserve(c) PROVE [Shared!Next]_(Shared!vars)
  <2>1. UNCHANGED <<result, key, flight>>
        /\ (UNCHANGED entries \/ \E k \in EvictIdle : Remove(c, k, at[c]))
    BY Zenon, <1>6 DEF Reserve
  <2> QED
    BY Zenon, <1>1, <2>1, EvictIdleEvictable, RemoveImplements
<1>7. ASSUME NEW c \in Callers, NEW k \in Keys, Evict(c, k) PROVE Shared!Next
  BY Zenon, <1>7, RemoveImplements DEF Evict
<1>8. CASE \/ \E c \in Callers : \/ Destroy(c) \/ \E ok \in BOOLEAN : Loaded(c, ok)
                                 \/ \E how \in {"pin", "keepalive"} : Retain(c, how)
           \/ \E f \in Flights : Drained(f) \/ \E how \in {"pin", "keepalive"} : Unretain(f, how)
           \/ DestroyExpired \/ UNCHANGED vars
  <2>1. UNCHANGED <<entries, result, flight, key>>
    BY Zenon, <1>8 DEF Destroy, Loaded, Retain, Drained, Unretain, DestroyExpired, vars
  <2> QED
    BY Zenon, <1>1, <2>1
<1>9. ASSUME NEW c \in Callers, Advance(c) PROVE [Shared!Next]_(Shared!vars)
  BY Zenon, <1>4, <1>5, <1>8, <1>9, HitImplements, ElectImplements, PublishImplements DEF Advance
<1> QED
  BY Zenon, <1>3, <1>6, <1>7, <1>8, <1>9, PutImplements, CollectImplements, DropManagerImplements DEF Next
-----------------------------------------------------------------------------
\* What the callers keep of the registry holds in every reachable state.
LEMMA InvHolds ==
  ASSUME Sized
  PROVE  Spec => []Inv
  BY InvInit, StepInv, PTL DEF Spec

\* A model that is leased, pinned, kept alive or busy is never on its way out, neither as the
\* victim of an eviction nor of the cleanup thread, and while the manager lives it is the entry
\* of its key, for every number of keys and callers and every budget.
THEOREM LeasedKept ==
  ASSUME Sized
  PROVE  Spec => []LeasedResident
<1>1. Inv => LeasedResident
  BY Zenon DEF Inv, Kept, Gone, Leaving, LeasedResident
<1> QED
  BY <1>1, InvHolds, PTL

\* A load that failed or panicked, and a model that left the registry and was destroyed, are
\* charged nothing, whatever bytes the loaders reserve, declare and allocate.
THEOREM NothingLeaked ==
  ASSUME Sized, Measured
  PROVE  Spec => []NothingLeaks
<1>1. Init => Charged
  BY DEF Init, Charged, NothingLeaks, Flights
<1>2. Inv /\ Charged /\ [Next]_vars => Charged'
  BY Zenon, StepCharges
<1>3. Charged => NothingLeaks
  BY Zenon DEF Charged
<1> QED
  BY <1>1, <1>2, <1>3, InvHolds, PTL DEF Spec

\* The cleanup thread removes a model only when its last use ended at least the timeout before
\* the pass that removes it, whatever leases, pins and queued work came between the passes.
THEOREM TimeoutKept ==
  ASSUME Sized
  PROVE  Spec => [][IdleLongEnough]_vars
<1>1. Init => Unused
  BY DEF Init, Unused, Flights
<1>2. Inv /\ Unused /\ [Next]_vars => Unused'
  BY Zenon, StepUnused
<1>3. Inv /\ Unused /\ [Next]_vars => [IdleLongEnough]_vars
  <2> SUFFICES ASSUME Inv, Unused, Next, NEW f \in dying' \ dying
               PROVE  passes' - active[f] >= Timeout
    BY Zenon DEF IdleLongEnough
  <2>1. CollectExpired
    <3>1. DestroyExpired => dying' \subseteq dying
      BY Zenon DEF DestroyExpired
    <3>2. CASE UNCHANGED dying
      BY Zenon, <3>2
    <3> QED
      BY Zenon, <3>1, <3>2 DEF Next, Advance, Hit, Elect, MakeRoom, Loaded, Publish, Joined,
                               Destroy, Reserve, Load, Evict, Release, Retain, Drained, Unretain,
                               DropManager, cleanVars
  <2>2. /\ f \in Flights /\ f \in Registered /\ IsEvictable(f)
        /\ passes' - (IF idle_since[f] = 0 THEN passes' ELSE idle_since[f]) >= Timeout
        /\ Timeout # 0 /\ passes' = passes + 1
    BY Zenon, <2>1 DEF CollectExpired, Registered
  <2> QED
    BY <2>2 DEF Unused, Inv, Sized
<1> QED
  BY <1>1, <1>2, <1>3, InvHolds, PTL DEF Spec

\* Concurrent loads of a key share one flight and its outcome: the registry, with its evictions,
\* its cleanup thread, its failures and its end, implements SingleFlight.
THEOREM LoadsSingleFlight ==
  ASSUME Sized
  PROVE  Spec => Shared!Spec
<1>1. Init => Shared!Init
  BY DEF Init, Shared!Init, Shared!Unused, Ready, Using
<1>2. Inv /\ [Next]_vars => [Shared!Next]_(Shared!vars)
  BY Zenon, StepImplements
<1> QED
  BY <1>1, <1>2, InvHolds, PTL DEF Spec, Shared!Spec
-----------------------------------------------------------------------------
(* The budget.  The sum of the charges is a recursion over the flights; its *)
(* laws are proved by induction in the form of a set that holds 0 and, with *)
(* a number, the next one.                                                  *)

INSTANCE WellFoundedInduction

\* Induction from 0 up to a number, for a set.
LEMMA Upward ==
  ASSUME NEW N \in Nat, NEW T, 0 \in T, \A n \in 1 .. N : n - 1 \in T => n \in T
  PROVE  \A n \in 0 .. N : n \in T
<1> DEFINE Bad == {n \in 0 .. N : n \notin T}
<1> SUFFICES ASSUME Bad # {} PROVE FALSE
  BY Zenon
<1>1. Bad \in SUBSET Nat
  OBVIOUS
<1>2. PICK x \in Bad : \A y \in Bad : ~(<<y, x>> \in OpToRel(<, Nat))
  BY <1>1, WFMin, NatLessThanWellFounded, Zenon
<1>3. \A y \in Bad : ~(y < x)
  BY Zenon, <1>1, <1>2 DEF OpToRel
<1>4. x - 1 \notin Bad /\ x \in 1 .. N
  BY <1>3
<1> QED
  BY <1>4

\* The partial sums of a function on the flights.
Sums(c, s) == s[0] = 0 /\ \A n \in Flights : s[n] = s[n - 1] + c[n]

LEMMA SumsExist ==
  ASSUME MaxClock \in Nat, NEW c \in [Flights -> Int]
  PROVE  \E s \in [0 .. MaxClock -> Int] : Sums(c, s)
<1> DEFINE Good(m) == \E s \in [0 .. m -> Int] : s[0] = 0 /\ \A n \in 1 .. m : s[n] = s[n - 1] + c[n]
           T == {m \in 0 .. MaxClock : Good(m)}
<1>1. 0 \in T
  <2>1. PICK s : s = [n \in 0 .. 0 |-> 0]
    BY Zenon
  <2>2. s \in [0 .. 0 -> Int] /\ s[0] = 0 /\ 1 .. 0 = {} /\ 0 \in 0 .. MaxClock
    BY <2>1
  <2> QED
    BY Zenon, <2>2
<1>2. ASSUME NEW m \in 1 .. MaxClock, m - 1 \in T PROVE m \in T
  <2>1. PICK s \in [0 .. m - 1 -> Int] : s[0] = 0 /\ \A n \in 1 .. m - 1 : s[n] = s[n - 1] + c[n]
    BY Zenon, <1>2
  <2>2. s[m - 1] + c[m] \in Int
    BY DEF Flights
  <2>3. PICK t : t = [n \in 0 .. m |-> IF n = m THEN s[m - 1] + c[m] ELSE s[n]]
    BY Zenon
  <2>4. t \in [0 .. m -> Int]
    BY <2>2, <2>3
  <2>5. t[0] = 0 /\ \A n \in 1 .. m : t[n] = t[n - 1] + c[n]
    BY <2>1, <2>3
  <2>6. m \in 0 .. MaxClock
    OBVIOUS
  <2> QED
    BY Zenon, <2>4, <2>5, <2>6
<1> HIDE DEF Good
<1>3. MaxClock \in T
  <2>1. \A n \in 0 .. MaxClock : n \in T
    BY Zenon, <1>1, <1>2, Upward
  <2> QED
    BY <2>1
<1>4. Good(MaxClock)
  BY Zenon, <1>3
<1> QED
  BY Zenon, <1>4 DEF Good, Sums, Flights

LEMMA TotalSums ==
  ASSUME MaxClock \in Nat, NEW c \in [Flights -> Int]
  PROVE  \E s \in [0 .. MaxClock -> Int] : Sums(c, s) /\ Total(c) = s[MaxClock]
<1> DEFINE F(u) == [n \in 0 .. MaxClock |-> IF n = 0 THEN 0 ELSE u[n - 1] + c[n]]
<1>1. PICK s \in [0 .. MaxClock -> Int] : Sums(c, s)
  BY Zenon, SumsExist
<1>2. s = F(s)
  <2>1. \A n \in 0 .. MaxClock : s[n] = F(s)[n]
    BY <1>1 DEF Sums, Flights
  <2> QED
    BY <2>1
<1>3. PICK u : u = CHOOSE v : v = F(v)
  BY Zenon
<1>4. u = F(u)
  BY Zenon, <1>2, <1>3
<1>5. Total(c) = u[MaxClock]
  BY Zenon, <1>3 DEF Total
<1> HIDE DEF F
<1>6. u[0] = 0 /\ \A n \in 1 .. MaxClock : u[n] = u[n - 1] + c[n]
  BY <1>4 DEF F
<1>7. \A n \in 0 .. MaxClock : u[n] = s[n]
  <2> DEFINE T == {n \in 0 .. MaxClock : u[n] = s[n]}
  <2>1. 0 \in T
    BY <1>1, <1>6 DEF Sums
  <2>2. \A n \in 1 .. MaxClock : n - 1 \in T => n \in T
    BY <1>1, <1>6 DEF Sums, Flights
  <2>3. \A n \in 0 .. MaxClock : n \in T
    BY Zenon, <2>1, <2>2, Upward
  <2> QED
    BY Zenon, <2>3
<1>8. MaxClock \in 0 .. MaxClock
  OBVIOUS
<1> QED
  BY Zenon, <1>1, <1>5, <1>7, <1>8

\* The total of a sum is the sum of the totals.
LEMMA TotalAdds ==
  ASSUME MaxClock \in Nat, NEW c \in [Flights -> Int], NEW d \in [Flights -> Int],
         NEW e \in [Flights -> Int], \A f \in Flights : e[f] = c[f] + d[f]
  PROVE  Total(e) = Total(c) + Total(d)
<1>1. PICK s \in [0 .. MaxClock -> Int] : Sums(c, s) /\ Total(c) = s[MaxClock]
  BY Zenon, TotalSums
<1>2. PICK t \in [0 .. MaxClock -> Int] : Sums(d, t) /\ Total(d) = t[MaxClock]
  BY Zenon, TotalSums
<1>3. PICK u \in [0 .. MaxClock -> Int] : Sums(e, u) /\ Total(e) = u[MaxClock]
  BY Zenon, TotalSums
<1> DEFINE T == {n \in 0 .. MaxClock : u[n] = s[n] + t[n]}
<1>4. 0 \in T
  BY <1>1, <1>2, <1>3 DEF Sums
<1>5. \A n \in 1 .. MaxClock : n - 1 \in T => n \in T
  BY <1>1, <1>2, <1>3 DEF Sums, Flights
<1>6. \A n \in 0 .. MaxClock : n \in T
  BY Zenon, <1>4, <1>5, Upward
<1>7. MaxClock \in 0 .. MaxClock
  OBVIOUS
<1> QED
  BY Zenon, <1>1, <1>2, <1>3, <1>6, <1>7

\* What is nowhere negative has a total that is not negative.
LEMMA TotalNat ==
  ASSUME MaxClock \in Nat, NEW c \in [Flights -> Nat]
  PROVE  Total(c) \in Nat
<1>1. c \in [Flights -> Int]
  OBVIOUS
<1>2. PICK s \in [0 .. MaxClock -> Int] : Sums(c, s) /\ Total(c) = s[MaxClock]
  BY Zenon, <1>1, TotalSums
<1> DEFINE T == {n \in 0 .. MaxClock : s[n] \in Nat}
<1>3. 0 \in T
  BY <1>2 DEF Sums
<1>4. \A n \in 1 .. MaxClock : n - 1 \in T => n \in T
  BY <1>2 DEF Sums, Flights
<1>5. \A n \in 0 .. MaxClock : n \in T
  BY Zenon, <1>3, <1>4, Upward
<1>6. MaxClock \in 0 .. MaxClock
  OBVIOUS
<1> QED
  BY Zenon, <1>2, <1>5, <1>6

\* Only one flight's charge changes.
LEMMA TotalChanges ==
  ASSUME MaxClock \in Nat, NEW c \in [Flights -> Int], NEW d \in [Flights -> Int],
         NEW f \in Flights, \A g \in Flights : g # f => d[g] = c[g]
  PROVE  Total(d) = Total(c) - c[f] + d[f] /\ Total(c) \in Int
<1>1. PICK s \in [0 .. MaxClock -> Int] : Sums(c, s) /\ Total(c) = s[MaxClock]
  BY Zenon, TotalSums
<1>2. PICK t \in [0 .. MaxClock -> Int] : Sums(d, t) /\ Total(d) = t[MaxClock]
  BY Zenon, TotalSums
<1> DEFINE T == {n \in 0 .. MaxClock : t[n] = IF n < f THEN s[n] ELSE s[n] - c[f] + d[f]}
<1>3. 0 \in T
  BY <1>1, <1>2 DEF Sums, Flights
<1>4. ASSUME NEW n \in 1 .. MaxClock, n - 1 \in T PROVE n \in T
  <2>1. /\ t[n] = t[n - 1] + d[n] /\ s[n] = s[n - 1] + c[n] /\ n \in Flights /\ n \in 0 .. MaxClock
        /\ t[n - 1] = IF n - 1 < f THEN s[n - 1] ELSE s[n - 1] - c[f] + d[f]
        /\ n - 1 \in 0 .. MaxClock
    <3>1. n \in Flights /\ n \in 0 .. MaxClock /\ n - 1 \in 0 .. MaxClock
      BY DEF Flights
    <3> QED
      BY Zenon, <1>1, <1>2, <1>4, <3>1 DEF Sums
  <2>2. CASE n = f
    <3>1. t[n - 1] = s[n - 1] /\ ~(n < f)
      BY <2>1, <2>2
    <3>2. t[n] = s[n] - c[n] + d[n]
      BY <2>1, <3>1
    <3> QED
      BY <2>1, <2>2, <3>1, <3>2
  <2>3. CASE n # f
    <3>1. d[n] = c[n] /\ (n < f <=> n - 1 < f)
      BY <2>1, <2>3 DEF Flights
    <3>2. t[n] = IF n < f THEN s[n] ELSE s[n] - c[f] + d[f]
      <4>1. CASE n < f
        BY <2>1, <3>1, <4>1
      <4>2. CASE ~(n < f)
        <5>1. t[n - 1] = s[n - 1] - c[f] + d[f]
          BY Zenon, <2>1, <3>1, <4>2
        <5>2. t[n] = t[n - 1] + c[n] /\ s[n] = s[n - 1] + c[n]
          BY Zenon, <2>1, <3>1
        <5>3. s[n - 1] \in Int /\ c[n] \in Int /\ c[f] \in Int /\ d[f] \in Int
          BY Zenon, <2>1
        <5>4. t[n] = s[n] - c[f] + d[f]
          BY ONLY <5>1, <5>2, <5>3
        <5> QED
          BY Zenon, <4>2, <5>4
      <4> QED
        BY Zenon, <4>1, <4>2
    <3> QED
      BY Zenon, <2>1, <3>2
  <2> QED
    BY Zenon, <2>2, <2>3
<1>5. \A n \in 0 .. MaxClock : n \in T
  BY Zenon, <1>3, <1>4, Upward
<1>6. MaxClock \in 0 .. MaxClock
  OBVIOUS
<1>7. t[MaxClock] = s[MaxClock] - c[f] + d[f]
  BY <1>5, <1>6 DEF Flights
<1> QED
  BY Zenon, <1>1, <1>2, <1>6, <1>7

\* The bytes are numbers; a loader that declares more than its peak has failed.
Budgeted ==
  /\ Limit \in Nat /\ Growth \in Nat /\ Peak \in [Keys -> Nat] /\ Resident \in [Keys -> Nat]
  /\ \A k \in Keys : Resident[k] <= Peak[k]

\* The count is the sum of the charges, none of which is negative: a loader is charged its
\* peak until it shrinks.
Budget ==
  /\ charge \in [Flights -> Nat] /\ bytes \in Nat /\ bytes <= Limit /\ bytes = Total(charge)
  /\ \A c \in Callers : Position(c) = "loading" => charge[flight[c]] >= Peak[key[c]]

\* Nobody begins to load.
Steady == \A d \in Callers : Position(d)' = "loading" =>
             Position(d) = "loading" /\ key'[d] = key[d] /\ flight'[d] = flight[d]

LEMMA BudgetQuiet ==
  ASSUME Budget, Steady, UNCHANGED <<bytes, charge>>
  PROVE  Budget'
  BY Zenon DEF Budget, Steady

\* A charge and the count change by the same number of bytes.
LEMMA ChargeMoves ==
  ASSUME Sized, Budget, NEW f \in Flights, NEW n \in Nat, charge' = [charge EXCEPT ![f] = n],
         bytes' = bytes - charge[f] + n, bytes' <= Limit
  PROVE  /\ charge' \in [Flights -> Nat] /\ bytes' \in Nat /\ bytes' = Total(charge')
         /\ charge'[f] = n /\ \A g \in Flights : g # f => charge'[g] = charge[g]
<1>1. /\ charge' \in [Flights -> Nat] /\ charge'[f] = n
      /\ \A g \in Flights : g # f => charge'[g] = charge[g]
  BY Zenon DEF Budget
<1>2. /\ charge \in [Flights -> Int] /\ charge' \in [Flights -> Int] /\ MaxClock \in Nat
  BY <1>1 DEF Budget, Sized
<1>3. Total(charge') = Total(charge) - charge[f] + charge'[f]
  BY Zenon, <1>1, <1>2, TotalChanges
<1>4. bytes' = Total(charge')
  BY Zenon, <1>1, <1>3 DEF Budget
<1>5. Total(charge') \in Nat
  BY Zenon, <1>1, <1>2, TotalNat
<1> QED
  BY Zenon, <1>1, <1>4, <1>5

LEMMA BudgetMoves ==
  ASSUME Inv, Budgeted, Budget, Steady, NEW f \in Flights, NEW n \in Nat,
         charge' = [charge EXCEPT ![f] = n], bytes' = bytes - charge[f] + n, bytes' <= Limit,
         n >= charge[f] \/ \A d \in Callers : Position(d) = "loading" => flight[d] # f
  PROVE  Budget'
<1>1. /\ charge' \in [Flights -> Nat] /\ bytes' \in Nat /\ bytes' = Total(charge')
      /\ charge'[f] = n /\ \A g \in Flights : g # f => charge'[g] = charge[g]
  BY Zenon, ChargeMoves DEF Inv
<1>2. ASSUME NEW d \in Callers, Position(d)' = "loading" PROVE charge'[flight'[d]] >= Peak[key'[d]]
  <2>1. Position(d) = "loading" /\ key'[d] = key[d] /\ flight'[d] = flight[d]
    BY Zenon, <1>2 DEF Steady
  <2>2. flight[d] \in Flights /\ key[d] \in Keys /\ charge[flight[d]] >= Peak[key[d]]
    BY Zenon, <2>1, FlightTypes DEF Budget, Inv, Placed, Within, Loaders
  <2>3. CASE flight[d] # f
    BY Zenon, <1>1, <2>1, <2>2, <2>3
  <2>4. CASE flight[d] = f
    <3>1. n >= charge[f] /\ charge[f] \in Nat /\ Peak[key[d]] \in Nat
      BY Zenon, <2>1, <2>2, <2>4 DEF Budget, Budgeted
    <3>2. n >= Peak[key[d]]
      BY <2>2, <2>4, <3>1
    <3> QED
      BY Zenon, <1>1, <2>1, <2>4, <3>2
  <2> QED
    BY Zenon, <2>3, <2>4
<1> QED
  BY Zenon, <1>1, <1>2 DEF Budget

\* A charge that goes back does not exceed the count.
LEMMA BudgetReturns ==
  ASSUME Inv, Budgeted, Budget, Steady, NEW f \in Flights,
         charge' = [charge EXCEPT ![f] = 0], bytes' = bytes - charge[f],
         \A d \in Callers : Position(d) = "loading" => flight[d] # f
  PROVE  Budget'
<1>1. charge[f] \in Nat /\ bytes \in Nat /\ bytes <= Limit /\ Limit \in Nat
  BY Zenon DEF Budget, Budgeted
<1>2. bytes' = bytes - charge[f] + 0 /\ bytes' <= Limit /\ 0 \in Nat
  BY <1>1
<1> QED
  BY Zenon, <1>2, BudgetMoves

\* A step of one caller that does not make it load.
LEMMA OneSteady ==
  ASSUME NEW c \in Callers,
         \A d \in Callers \ {c} : /\ at'[d] = at[d] /\ resume'[d] = resume[d]
                                  /\ key'[d] = key[d] /\ flight'[d] = flight[d],
         \/ Position(c)' # "loading"
         \/ Position(c)' = Position(c) /\ key'[c] = key[c] /\ flight'[c] = flight[c]
  PROVE  Steady
  BY Zenon DEF Steady, Position

\* The charge of what is leaving is nobody's who loads.
LEMMA LeavingLoaded ==
  ASSUME Inv, NEW f \in Flights, result[f] = "ok" \/ Leaving(f)
  PROVE  \A d \in Callers : Position(d) = "loading" => flight[d] # f
  BY Zenon DEF Inv, Gone, Placed, Loaders

LEMMA RemoveSteady ==
  ASSUME Inv, NEW c \in Callers, NEW k \in Keys, at[c] # "destroy", Remove(c, k, at[c]),
         UNCHANGED <<key, flight>>
  PROVE  Steady
<1>1. at' = [at EXCEPT ![c] = "destroy"] /\ resume' = [resume EXCEPT ![c] = at[c]]
  BY Zenon DEF Remove, Go
<1>2. /\ at'[c] = "destroy" /\ resume'[c] = at[c]
      /\ \A d \in Callers \ {c} : at'[d] = at[d] /\ resume'[d] = resume[d]
  BY Zenon, <1>1 DEF Inv, Typed
<1> QED
  BY Zenon, <1>2, OneSteady DEF Position

\* A new load is charged its peak under a number that nobody was charged under.
LEMMA ElectBudget ==
  ASSUME Inv, Charged, Budgeted, Budget, NEW c \in Callers, Elect(c)
  PROVE  Budget'
<1> DEFINE f == clock + 1
           k == key[c]
<1>1. /\ at[c] = "lookup" /\ clock < MaxClock /\ bytes + Peak[k] <= Limit
      /\ flight' = [flight EXCEPT ![c] = f] /\ charge' = [charge EXCEPT ![f] = Peak[k]]
      /\ at' = [at EXCEPT ![c] = "loading"] /\ bytes' = bytes + Peak[k]
      /\ UNCHANGED <<key, resume>>
  BY Zenon DEF Elect, Lookup, Go, Fits, evictVars
<1>2. k \in Keys /\ manager
  BY Zenon, <1>1, ManagerLives DEF Inv, Placed, Position
<1>3. f \in Flights /\ f > clock
  BY <1>1 DEF Inv, Typed, Flights, Sized
<1>4. (\A d \in Callers : flight[d] # f) /\ \A j \in Keys : entries[j] # f
  BY FlightTypes DEF Inv, Typed, Placed, Fresh
<1>5. charge[f] = 0
  <2>1. result[f] = "none"
    BY Zenon, <1>3 DEF Inv, Fresh
  <2> QED
    BY Zenon, <1>2, <1>3, <1>4, <2>1 DEF Charged, NothingLeaks, Inv, Gone, Leaving
<1> HIDE DEF f, k
<1>6. Peak[k] \in Nat /\ bytes' = bytes - charge[f] + Peak[k] /\ bytes' <= Limit
  <2>1. Peak[k] \in Nat /\ bytes \in Nat
    BY Zenon, <1>2 DEF Budgeted, Budget
  <2> QED
    BY <1>1, <1>5, <2>1
<1>7. /\ charge' \in [Flights -> Nat] /\ bytes' \in Nat /\ bytes' = Total(charge')
      /\ charge'[f] = Peak[k] /\ \A g \in Flights : g # f => charge'[g] = charge[g]
  BY Zenon, <1>1, <1>3, <1>6, ChargeMoves DEF Inv
<1>8. ASSUME NEW d \in Callers, Position(d)' = "loading" PROVE charge'[flight'[d]] >= Peak[key'[d]]
  <2>1. CASE d = c
    <3>1. flight'[d] = f /\ key'[d] = k
      BY Zenon, <1>1, <2>1 DEF Inv, Typed, k
    <3> QED
      BY <1>6, <1>7, <3>1
  <2>2. CASE d # c
    <3>1. flight'[d] = flight[d] /\ key'[d] = key[d] /\ Position(d)' = Position(d)
      BY Zenon, <1>1, <2>2 DEF Inv, Typed, Position
    <3>2. flight[d] \in Flights /\ flight[d] # f
      BY Zenon, <1>4, <1>8, <3>1, FlightTypes DEF Within, Loaders
    <3> QED
      BY Zenon, <1>7, <1>8, <3>1, <3>2 DEF Budget
  <2> QED
    BY Zenon, <2>1, <2>2
<1> QED
  BY Zenon, <1>6, <1>7, <1>8 DEF Budget

\* A loader ends: its charge shrinks to what it declared, or goes back with all it allocated.
LEMMA LoadedBudget ==
  ASSUME Inv, Budgeted, Budget, NEW c \in Callers, NEW ok \in BOOLEAN, Loaded(c, ok)
  PROVE  Budget'
<1>1. PICK f \in Flights : f = flight[c] /\ at[c] = "loading"
  BY Zenon, FlightTypes DEF Loaded, Position, Within, Loaders
<1>2. /\ at' = [at EXCEPT ![c] = IF ok THEN "loaded" ELSE "unloadable"]
      /\ UNCHANGED <<key, flight, resume>>
  BY Zenon DEF Loaded, Go, callerVars, evictVars
<1>3. Position(c) = "loading" /\ name[f] = key[c] /\ key[c] \in Keys /\ charge[f] >= Peak[key[c]]
  BY Zenon, <1>1 DEF Position, Inv, Placed, Within, Loaders, Budget
<1>4. PICK p \in Nat, r \in Nat : p = Peak[name[f]] /\ r = Resident[name[f]] /\ r <= p
  BY Zenon, <1>3 DEF Budgeted
<1>5. /\ charge' = [charge EXCEPT ![f] = IF ok THEN charge[f] - p + r ELSE 0]
      /\ bytes' = bytes - (IF ok THEN p - r ELSE charge[f])
  BY Zenon, <1>1, <1>4 DEF Loaded, Shrunk, Budget
<1>6. Steady
  <2>1. /\ at'[c] \in {"loaded", "unloadable"} /\ \A d \in Callers \ {c} : at'[d] = at[d]
    BY Zenon, <1>2 DEF Inv, Typed
  <2>2. Position(c)' # "loading"
    BY Zenon, <2>1 DEF Position
  <2> QED
    BY Zenon, <1>2, <2>1, <2>2, OneSteady
<1>7. \A d \in Callers : Position(d)' = "loading" => flight[d] # f
  <2>1. Position(c)' # "loading"
    BY Zenon, <1>2 DEF Position, Inv, Typed
  <2> QED
    BY Zenon, <1>1, <1>3, <1>6, <2>1 DEF Inv, Loading, Loaders, Steady
<1>8. charge[f] \in Nat /\ bytes \in Nat /\ bytes <= Limit /\ Limit \in Nat /\ charge[f] >= p
  BY Zenon, <1>3, <1>4 DEF Budget, Budgeted
<1>9. PICK n \in Nat : /\ charge' = [charge EXCEPT ![f] = n] /\ bytes' = bytes - charge[f] + n
                       /\ bytes' <= Limit
  <2>1. CASE ok
    <3>1. /\ charge[f] - p + r \in Nat /\ bytes - (p - r) = bytes - charge[f] + (charge[f] - p + r)
          /\ bytes - (p - r) <= Limit
      BY <1>4, <1>8
    <3> QED
      BY Zenon, <1>5, <2>1, <3>1
  <2>2. CASE ~ok
    <3>1. 0 \in Nat /\ bytes - charge[f] = bytes - charge[f] + 0 /\ bytes - charge[f] <= Limit
      BY <1>8
    <3> QED
      BY Zenon, <1>5, <2>2, <3>1
  <2> QED
    BY Zenon, <2>1, <2>2
<1>10. /\ charge' \in [Flights -> Nat] /\ bytes' \in Nat /\ bytes' = Total(charge')
       /\ \A g \in Flights : g # f => charge'[g] = charge[g]
  BY Zenon, <1>9, ChargeMoves DEF Inv
<1>11. ASSUME NEW d \in Callers, Position(d)' = "loading" PROVE charge'[flight'[d]] >= Peak[key'[d]]
  <2>1. Position(d) = "loading" /\ key'[d] = key[d] /\ flight'[d] = flight[d] /\ flight[d] # f
    BY Zenon, <1>6, <1>7, <1>11 DEF Steady
  <2>2. flight[d] \in Flights
    BY Zenon, <2>1, FlightTypes DEF Within, Loaders
  <2> QED
    BY Zenon, <1>10, <2>1, <2>2 DEF Budget
<1> QED
  BY Zenon, <1>9, <1>10, <1>11 DEF Budget

LEMMA ReserveBudget ==
  ASSUME Inv, Budgeted, Budget, NEW c \in Callers, Reserve(c)
  PROVE  Budget'
<1>1. at[c] \in {"loading", "leased"} /\ UNCHANGED <<key, flight>>
  BY Zenon DEF Reserve, callerVars
<1>2. PICK f \in Flights : f = flight[c]
  BY Zenon, <1>1, FlightTypes DEF Position, Loaders, Within
<1>3. \/ /\ bytes + Growth <= Limit /\ bytes' = bytes + Growth
         /\ charge' = [charge EXCEPT ![f] = charge[f] + Growth] /\ UNCHANGED <<at, resume>>
      \/ (\E k \in EvictIdle : Remove(c, k, at[c])) /\ UNCHANGED <<bytes, charge>>
  BY Zenon, <1>2 DEF Reserve, Fits, evictVars, Budget
<1>4. CASE /\ bytes + Growth <= Limit /\ bytes' = bytes + Growth
           /\ charge' = [charge EXCEPT ![f] = charge[f] + Growth] /\ UNCHANGED <<at, resume>>
  <2>1. Steady
    BY Zenon, <1>1, <1>4 DEF Steady, Position
  <2>2. charge[f] \in Nat /\ Growth \in Nat /\ bytes \in Nat
    BY Zenon DEF Budget, Budgeted
  <2>3. /\ charge[f] + Growth \in Nat /\ bytes' = bytes - charge[f] + (charge[f] + Growth)
        /\ bytes' <= Limit /\ charge[f] + Growth >= charge[f]
    BY <1>4, <2>2
  <2> QED
    BY Zenon, <1>4, <2>1, <2>3, BudgetMoves
<1>5. CASE (\E k \in EvictIdle : Remove(c, k, at[c])) /\ UNCHANGED <<bytes, charge>>
  <2>1. Steady
    BY Zenon, <1>1, <1>5, EvictIdleEvictable, RemoveSteady
  <2> QED
    BY Zenon, <1>5, <2>1, BudgetQuiet
<1> QED
  BY Zenon, <1>3, <1>4, <1>5

\* The last reference to a resource outside the registry takes its charge along.
LEMMA ForgetBudget ==
  ASSUME Inv, Budgeted, Budget, Steady, NEW f \in Flights, NEW working, Forget(f, working)
  PROVE  Budget'
<1>1. CASE Orphan(f)
  <2>1. bytes' = bytes - charge[f] /\ charge' = [charge EXCEPT ![f] = 0] /\ ~manager
    BY Zenon, <1>1 DEF Forget, Orphan
  <2>2. \A d \in Callers : Position(d) # "loading"
    BY Zenon, <2>1 DEF Inv, Kept, Position
  <2> QED
    BY Zenon, <2>1, <2>2, BudgetReturns
<1>2. CASE ~Orphan(f)
  BY Zenon, <1>2, BudgetQuiet DEF Forget
<1> QED
  BY Zenon, <1>1, <1>2

LEMMA DestroyBudget ==
  ASSUME Inv, Budgeted, Budget, (\E c \in Callers : Destroy(c)) \/ DestroyExpired
  PROVE  Budget'
<1>1. ASSUME NEW c \in Callers, Destroy(c) PROVE Budget'
  <2>1. /\ at[c] = "destroy" /\ at' = [at EXCEPT ![c] = resume[c]]
        /\ resume' = [resume EXCEPT ![c] = "idle"] /\ UNCHANGED <<key, flight>>
        /\ charge' = [charge EXCEPT ![victim[c]] = 0] /\ bytes' = bytes - charge[victim[c]]
    BY Zenon, <1>1 DEF Destroy, Go, callerVars
  <2>2. victim[c] \in Flights /\ Leaving(victim[c])
    BY Zenon, <2>1, FlightTypes DEF Inv, Placed, Leaving
  <2>3. /\ at'[c] = resume[c] /\ resume[c] # "destroy"
        /\ \A d \in Callers \ {c} : at'[d] = at[d] /\ resume'[d] = resume[d]
    BY Zenon, <2>1 DEF Inv, Typed
  <2>4. Position(c)' = Position(c)
    BY Zenon, <2>1, <2>3 DEF Position
  <2>5. Steady
    BY Zenon, <2>1, <2>3, <2>4, OneSteady
  <2> QED
    BY Zenon, <2>1, <2>2, <2>5, LeavingLoaded, BudgetReturns
<1>2. CASE DestroyExpired
  <2>1. PICK f \in dying : bytes' = bytes - charge[f] /\ charge' = [charge EXCEPT ![f] = 0]
    BY Zenon, <1>2 DEF DestroyExpired
  <2>2. Steady
    BY Zenon, <1>2 DEF DestroyExpired, Steady, Position, callerVars, evictVars
  <2>3. f \in Flights /\ Leaving(f)
    BY Zenon DEF Inv, Typed, Leaving
  <2> QED
    BY Zenon, <2>1, <2>2, <2>3, LeavingLoaded, BudgetReturns
<1> QED
  BY Zenon, <1>1, <1>2

\* The registry goes with the charges of all that nobody refers to.
LEMMA DropManagerBudget ==
  ASSUME Inv, Budgeted, Budget, DropManager
  PROVE  Budget'
<1>1. PICK lost :
        /\ bytes' = bytes - Total([f \in Flights |-> IF f \in lost THEN charge[f] ELSE 0])
        /\ charge' = [f \in Flights |-> IF f \in lost THEN 0 ELSE charge[f]]
  BY Zenon DEF DropManager
<1>2. PICK gone : gone = [f \in Flights |-> IF f \in lost THEN charge[f] ELSE 0]
  BY Zenon
<1>3. /\ gone \in [Flights -> Nat] /\ charge' \in [Flights -> Nat] /\ charge \in [Flights -> Nat]
      /\ \A f \in Flights : charge[f] = gone[f] + charge'[f]
  BY <1>1, <1>2 DEF Budget
<1>4. gone \in [Flights -> Int] /\ charge' \in [Flights -> Int] /\ charge \in [Flights -> Int]
  BY <1>3
<1>5. Total(charge) = Total(gone) + Total(charge') /\ Total(gone) \in Nat /\ Total(charge') \in Nat
  BY Zenon, <1>3, <1>4, TotalAdds, TotalNat DEF Inv, Sized
<1>6. bytes' = bytes - Total(gone) /\ bytes = Total(charge) /\ bytes <= Limit /\ Limit \in Nat
  BY Zenon, <1>1, <1>2 DEF Budget, Budgeted
<1>7. bytes' = Total(charge') /\ bytes' \in Nat /\ bytes' <= Limit
  BY <1>5, <1>6
<1>8. \A d \in Callers : Position(d)' # "loading"
  BY Zenon DEF DropManager, Position
<1> QED
  BY Zenon, <1>3, <1>7, <1>8 DEF Budget

LEMMA StepBudget ==
  ASSUME Inv, Charged, Budgeted, Budget, [Next]_vars
  PROVE  Budget'
<1> USE DEF flightVars, callerVars, evictVars, cleanVars
<1>1. ASSUME NEW c \in Callers, NEW to \in {"idle", "lookup", "joined", "leased"},
             at' = [at EXCEPT ![c] = to], UNCHANGED <<resume>>,
             \A d \in Callers \ {c} : key'[d] = key[d] /\ flight'[d] = flight[d]
      PROVE  Steady
  <2>1. at'[c] = to /\ \A d \in Callers \ {c} : at'[d] = at[d]
    BY Zenon, <1>1 DEF Inv, Typed
  <2>2. Position(c)' # "loading"
    BY Zenon, <2>1 DEF Position
  <2> QED
    BY Zenon, <1>1, <2>1, <2>2, OneSteady
<1>2. ASSUME NEW c \in Callers, NEW k \in Keys, Load(c, k) PROVE Budget'
  <2>1. /\ at' = [at EXCEPT ![c] = "lookup"] /\ UNCHANGED <<resume, flight, bytes, charge>>
        /\ \A d \in Callers \ {c} : key'[d] = key[d]
    BY Zenon, <1>2 DEF Load, Go, Inv, Typed
  <2> QED
    BY Zenon, <1>1, <2>1, BudgetQuiet
<1>3. ASSUME NEW c \in Callers, Hit(c) \/ Joined(c) \/ Publish(c) PROVE Budget'
  <2>1. /\ \E to \in {"idle", "joined", "leased"} : at' = [at EXCEPT ![c] = to]
        /\ UNCHANGED <<resume, bytes, charge>>
    BY Zenon, <1>3 DEF Hit, Joined, Publish, Leave, Go
  <2>2. \A d \in Callers \ {c} : key'[d] = key[d] /\ flight'[d] = flight[d]
    BY Zenon, <1>3 DEF Hit, Joined, Publish, Leave, Inv, Typed
  <2> QED
    BY Zenon, <1>1, <2>1, <2>2, BudgetQuiet
<1>4. ASSUME NEW c \in Callers, MakeRoom(c) PROVE Budget'
  <2>1. at[c] = "lookup" /\ UNCHANGED <<bytes, charge, flight>>
    BY Zenon, <1>4 DEF MakeRoom, Lookup
  <2>2. CASE \E k \in EvictIdle : Remove(c, k, at[c]) /\ UNCHANGED key
    BY Zenon, <2>1, <2>2, EvictIdleEvictable, RemoveSteady, BudgetQuiet
  <2>3. CASE at' = [at EXCEPT ![c] = "idle"] /\ key' = [key EXCEPT ![c] = 0] /\ UNCHANGED resume
    <3>1. \A d \in Callers \ {c} : key'[d] = key[d]
      BY Zenon, <2>3 DEF Inv, Typed
    <3> QED
      BY Zenon, <1>1, <2>1, <2>3, <3>1, BudgetQuiet
  <2> QED
    BY Zenon, <1>4, <2>1, <2>2, <2>3 DEF MakeRoom, Go
<1>5. ASSUME NEW c \in Callers, Advance(c) PROVE Budget'
  BY Zenon, <1>3, <1>4, <1>5, ElectBudget, LoadedBudget, DestroyBudget DEF Advance
<1>6. ASSUME NEW c \in Callers, NEW k \in Keys, Evict(c, k) PROVE Budget'
  BY Zenon, <1>6, RemoveSteady, BudgetQuiet DEF Evict
<1>7. ASSUME NEW c \in Callers, NEW working \in BOOLEAN, Release(c, working) PROVE Budget'
  <2>1. PICK f \in Flights : f = flight[c]
    BY Zenon, <1>7, FlightTypes DEF Release, Position, Within
  <2>2. /\ at' = [at EXCEPT ![c] = "idle"] /\ UNCHANGED resume
        /\ Forget(f, IF working THEN {f} ELSE {})
        /\ \A d \in Callers \ {c} : key'[d] = key[d] /\ flight'[d] = flight[d]
    BY Zenon, <1>7, <2>1 DEF Release, Leave, Go, Inv, Typed
  <2> QED
    BY Zenon, <1>1, <2>2, ForgetBudget
<1>8. ASSUME NEW f \in Flights, NEW how \in {"pin", "keepalive"}, Unretain(f, how) PROVE Budget'
  <2>1. Forget(f, {}) /\ UNCHANGED <<at, key, flight, resume>>
    BY Zenon, <1>8 DEF Unretain
  <2>2. Steady
    BY Zenon, <2>1 DEF Steady, Position
  <2> QED
    BY Zenon, <2>1, <2>2, ForgetBudget
<1>9. CASE UNCHANGED <<bytes, charge, at, key, flight, resume>>
  BY Zenon, <1>9, BudgetQuiet DEF Steady, Position
<1>10. ASSUME NEW c \in Callers, NEW how \in {"pin", "keepalive"}, Retain(c, how) PROVE Budget'
  BY Zenon, <1>9, <1>10 DEF Retain
<1>11. ASSUME NEW f \in Flights, Drained(f) PROVE Budget'
  BY Zenon, <1>9, <1>11 DEF Drained
<1>12. CASE CollectExpired \/ UNCHANGED vars
  BY Zenon, <1>9, <1>12 DEF CollectExpired, vars
<1> QED
  BY Zenon, <1>2, <1>5, <1>6, <1>7, <1>8, <1>10, <1>11, <1>12, ReserveBudget, DestroyBudget,
     DropManagerBudget DEF Next

\* The byte count of the budget is at every moment the sum of what loaders, resident models and
\* models still being destroyed are charged, and it never exceeds the ceiling, for every number
\* of keys, callers and loads and whatever bytes they reserve, declare and allocate.
THEOREM BudgetKept ==
  ASSUME Sized, Budgeted
  PROVE  Spec => []BudgetExact
<1>1. Measured
  BY DEF Budgeted, Measured
<1>2. Init => Charged
  BY DEF Init, Charged, NothingLeaks, Flights
<1>3. Inv /\ Charged /\ [Next]_vars => Charged'
  BY Zenon, <1>1, StepCharges
<1>4. Init => Budget
  <2> SUFFICES ASSUME Init PROVE Budget
    BY Zenon
  <2>1. /\ charge \in [Flights -> Nat] /\ charge \in [Flights -> Int]
        /\ \A f \in Flights : charge[f] = charge[f] + charge[f]
    BY DEF Init
  <2>2. Total(charge) = Total(charge) + Total(charge) /\ Total(charge) \in Nat
    BY Zenon, <2>1, TotalAdds, TotalNat DEF Sized
  <2>3. Total(charge) = 0 /\ 0 \in Nat /\ 0 <= Limit
    <3>1. Limit \in Nat
      BY Zenon DEF Budgeted
    <3>2. \A k \in Nat : k + k = k => k = 0
      OBVIOUS
    <3>3. 0 <= Limit /\ 0 \in Nat
      BY <3>1
    <3> QED
      BY Zenon, <2>2, <3>2, <3>3
  <2>4. \A c \in Callers : Position(c) # "loading"
    BY Zenon DEF Init, Position
  <2> QED
    BY Zenon, <2>1, <2>3, <2>4 DEF Budget, Init
<1>5. Inv /\ Charged /\ Budget /\ [Next]_vars => Budget'
  BY Zenon, StepBudget
<1>6. Budget => BudgetExact
  BY Zenon DEF Budget, BudgetExact
<1> QED
  BY <1>2, <1>3, <1>4, <1>5, <1>6, InvHolds, PTL DEF Spec
=============================================================================
