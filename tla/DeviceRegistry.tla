--------------------------- MODULE DeviceRegistry ---------------------------
(***************************************************************************)
(* The process-wide provider and device registries of src/fabric/mod.rs.   *)
(* Providers and devices are cached weakly (process-lifetime providers     *)
(* strongly), opening runs under the device registry's lock, and dropping  *)
(* the last owner destroys native objects child first, outside any lock.   *)
(***************************************************************************)
EXTENDS Naturals, FiniteSets

CONSTANTS
  Openers, Keys,       \* threads; (engine, ordinal) pairs
  Ids,                 \* identities for providers and devices, 1 .. n
  EnumerateAttempts,   \* 4 in the code
  NoId

Lifetimes == {"instance", "process"}

VARIABLES
  present,    \* keys the provider currently enumerates
  providers,  \* id -> lifetime and native state of the providers created so far
  devices,    \* id -> key, lifetime, provider, owners and native state
  weak,       \* the device registry: ids it remembers
  slot,       \* lifetime -> the provider the instance registry remembers
  opening     \* what each thread does: opening, or idle

registryVars == <<present, providers, devices, weak, slot, opening>>

RegistryInit ==
  /\ present \in SUBSET Keys
  /\ providers = <<>> /\ devices = <<>> /\ weak = {}
  /\ slot = [l \in Lifetimes |-> NoId]
  /\ opening = [t \in Openers |-> [pc |-> "idle"]]

\* Strong owners: callers for a device, devices (until their native destruction
\* succeeded, or for ever) and in-flight opens for a provider.
LiveDevice(d) == devices[d].owners # {}
Users(p) == {d \in DOMAIN devices : devices[d].provider = p /\ devices[d].native # "destroyed"}
Pins(p) == {t \in Openers : opening[t].pc \in {"enumerate", "activate"} /\ opening[t].provider = p}
LiveProvider(p) ==
  \/ Users(p) # {} \/ Pins(p) # {}
  \/ slot["process"] = p

Locked == \E t \in Openers : opening[t].pc # "idle"
Extend(f, x) == [i \in 1 .. Cardinality(DOMAIN f) + 1 |-> IF i \in DOMAIN f THEN f[i] ELSE x]
NewId(f) == Cardinality(DOMAIN f) + 1
Go(t, state) == opening' = [opening EXCEPT ![t] = state]

Known(k, l) == {d \in weak : devices[d].key = k /\ devices[d].lifetime = l /\ LiveDevice(d)}

\* open_with_lifetime: a remembered device, or dead entries pruned and a new one.
Open(t, k, l) ==
  /\ ~Locked /\ \A d \in DOMAIN devices : t \notin devices[d].owners
  /\ IF Known(k, l) # {}
       THEN /\ LET d == CHOOSE d \in Known(k, l) : TRUE IN
               devices' = [devices EXCEPT ![d].owners = @ \union {t}]
            /\ UNCHANGED <<weak, opening>>
       ELSE /\ weak' = {d \in weak : LiveDevice(d)}
            /\ Go(t, [pc |-> "resolve", key |-> k, lifetime |-> l, attempt |-> 0, provider |-> NoId])
            /\ UNCHANGED devices
  /\ UNCHANGED <<present, providers, slot>>

\* Mutant: the process provider is cached weakly like the others.
Remember_Weak(l, p) == [slot EXCEPT !["instance"] = p]

Remember(l, p) == [slot EXCEPT ![l] = p]

\* resolve_with_lifetime: reuse the cached provider, or load one; a table, an
\* entry or the instance that is missing fails the whole open.
Resolve(t) ==
  /\ opening[t].pc = "resolve"
  /\ LET l == opening[t].lifetime IN
     \/ /\ slot[l] # NoId /\ LiveProvider(slot[l])
        /\ Go(t, [opening[t] EXCEPT !.pc = "enumerate", !.provider = slot[l]])
        /\ UNCHANGED <<providers, slot>>
     \/ /\ slot[l] = NoId \/ ~LiveProvider(slot[l])
        /\ NewId(providers) \in Ids
        /\ providers' = Extend(providers, [lifetime |-> l, native |-> "live"])
        /\ slot' = Remember(l, NewId(providers))
        /\ Go(t, [opening[t] EXCEPT !.pc = "enumerate", !.provider = NewId(providers)])
     \/ /\ slot[l] = NoId \/ ~LiveProvider(slot[l])
        /\ Go(t, [pc |-> "idle"]) /\ UNCHANGED <<providers, slot>>
  /\ UNCHANGED <<present, devices, weak>>

\* endpoints: the snapshot grew since it was counted, up to four times, or fits.
Enumerate(t) ==
  /\ opening[t].pc = "enumerate"
  /\ \/ /\ opening[t].attempt < EnumerateAttempts - 1
        /\ Go(t, [opening[t] EXCEPT !.attempt = @ + 1])
     \/ /\ opening[t].key \in present
        /\ Go(t, [opening[t] EXCEPT !.pc = "activate"])
     \/ Go(t, [pc |-> "idle"]) \* too small again, endpoint error or no such ordinal
  /\ UNCHANGED <<present, providers, devices, weak, slot>>

\* Endpoint::open activates the device and the registry remembers it.
Activate(t) ==
  /\ opening[t].pc = "activate"
  /\ \/ /\ NewId(devices) \in Ids
        /\ devices' = Extend(devices, [key |-> opening[t].key, lifetime |-> opening[t].lifetime,
                              provider |-> opening[t].provider, owners |-> {t}, native |-> "live"])
        /\ weak' = weak \union {NewId(devices)}
     \/ UNCHANGED <<devices, weak>> \* unqualified target or native failure
  /\ Go(t, [pc |-> "idle"])
  /\ UNCHANGED <<present, providers, slot>>

CloneDevice(t, d) ==
  /\ LiveDevice(d) /\ t \notin devices[d].owners /\ opening[t].pc = "idle"
  /\ \A e \in DOMAIN devices : t \notin devices[e].owners
  /\ devices' = [devices EXCEPT ![d].owners = @ \union {t}]
  /\ UNCHANGED <<present, providers, weak, slot, opening>>

DropDevice(t, d) ==
  /\ t \in devices[d].owners
  /\ devices' = [devices EXCEPT ![d].owners = @ \ {t}]
  /\ UNCHANGED <<present, providers, weak, slot, opening>>

\* DeviceInner::drop: a failed native destruction forgets the endpoint.
DestroyDevice(d) ==
  /\ ~LiveDevice(d) /\ devices[d].native = "live"
  /\ \E outcome \in {"destroyed", "leaked"} : devices' = [devices EXCEPT ![d].native = outcome]
  /\ UNCHANGED <<present, providers, weak, slot, opening>>

\* Instance::drop after the last endpoint; failure forgets the loaded library.
DestroyProvider(p) ==
  /\ ~LiveProvider(p) /\ providers[p].native = "live"
  /\ \E outcome \in {"destroyed", "leaked"} : providers' = [providers EXCEPT ![p].native = outcome]
  /\ UNCHANGED <<present, devices, weak, slot, opening>>

Arrive(k) ==
  /\ k \notin present /\ present' = present \union {k}
  /\ UNCHANGED <<providers, devices, weak, slot, opening>>

RegistryNext ==
  \/ \E t \in Openers :
       \/ \E k \in Keys, l \in Lifetimes : Open(t, k, l)
       \/ Resolve(t) \/ Enumerate(t) \/ Activate(t)
       \/ \E d \in DOMAIN devices : CloneDevice(t, d) \/ DropDevice(t, d)
  \/ \E d \in DOMAIN devices : DestroyDevice(d)
  \/ \E p \in DOMAIN providers : DestroyProvider(p)
  \/ \E k \in Keys : Arrive(k)

RegistrySpec == RegistryInit /\ [][RegistryNext]_registryVars

-----------------------------------------------------------------------------
\* "Live buffers keep their exact device identity" (mod.rs:530): all owners of
\* one ordinal in one lifetime share one device, no device outlives its native
\* provider even when a destruction failed, and a process-lifetime provider is
\* created once and never destroyed (494-495).
DeviceIdentity ==
  /\ \A d, e \in DOMAIN devices :
       LiveDevice(d) /\ LiveDevice(e) /\ devices[d].key = devices[e].key
       /\ devices[d].lifetime = devices[e].lifetime => d = e
  /\ \A d \in DOMAIN devices :
       /\ devices[d].native # "destroyed" => providers[devices[d].provider].native = "live"
       /\ devices[d].lifetime = providers[devices[d].provider].lifetime
  /\ \A p, q \in DOMAIN providers :
       providers[p].lifetime = "process" =>
         providers[p].native = "live" /\ (providers[q].lifetime = "process" => p = q)

=============================================================================
