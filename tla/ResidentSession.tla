--------------------------- MODULE ResidentSession ---------------------------
(***************************************************************************)
(* One resident GPU-NPU exchange of src/fabric/resident.rs.  The host      *)
(* submits both participants in either order, publishes RUN or ABORT in a  *)
(* word both devices poll, joins them, and drops the session.  Devices     *)
(* poll, run and retire on their own; a device may report a failure and    *)
(* keep accessing its storage.                                             *)
(***************************************************************************)
EXTENDS Naturals

Devices == {"gpu", "npu"}

Peer(d) == IF d = "gpu" THEN "npu" ELSE "gpu"

VARIABLES
  accepted,   \* participants with a native completion (gpu_done, npu_done)
  decision,   \* ResidentSession::decision: "none", "run", "abort"
  poisoned,   \* ResidentSession::poisoned
  word,       \* the startup word in memory
  published,  \* every cache transition of the decision succeeded
  device,     \* "idle", "polling", "running", "retired", "faulted"
  host        \* "open", "dropping", "released", "quarantined"

vars == <<accepted, decision, poisoned, word, published, device, host>>

Init ==
  /\ accepted = {} /\ decision = "none" /\ poisoned = FALSE
  /\ word = "none" /\ published = FALSE
  /\ device = [d \in Devices |-> "idle"]
  /\ host = "open"

Ready == ~poisoned /\ decision = "none"

\* The store, then one cache transition per queue family, each of which may fail.
Publish(value) == word' = value /\ published' \in BOOLEAN

Decide(value) ==
  /\ decision' = value
  /\ Publish(value)
  /\ poisoned' = (poisoned \/ ~published')

Submit(d) ==
  /\ host = "open" /\ Ready /\ d \notin accepted
  /\ accepted' = accepted \union {d}
  /\ device' = [device EXCEPT ![d] = "polling"]
  /\ UNCHANGED <<decision, poisoned, word, published, host>>

\* The native queue rejects the invocation; the peer is told to stop.
SubmitRejected(d) ==
  /\ host = "open" /\ Ready /\ d \notin accepted
  /\ Decide("abort")
  /\ UNCHANGED <<accepted, device, host>>

\* Mutant: one accepted participant is enough to start.
Complete_One == accepted # {}

Complete == accepted = Devices

Start ==
  /\ host = "open" /\ Ready /\ Complete
  /\ Decide("run")
  /\ UNCHANGED <<accepted, device, host>>

Abort ==
  /\ host = "open" /\ Ready
  /\ Decide("abort")
  /\ UNCHANGED <<accepted, device, host>>

-----------------------------------------------------------------------------
(* The devices *)

\* A polling program sees the word once it is in memory.
Observe(d) ==
  /\ device[d] = "polling" /\ word # "none"
  /\ device' = [device EXCEPT ![d] = IF word = "run" THEN "running" ELSE "retired"]
  /\ UNCHANGED <<accepted, decision, poisoned, word, published, host>>

\* The exchange needs its peer.
Finish(d) ==
  /\ device[d] = "running" /\ device[Peer(d)] \in {"running", "retired"}
  /\ device' = [device EXCEPT ![d] = "retired"]
  /\ UNCHANGED <<accepted, decision, poisoned, word, published, host>>

Fault(d) ==
  /\ device[d] \in {"polling", "running"}
  /\ device' = [device EXCEPT ![d] = "faulted"]
  /\ UNCHANGED <<accepted, decision, poisoned, word, published, host>>

-----------------------------------------------------------------------------
(* Joins and teardown *)

Failing == \E d \in accepted : device[d] = "faulted"

Retired == \A d \in accepted : device[d] = "retired"

\* wait_timeout: an error of either join poisons the session.
WaitFails ==
  /\ host = "open" /\ decision # "none" /\ Failing
  /\ poisoned' = TRUE
  /\ UNCHANGED <<accepted, decision, word, published, device, host>>

\* Mutant: an undecided session is joined as it is.
Undecided_Left == UNCHANGED <<decision, poisoned, word, published>>

Undecided == Decide("abort")

\* Drop: an undecided session is aborted first; a poisoned one is not.
Drop ==
  /\ host = "open"
  /\ host' = "dropping"
  /\ IF Ready THEN Undecided ELSE UNCHANGED <<decision, poisoned, word, published>>
  /\ UNCHANGED <<accepted, device>>

\* Mutant: the storage is released when the deadline has passed.
Safe_Deadline == ~poisoned

Safe == Retired /\ ~poisoned

\* The last join: retirement, an error, or ten seconds without either.
Joined ==
  /\ host = "dropping"
  /\ host' = IF Safe THEN "released" ELSE "quarantined"
  /\ poisoned' = (poisoned \/ Failing)
  /\ UNCHANGED <<accepted, decision, word, published, device>>

Next ==
  \/ \E d \in Devices : Submit(d) \/ SubmitRejected(d) \/ Observe(d) \/ Finish(d) \/ Fault(d)
  \/ Start \/ Abort \/ WaitFails \/ Drop \/ Joined

Spec == Init /\ [][Next]_vars

-----------------------------------------------------------------------------
(* "Publish RUN only after both native submissions have been accepted": a  *)
(* participant that runs has a peer that was accepted and that will see    *)
(* RUN too (submit_gpu, submit_npu, start).                                *)
RunTogether ==
  \A d \in Devices :
    device[d] = "running" => accepted = Devices /\ word = "run"

(* "A failed/timed-out teardown quarantines the complete session instead   *)
(* of releasing storage reachable by either device": after a release every *)
(* participant is idle or has retired (Drop).                              *)
ReleasedQuiet ==
  host = "released" => \A d \in Devices : device[d] \in {"idle", "retired"}
=============================================================================
