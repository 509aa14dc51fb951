--------------------------- MODULE MCInferencePool ---------------------------
(***************************************************************************)
(* Instances of InferencePool for TLC.  A pool of one slot is used in      *)
(* every way by two leases in turn; a pool of two slots is shared by three *)
(* acquisitions that poll, each with one submission and no staging.        *)
(***************************************************************************)
EXTENDS InferencePool, TLC
CONSTANTS a, b

Within ==
  IF Cardinality(Slots) = 1 THEN asked' <= 2
  ELSE /\ \A c \in Callers : how'[c] \in {"none", "async"}
       /\ \A j \in Jobs : jobs'[j].status # "none" => j <= 2 /\ jobs'[j].kind = "graph"
       /\ exported' = {}

MCNext == Next /\ Within
MCSpec == Init /\ [][MCNext]_vars /\ Fairness
=============================================================================
