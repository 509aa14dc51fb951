---------------------------- MODULE MCScheduler ----------------------------
(***************************************************************************)
(* Instances of Scheduler for TLC.  A behaviour belongs to one scenario,   *)
(* which says who submits what and what else the application does.         *)
(***************************************************************************)
EXTENDS Scheduler, Sequences, TLC

CONSTANTS w1, w2, c1, c2, copy, chain, probe, fork, steps, x, y, Scenarios
VARIABLE scenario

Read(s)  == [storage |-> s, region |-> 1, write |-> FALSE]
Write(s) == [storage |-> s, region |-> 1, write |-> TRUE]
Op(lane, deps, uses) == [lane |-> lane, dependencies |-> deps, uses |-> uses]

MCOperations ==
  [g \in Graphs |->
    CASE g = copy  -> <<Op(0, {}, {Write(x)})>>
      [] g = chain -> <<Op(0, {}, {Write(x)}), Op(Compute, {1}, {Read(x), Write(y)})>>
      [] g = probe -> <<Op(Compute, {}, {Read(x)})>>
      [] g = fork  -> <<Op(Compute, {}, {Read(x)}), Op(3, {}, {Read(x)})>>
      [] g = steps -> <<Op(Compute, {}, {Read(x)}), Op(Compute, {1}, {Read(x)})>>]
-----------------------------------------------------------------------------
\* One client submits.  `workers' are the threads of the runtime,
\* `slots' is how many slots of a graph are used, `timed' allows waits with a timeout.
Plain ==
  [graphs |-> {}, slots |-> 1, tickets |-> 2, submitters |-> {c1}, natives |-> {},
   hosts |-> {}, cancellers |-> {}, failing |-> {}, drops |-> FALSE, workers |-> {w1},
   timed |-> FALSE]

Order    == [Plain EXCEPT !.graphs = {chain, probe}, !.tickets = 3, !.cancellers = {c1}]
Faults   == [Plain EXCEPT !.graphs = {chain, probe}, !.cancellers = {c1}, !.failing = {chain},
                          !.timed = TRUE, !.workers = {w1, w2}]
Turns    == [Plain EXCEPT !.graphs = {steps, fork}, !.slots = 2, !.workers = {w1, w2}]
Reuse    == [Plain EXCEPT !.graphs = {probe}, !.tickets = 3, !.submitters = {c1, c2},
                          !.cancellers = {c2}]
Native   == [Plain EXCEPT !.graphs = {chain}, !.natives = {c1, c2}, !.tickets = 4,
                          !.workers = {w1, w2}]
Host     == [Plain EXCEPT !.graphs = {chain}, !.hosts = {c1, c2}, !.failing = {chain}]
Shutdown == [Plain EXCEPT !.graphs = {chain, probe}, !.failing = {probe}, !.drops = TRUE,
                          !.workers = {w1, w2}]
Safety   == {Order, Faults, Turns, Reuse, Native, Host, Shutdown}

Waits    == [Plain EXCEPT !.graphs = {chain, probe}, !.cancellers = {c1}, !.failing = {chain}]
Crowd    == [Plain EXCEPT !.graphs = {chain, probe}, !.workers = {w1, w2}]
Stages   == [Plain EXCEPT !.graphs = {chain}, !.natives = {c1, c2}, !.tickets = 3,
                          !.workers = {w1, w2}]
Mappings == [Plain EXCEPT !.graphs = {copy}, !.hosts = {c2}, !.failing = {copy}]
Exit     == [Plain EXCEPT !.graphs = {probe}, !.cancellers = {c1}, !.failing = {probe},
                          !.drops = TRUE, !.workers = {w1, w2}]
Progress == {Waits, Crowd, Stages, Mappings, Exit}

\* A stage awaits an upload that it has submitted.
Awaits   == {[Stages EXCEPT !.graphs = {copy}, !.timed = TRUE]}

Within ==
  /\ sequence' <= scenario.tickets
  /\ \A c \in Clients :
       /\ graph'[c] \in scenario.graphs \union {None}
       /\ graph'[c] # graph[c] => graph'[c] = None \/ sequence < scenario.tickets
       /\ graph'[c] # None \/ handles'[c] # {} => c \in scenario.submitters
       /\ at'[c] = "await" => scenario.timed
       /\ at'[c] = "cancel" => c \in scenario.cancellers
       /\ at'[c] = "native" \/ c \in leases' => c \in scenario.natives
       /\ at'[c] \in Asking => c \in scenario.hosts
  /\ \A g \in Graphs : quarantined'[g] => quarantined[g] \/ g \in scenario.failing
                          \/ \E t \in Threads : at[t] = "run" /\ carried[t] /\ at'[t] # "run"
  /\ \A q \in Tickets : run'[q] # None => run'[q][2] <= scenario.slots
  /\ ~app' => scenario.drops
  /\ \A w \in Workers \ scenario.workers : at'[w] = "poll" /\ w \notin changed'

MCInit == Init /\ scenario \in Scenarios
MCNext == Next /\ Within /\ UNCHANGED scenario
MCSpec == MCInit /\ [][MCNext]_<<vars, scenario>>
MCFairness ==
  /\ \A w \in Workers : WF_vars(w \in scenario.workers /\ Step(w))
  /\ \A c \in Clients : WF_vars(Step(c) \/ Call(c)) /\ SF_vars(NativeDrop(c))
MCFairSpec == MCSpec /\ MCFairness
=============================================================================
