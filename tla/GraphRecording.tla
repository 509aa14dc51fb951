--------------------------- MODULE GraphRecording ---------------------------
(***************************************************************************)
(* Recording of raw GPU graphs (src/runtime.rs), with the caller's edges or *)
(* with edges inferred from byte ranges (src/access_graph.rs over           *)
(* src/dependency_frontier.rs), and their preparation as indirect batches   *)
(* within the native word limit (src/fabric/queue.rs).                      *)
(***************************************************************************)
EXTENDS DependencyFrontier

CONSTANTS
  Allocations,
  Arguments,     \* bindings of one kernel node: sequences of uses,
                 \* each an allocation, a byte range and an access
  Payloads,      \* dispatch words of one command
  NodeLimit      \* bound: nodes in one recording

VARIABLES
  kind,          \* "raw", or "access" for an AccessGraph
  nodes,         \* Graph::nodes
  frontier,      \* allocation -> sequence of segments
  failed,        \* whether some recording call returned an error
  prepared       \* the result of finish

graphVars == <<kind, nodes, frontier, failed, prepared>>

Recording == prepared = <<>>

GraphInit ==
  /\ kind \in {"raw", "access"} /\ nodes = <<>> /\ failed = FALSE
  /\ frontier = [a \in Allocations |-> <<>>] /\ prepared = <<>>

-----------------------------------------------------------------------------
(* Recording.                                                               *)

Latest(after) == Max(after \union {0}) \* 0: no dependency

Record(uses, after, words, join) ==
  nodes' = Append(nodes, [uses |-> uses, after |-> after, latest |-> Latest(after),
                          words |-> words, join |-> join])

\* Graph::fill, copy and dispatch with the caller's edges, and join.
RecordRaw(uses, after, words, join) ==
  /\ kind = "raw" /\ Recording /\ Len(nodes) < NodeLimit
  /\ after \subseteq DOMAIN nodes \* validate_dependencies
  /\ Record(uses, after, words, join)
  /\ UNCHANGED <<kind, frontier, failed, prepared>>

\* AccessGraph::fill, copy and dispatch update the frontier under the number
\* the node is going to have; the graph may still refuse the operation (unequal
\* spans, a foreign buffer, a launch it cannot prepare).
RecordAccess(uses, words, accepted) ==
  /\ kind = "access" /\ Recording /\ Len(nodes) < NodeLimit
  /\ LET found == Dependencies(frontier, Len(nodes) + 1, uses) IN
     /\ frontier' = found.frontier
     /\ found.found \subseteq DOMAIN nodes
     /\ IF accepted
          THEN Record(uses, found.found, words, FALSE) /\ UNCHANGED failed
          ELSE failed' = TRUE /\ UNCHANGED nodes
  /\ UNCHANGED <<kind, prepared>>

-----------------------------------------------------------------------------
(* Graph::finish.                                                           *)

Commands == SelectSeq([i \in DOMAIN nodes |-> i], LAMBDA i : ~nodes[i].join)

\* Mutant: a barrier is taken to complete the node it precedes.
Completed_Self(completed, barrier, index) == IF barrier THEN index + 1 ELSE completed

Completed(completed, barrier, index) == IF barrier THEN index ELSE completed

\* One barrier orders everything recorded before it.
Barriers ==
  LET step(state, i) ==
        LET barrier == nodes[i].latest # 0 /\ nodes[i].latest >= state.completed
        IN  [completed |-> Completed(state.completed, barrier, i),
             flags |-> Append(state.flags, barrier)]
  IN  FoldLeft(step, [completed |-> 1, flags |-> <<>>], Commands).flags

WordLimit == 1048576
BarrierWords == 10
MarkerWords == 32
PadWords(length) == LET count == 8 - (length % 8) IN IF count = 1 THEN 9 ELSE count

Size(words, barrier, profiled) ==
  words + (IF barrier THEN BarrierWords ELSE 0)
        + (IF profiled THEN 2 * (BarrierWords + MarkerWords) ELSE 0)

\* Mutant: the padding of a batch is not reserved.
Room_NoPadding == WordLimit

Room == WordLimit - 9

\* batch_ranges: first command of each batch, or <<>> when a command is too long.
BatchRanges(sizes) ==
  LET step(state, i) ==
        IF state.words + sizes[i] >= Room
        THEN [starts |-> Append(state.starts, i), words |-> sizes[i]]
        ELSE [state EXCEPT !.words = @ + sizes[i]]
  IN  FoldLeft(step, [starts |-> <<1>>, words |-> 0], [i \in DOMAIN sizes |-> i]).starts

\* Every batch is prepared before anything is launched.  A command that alone
\* exceeds a batch, or labels that do not match, fail the call.
Finish(profiled) ==
  /\ Recording /\ Commands # <<>>
  /\ LET flags == Barriers
         sizes == [i \in DOMAIN Commands |-> Size(nodes[Commands[i]].words, flags[i], profiled)]
     IN  /\ \A i \in DOMAIN sizes : sizes[i] < Room
         /\ prepared' = <<[commands |-> Commands, flags |-> flags, sizes |-> sizes,
                           starts |-> BatchRanges(sizes)]>>
  /\ UNCHANGED <<kind, nodes, frontier, failed>>

GraphNext ==
  \/ \E uses \in Arguments, after \in SUBSET DOMAIN nodes, words \in Payloads, join \in BOOLEAN :
       RecordRaw(uses, after, words, join)
  \/ \E uses \in Arguments, words \in Payloads, accepted \in BOOLEAN :
       RecordAccess(uses, words, accepted)
  \/ \E profiled \in BOOLEAN : Finish(profiled)

GraphSpec == GraphInit /\ [][GraphNext]_graphVars
-----------------------------------------------------------------------------
Overlap(u, v) ==
  /\ "Read" # u.access \/ "Read" # v.access
  /\ u.allocation = v.allocation /\ Max({u.first, v.first}) < Min({u.end, v.end})
Conflict(i, j) == \E u \in ToSet(nodes[i].uses), v \in ToSet(nodes[j].uses) : Overlap(u, v)

Reaches(i, j) ==
  LET step(set, k) == IF k \in set THEN set \union nodes[k].after ELSE set
  IN  i \in FoldLeft(step, {j}, Reverse([k \in 1 .. j |-> k]))

\* The batches and barriers make command p finish before command q starts.
Ordered(g, p, q) ==
  \/ \E r \in p + 1 .. q : g.flags[r]
  \/ \E b \in ToSet(g.starts) : p < b /\ b <= q

OrderedBy(relation(_, _)) ==
  \A g \in ToSet(prepared) : \A p, q \in DOMAIN g.commands :
    p < q /\ relation(g.commands[p], g.commands[q]) => Ordered(g, p, q)

\* One barrier per dependency chain suffices (runtime.rs:1756-1759): a prepared
\* graph orders every pair its edges order, through joins and across batches,
\* and with inferred edges every pair of conflicting byte ranges.  The second
\* is about recordings without a refused operation.
GraphOrder ==
  /\ OrderedBy(Reaches)
  /\ kind = "access" /\ ~failed => OrderedBy(Conflict)

\* The same where some operation was refused ("A raw GPU graph whose edges are
\* inferred from declared buffer access", access_graph.rs:18).
RefusedOrder == kind = "access" => OrderedBy(Conflict)

WordsOf(g, first, next) ==
  FoldLeft(LAMBDA n, i : n + g.sizes[i], 0, [i \in 1 .. next - first |-> first + i - 1])

\* Every batch with its padding fits the twenty-bit size of an indirect buffer
\* (queue.rs:313-315, 974), so no prepared graph is refused after it was split.
BatchesFit ==
  \A g \in ToSet(prepared) : \A b \in DOMAIN g.starts :
    LET next == IF b = Len(g.starts) THEN Len(g.commands) + 1 ELSE g.starts[b + 1]
        words == WordsOf(g, g.starts[b], next)
    IN  g.starts[b] < next /\ words + PadWords(words) < WordLimit
=============================================================================
