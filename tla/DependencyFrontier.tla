------------------------- MODULE DependencyFrontier -------------------------
(***************************************************************************)
(* Interval frontiers (src/dependency_frontier.rs): for each allocation a   *)
(* sorted sequence of disjoint segments with the last writer and the        *)
(* readers since, from which the edges of the next node are inferred.       *)
(***************************************************************************)
EXTENDS Integers, Sequences, FiniteSets, SequencesExt, FiniteSetsExt

(* Frontier::dependencies.  Node numbers start at 1; 0 is no writer.        *)

Splice(segments, i, new) ==
  SubSeq(segments, 1, i - 1) \o new \o SubSeq(segments, i + 1, Len(segments))

SplitAt(segments, point) ==
  LET inside == {i \in DOMAIN segments : segments[i].first < point /\ point < segments[i].end}
  IN  IF inside = {} THEN segments
      ELSE LET i == Min(inside) IN
           Splice(segments, i, <<[segments[i] EXCEPT !.end = point],
                                 [segments[i] EXCEPT !.first = point]>>)

\* Mutant: a write keeps the readers it is ordered after.
Touch_KeepsWriter(segment, node, access) ==
  IF access = "Read" THEN [segment EXCEPT !.readers = @ \union {node}]
  ELSE [segment EXCEPT !.readers = {}]

Touch(segment, node, access) ==
  IF access = "Read" THEN [segment EXCEPT !.readers = @ \union {node}]
  ELSE [segment EXCEPT !.writer = node, !.readers = {}]

Found(segment, access) ==
  ({segment.writer} \ {0}) \union (IF access = "Read" THEN {} ELSE segment.readers)

\* The walk from position, filling gaps, over the segments from index on.
RECURSIVE Walk(_, _, _, _, _)
Walk(state, use, node, position, index) ==
  IF position >= use.end THEN state
  ELSE LET at == state.segments
           gap == index > Len(at) \/ at[index].first > position
           end == IF index > Len(at) THEN use.end ELSE Min({at[index].first, use.end})
           filled == IF gap
                     THEN SubSeq(at, 1, index - 1)
                          \o <<[first |-> position, end |-> end, writer |-> 0, readers |-> {}]>>
                          \o SubSeq(at, index, Len(at))
                     ELSE at
           segment == filled[index]
       IN  Walk([segments |-> [filled EXCEPT ![index] = Touch(segment, node, use.access)],
                 found |-> state.found \union Found(segment, use.access)],
                use, node, segment.end, index + 1)

UseOne(state, use, node) ==
  IF use.first >= use.end THEN state
  ELSE LET split == SplitAt(SplitAt(state.frontier[use.allocation], use.first), use.end)
           start == Cardinality({i \in DOMAIN split : split[i].end <= use.first}) + 1
           walked == Walk([segments |-> split, found |-> {}], use, node, use.first, start)
       IN  [frontier |-> [state.frontier EXCEPT ![use.allocation] = walked.segments],
            found |-> state.found \union walked.found]

\* The uses of one operation in declaration order; a node is never its own
\* dependency.
Dependencies(frontiers, node, uses) ==
  LET all == FoldLeft(LAMBDA state, use : UseOne(state, use, node),
                      [frontier |-> frontiers, found |-> {}], uses)
  IN  [all EXCEPT !.found = @ \ {node}]
=============================================================================
