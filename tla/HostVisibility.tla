--------------------------- MODULE HostVisibility ---------------------------
(***************************************************************************)
(* Host cache maintenance of shared backing: how the two ends of a transfer *)
(* resolve to native attachments (src/fabric/visibility.rs, memory.rs), and *)
(* the ranges prepared and executed on the host's side of it.  A buffer is  *)
(* a view of an allocation made from a profile, or of an import of it.      *)
(***************************************************************************)
EXTENDS Naturals, Sequences, FiniteSets, SequencesExt

CONSTANTS
  Agents,        \* devices
  Bytes,         \* bytes of the allocation
  RangeLists     \* lists of ranges, each with first and end, that callers pass

VARIABLES
  profile,       \* devices of the AllocationProfile, in order
  backing,       \* the chain of buffers: the import, if any, before its source
  view,          \* [offset, length] of the Buffer handle
  facts,         \* CacheTransition of the host's half and reachability
  asked,         \* the ranges of the call
  work,          \* PreparedHostVisibility: <<>>, or one sequence of ranges
  done,          \* ranges the work has executed
  maintained,    \* bytes of the root mapping that were flushed or invalidated
  verdict        \* "none", "refused" or "failed" by the provider, "done"

visibilityVars == <<profile, backing, view, facts, asked, work, done, maintained, verdict>>

Kinds == {"Unknown", "None", "Range", "Global"}
HostExecutors == {"HostDirect", "HostApi"}
Executors == {"None", "Queue", "Program"} \union HostExecutors

\* AllocationProfile::allocate creates the root with the profile's devices in
\* its order; share_owned attaches the devices the source lacks.
VisibilityInit ==
  /\ profile \in {d \in UNION {[1 .. n -> Agents] : n \in 1 .. Cardinality(Agents)} :
                    IsInjective(d)}
  /\ LET missing == SetToSeq(Agents \ ToSet(profile)) IN
     backing \in {<<profile>>} \union (IF missing = <<>> THEN {} ELSE {<<missing, profile>>})
  /\ view \in {v \in [offset : 0 .. Bytes - 1, length : 1 .. Bytes] : v.offset + v.length <= Bytes}
  /\ facts \in [reachable : BOOLEAN, kind : Kinds, executor : Executors]
  /\ asked = <<>> /\ work = <<>> /\ done = 0 /\ maintained = {} /\ verdict = "none"

-----------------------------------------------------------------------------
(* Sites.                                                                   *)

NoSite == [level |-> 0, ordinal |-> 0]
Position(devices, d) == CHOOSE i \in DOMAIN devices : devices[i] = d

\* Buffer::site of a device: the nearest buffer of the chain that attaches it.
DeviceSite(d) ==
  LET levels == {l \in DOMAIN backing : d \in ToSet(backing[l])} IN
  IF levels = {} THEN NoSite
  ELSE [level |-> Min(levels), ordinal |-> Position(backing[Min(levels)], d)]

\* Mutant: an import's own mapping is the host's site.
HostLevel_Import == 1

\* Buffer::site of the host, and the mapping host_transition works on.
HostLevel == Len(backing)

\* AllocationProfile::visibility asks with the profile's own ordinals.
ProspectiveSite(d) ==
  IF d \in ToSet(profile) THEN [level |-> Len(backing), ordinal |-> Position(profile, d)] ELSE NoSite

-----------------------------------------------------------------------------
(* Preparation.                                                             *)

\* Mutant: a range ends where the last range merged into it ends.
Merged_Last(last, range) == [last EXCEPT !.end = range.end]

Merged(last, range) == [last EXCEPT !.end = Max({@, range.end})]

\* coalesce_ranges, for ranges inside the buffer.
Coalesced(ranges) ==
  LET step(result, range) ==
        IF result # <<>> /\ Last(result).end >= range.first
        THEN Append(Front(result), Merged(Last(result), range))
        ELSE Append(result, range)
      nonempty == SelectSeq(ranges, LAMBDA range : range.first < range.end)
  IN  FoldLeft(step, <<>>, SortSeq(nonempty, LAMBDA a, b : a.first < b.first))

Qualified == facts.kind = "None" \/ facts.executor \in HostExecutors
OutOfBounds(range) == range.first > range.end \/ range.end > view.length

\* MemoryVisibility::prepare_host.
Prepare(ranges) ==
  /\ verdict = "none" /\ work = <<>>
  /\ asked' = ranges
  /\ IF \/ ~facts.reachable \/ facts.kind = "Unknown" \/ ~Qualified
        \/ \E range \in ToSet(ranges) : OutOfBounds(range)
     THEN verdict' = "refused" /\ UNCHANGED work
     ELSE /\ LET merged == Coalesced(ranges)
                 whole == merged # <<>> /\ facts.kind \in {"None", "Global"}
             IN  work' = <<IF whole THEN <<[first |-> 0, end |-> view.length]>> ELSE merged>>
          /\ UNCHANGED verdict
  /\ UNCHANGED <<profile, backing, view, facts, done, maintained>>

-----------------------------------------------------------------------------
(* host_transition: the checks, then a fence, or a call of the provider     *)
(* with the offset inside the root mapping.                                 *)

Accepts(range) == ~OutOfBounds(range) /\ facts.reachable /\ Qualified

\* The position host_transition passes for a byte of the buffer.
Placed(byte) == byte

Maintain(range) ==
  maintained' = IF facts.kind = "None" THEN maintained
                ELSE maintained \union {Placed(b) : b \in range.first .. range.end - 1}

\* PreparedHostVisibility::execute, one range; the provider may fail.
Execute ==
  /\ verdict = "none" /\ work # <<>>
  /\ IF done = Len(work[1])
     THEN verdict' = "done" /\ UNCHANGED <<done, maintained>>
     ELSE LET range == work[1][done + 1] IN
          \/ /\ ~Accepts(range) /\ verdict' = "refused"
             /\ UNCHANGED <<done, maintained>>
          \/ /\ Accepts(range) /\ facts.kind # "None" /\ verdict' = "failed"
             /\ UNCHANGED <<done, maintained>>
          \/ /\ Accepts(range) /\ Maintain(range) /\ done' = done + 1
             /\ UNCHANGED verdict
  /\ UNCHANGED <<profile, backing, view, facts, asked, work>>

\* release_host or acquire_host on one range.
Direct(range) ==
  /\ verdict = "none" /\ work = <<>>
  /\ asked' = <<range>>
  /\ IF Accepts(range)
     THEN \/ Maintain(range) /\ verdict' = "done"
          \/ facts.kind # "None" /\ verdict' = "failed" /\ UNCHANGED maintained
     ELSE verdict' = "refused" /\ UNCHANGED maintained
  /\ UNCHANGED <<profile, backing, view, facts, work, done>>

VisibilityNext ==
  \/ \E ranges \in RangeLists : Prepare(ranges)
  \/ \E ranges \in RangeLists : Len(ranges) = 1 /\ Direct(ranges[1])
  \/ Execute

VisibilitySpec == VisibilityInit /\ [][VisibilityNext]_visibilityVars

-----------------------------------------------------------------------------
\* A device's site is one of its own attachments, the prospective site of a
\* profile is the site its allocation gets, and the host's site is the mapping
\* on which maintenance is done, through imports ("Host aliases resolve to their
\* original mapping", visibility.rs:190).
SitesExact ==
  \A d \in Agents :
    LET site == DeviceSite(d) IN
    /\ site # NoSite => backing[site.level][site.ordinal] = d
    /\ d \in ToSet(profile) => site = ProspectiveSite(d)
    /\ backing[HostLevel] = profile

Requested == {b \in 0 .. view.length : \E r \in ToSet(asked) : r.first <= b /\ b < r.end}

\* Prepared work was validated once: executing it is refused by no check.  Its
\* ranges are ordered, apart and as few as the bytes allow.  Complete, it has
\* maintained the requested bytes of the buffer, and nothing else unless the
\* transition is global.  The bytes are those of a buffer that starts where its
\* allocation does: host_transition passes a view's own offsets unshifted, where
\* Buffer::cache_control adds the view's offset (memory.rs:206-210).
Covered(bytes) ==
  verdict = "done" /\ facts.kind # "None" =>
    /\ bytes \subseteq maintained
    /\ facts.kind = "Range" => maintained = bytes

HostMaintained ==
  /\ work # <<>> => verdict # "refused"
  /\ \A ranges \in ToSet(work) : \A i \in 1 .. Len(ranges) - 1 :
       ranges[i].end < ranges[i + 1].first
  /\ view.offset = 0 => Covered(Requested)
=============================================================================
