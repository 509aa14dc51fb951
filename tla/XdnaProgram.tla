---------------------------- MODULE XdnaProgram ----------------------------
(***************************************************************************)
(* A bound XDNA entry (src/fabric/xdna.rs): a window of accepted            *)
(* invocations on one native queue, leases on the bindings shared by all of *)
(* them, checked retirement, the composed transaction and the drop that     *)
(* quarantines what may still be reached.  Every native operation holds the *)
(* program's lock, a blocking wait included; only is_complete does not.     *)
(***************************************************************************)
EXTENDS Naturals, Sequences, FiniteSets, SequencesExt

CONSTANTS
  Bindings,      \* buffers the entry is bound to
  Extra,         \* buffers a composed transaction may add
  Window,        \* 128 in the code
  SubmissionLimit, \* bound: accepted invocations
  HandleLimit,   \* bound: clones of the program, completions included
  CommandLimit   \* longest transaction, u32::MAX bytes in the code

VARIABLES
  buffers,       \* Program::buffers
  pending,       \* State::pending
  leases,        \* State::leases
  retired,       \* State::retired
  cached,        \* Program::retired, read without the lock
  accepted,      \* last submission the provider returned
  executed,      \* invocations the NPU has completed, in order (external)
  stuck,         \* the context failed: nothing completes or retires any more
  handles,       \* XdnaProgram clones
  points,        \* submissions with a live XdnaCompletion
  program,       \* "unopened", "live", "closed", or "quarantined" for good
  command        \* transaction: operations and length of the header, records

xdnaVars == <<buffers, pending, leases, retired, cached, accepted, executed, stuck, handles,
              points, program, command>>

HeaderLength == 1 \* 16 bytes; a record is one unit here

XdnaInit ==
  /\ buffers = Bindings /\ pending = <<>> /\ leases = {} /\ retired = 0 /\ cached = 0
  /\ accepted = 0 /\ executed = 0 /\ stuck = FALSE /\ handles = 0 /\ points = {}
  /\ program = "unopened"
  /\ command = [operations |-> 2, length |-> HeaderLength + 2, body |-> <<"establish", "invoke">>]

\* prepare_xdna: whole buffers with ranges inside them, each kept once.  A native
\* tree that was only partly built is closed, or quarantined, like a program.
PrepareXdna ==
  /\ program = "unopened"
  /\ \/ program' = "live" /\ handles' = 1
     \/ program' \in {"closed", "quarantined"} /\ UNCHANGED handles
  /\ UNCHANGED <<buffers, pending, leases, retired, cached, accepted, executed, stuck, points,
                 command>>

Live == program = "live" /\ handles + Cardinality(points) > 0

-----------------------------------------------------------------------------
\* Mutant: a retired invocation gives up the leases of the others.
Released_Any(left) == TRUE

Released(left) == left = <<>>

\* Program::wait when the provider answers that `point` has retired.
Retire(point) ==
  /\ retired' = point
  /\ pending' = SelectSeq(pending, LAMBDA p : p > point)
  /\ leases' = IF Released(pending') THEN {} ELSE leases
  /\ cached' = point

\* wait, wait_timeout and refresh.  A point retired before is answered at once,
\* a deadline or a provider error changes nothing.
WaitPoint(p) ==
  /\ Live /\ p \in points /\ p > retired
  /\ ~stuck /\ p <= executed
  /\ Retire(p)
  /\ UNCHANGED <<buffers, accepted, executed, stuck, handles, points, program, command>>

\* Mutant: a full window is not looked at.
Full_Never == FALSE

Full == Len(pending) = Window

\* The oldest of a full window can be retired without waiting.
Reclaimable == ~stuck /\ Head(pending) <= executed

\* Leases are taken when there are none; one that is refused gives up the
\* others.  A rejected submission keeps them only for earlier invocations.
Submit(left, held) ==
  \/ /\ pending' = Append(left, accepted + 1)
     /\ leases' = held
     /\ accepted' = accepted + 1
     /\ points' = points \union {accepted + 1}
     /\ handles' = handles
  \/ /\ pending' = left
     /\ leases' = IF left = <<>> THEN {} ELSE held
     /\ UNCHANGED <<accepted, points, handles>>

Dispatch ==
  /\ program = "live" /\ handles > 0 /\ accepted < SubmissionLimit
  /\ handles + Cardinality(points) < HandleLimit
  /\ LET reclaim == Full /\ Reclaimable
         left == IF reclaim THEN Tail(pending) ELSE pending
         kept == IF reclaim /\ Released(left) THEN {} ELSE leases
     IN
     /\ Full => Reclaimable \* else Busy
     /\ retired' = IF reclaim THEN Head(pending) ELSE retired
     /\ cached' = IF reclaim THEN Head(pending) ELSE cached
     /\ \/ Submit(left, IF kept = {} THEN buffers ELSE kept)
        \/ /\ kept = {} /\ buffers # {}
           /\ pending' = left /\ leases' = {}
           /\ UNCHANGED <<accepted, points, handles>>
  /\ UNCHANGED <<buffers, executed, stuck, program, command>>

-----------------------------------------------------------------------------
\* Mutant: an entry that has run before is composed again.
Composable_Always == TRUE

Composable == pending = <<>> /\ retired = 0

\* Mutant: the header does not count the records after the invocation.
Composed_Prefix(prefix, suffix) ==
  [operations |-> command.operations + Len(prefix),
   length |-> command.length + Len(prefix) + Len(suffix),
   body |-> prefix \o command.body \o suffix]

\* compose_transaction.
Composed(prefix, suffix) ==
  [operations |-> command.operations + Len(prefix) + Len(suffix),
   length |-> command.length + Len(prefix) + Len(suffix),
   body |-> prefix \o command.body \o suffix]

\* wrap_transaction consumes an exclusive program.  The added buffers are
\* retained before the native command is replaced; any failure drops the
\* program, and with nothing pending that closes it.
WrapTransaction(added, prefix, suffix, replaced) ==
  /\ program = "live" /\ handles = 1 /\ points = {} /\ Composable
  /\ replaced => Composed(prefix, suffix).length <= CommandLimit
  /\ IF replaced
     THEN /\ buffers' = buffers \union added /\ command' = Composed(prefix, suffix)
          /\ UNCHANGED <<handles, program>>
     ELSE /\ handles' = 0 /\ program' \in {"closed", "quarantined"}
          /\ UNCHANGED <<buffers, command>>
  /\ UNCHANGED <<pending, leases, retired, cached, accepted, executed, stuck, points>>

CloneProgram ==
  /\ program = "live" /\ handles > 0 /\ handles + Cardinality(points) < HandleLimit
  /\ handles' = handles + 1
  /\ UNCHANGED <<buffers, pending, leases, retired, cached, accepted, executed, stuck, points,
                 program, command>>

\* Program::drop with the last owner: up to ten seconds for the newest point,
\* then close.  Without proof of either the ownership chain is forgotten.
LastOwner ==
  \/ /\ pending # <<>> => ~stuck /\ Last(pending) <= executed
     /\ \/ program' = "closed" /\ pending' = <<>> /\ leases' = {}
        \/ program' = "quarantined" /\ UNCHANGED <<pending, leases>>
  \/ pending # <<>> /\ program' = "quarantined" /\ UNCHANGED <<pending, leases>>

DropHandle(p) ==
  /\ Live
  /\ IF p = 0 THEN handles > 0 /\ handles' = handles - 1 /\ UNCHANGED points
              ELSE p \in points /\ points' = points \ {p} /\ UNCHANGED handles
  /\ IF handles' + Cardinality(points') = 0 THEN LastOwner
                                            ELSE UNCHANGED <<pending, leases, program>>
  /\ UNCHANGED <<buffers, retired, cached, accepted, executed, stuck, command>>

-----------------------------------------------------------------------------
(* The NPU (external): one context, invocations complete in order.          *)

NpuCompletes ==
  /\ ~stuck /\ executed < accepted /\ program # "closed"
  /\ executed' = executed + 1
  /\ UNCHANGED <<buffers, pending, leases, retired, cached, accepted, stuck, handles, points,
                 program, command>>

NpuStops ==
  /\ ~stuck /\ stuck' = TRUE
  /\ UNCHANGED <<buffers, pending, leases, retired, cached, accepted, executed, handles, points,
                 program, command>>

XdnaNext ==
  \/ \E p \in points : WaitPoint(p)
  \/ PrepareXdna \/ Dispatch \/ CloneProgram
  \/ \E added \in SUBSET Extra, prefix, suffix \in {<<>>, <<"added">>}, replaced \in BOOLEAN :
       WrapTransaction(added, prefix, suffix, replaced)
  \/ \E p \in points \union {0} : DropHandle(p)
  \/ NpuCompletes \/ NpuStops

XdnaSpec == XdnaInit /\ [][XdnaNext]_xdnaVars

-----------------------------------------------------------------------------
\* "Bindings remain leased until every outstanding invocation has retired"
\* (xdna.rs:26): while the NPU may run an accepted invocation the program is not
\* closed and every buffer of the command, composed ones included, is leased.
BindingsLeased ==
  executed < accepted => program # "closed" /\ leases = buffers

\* A composed transaction keeps the establishing invocation whole, and its header
\* counts every record ("only its transaction size/count header is updated",
\* xdna.rs:145).
CommandWhole ==
  /\ SelectSeq(command.body, LAMBDA record : record # "added") = <<"establish", "invoke">>
  /\ \A i \in 1 .. Len(command.body) - 1 : command.body[i] = "establish" => command.body[i + 1] = "invoke"
  /\ command.operations = Len(command.body) /\ command.length = HeaderLength + Len(command.body)

\* What is_complete answers without the lock is true, the window is the accepted
\* invocations that were not retired and never exceeds its bound, and a command
\* is composed only before its first invocation.
WindowExact ==
  /\ cached = retired /\ retired <= executed
  /\ program = "live" =>
       /\ pending = [i \in 1 .. accepted - retired |-> retired + i]
       /\ Len(pending) <= Window
  /\ leases # {} => leases = buffers
=============================================================================
