---------------------------- MODULE StorageRing ----------------------------
(***************************************************************************)
(* GPU-published io_uring requests (src/fabric/storage.rs).  The GPU is    *)
(* the only publisher of requests and cannot call the kernel: in SQPOLL    *)
(* mode a worker that went idle must be woken by the waiting host, in wait *)
(* mode the host submits and collects in each pass.  The host may forget a *)
(* request only when the GPU and the kernel are both done with it.         *)
(***************************************************************************)
EXTENDS Naturals

CONSTANTS
  Entries,       \* submission queue capacity
  Requests       \* bound: requests the GPU publishes in one execution

VARIABLES
  mode,          \* "sqpoll" or "wait"
  usable,        \* the creating thread services the ring (wait mode needs it)
  ringState,     \* "none", "ready", "running", "retired", "returned", "leaked"
  sqTail, sqHead, cqTail, \* ring words
  busyIo, doneIo,         \* requests the kernel executes; finished, not posted
  worker,        \* SQPOLL worker: "polling", "parking" (flag set) or "asleep"
  gpuDone,       \* the command's fence
  host,          \* the pass of wait_timeout: what it does next and has read
  held           \* device leases on ring pages and payload

ringVars == <<mode, usable, ringState, sqTail, sqHead, cqTail, busyIo, doneIo, worker,
              gpuDone, host, held>>

RingInit ==
  /\ mode \in {"sqpoll", "wait"} /\ usable \in BOOLEAN /\ (mode = "sqpoll" => usable)
  /\ ringState = "none" /\ sqTail = 0 /\ sqHead = 0 /\ cqTail = 0 /\ busyIo = 0 /\ doneIo = 0
  /\ worker = "polling" /\ gpuDone = FALSE /\ host = [pc |-> "idle"] /\ held = FALSE

Pass(pc) == host' = [pc |-> pc, flag |-> FALSE, gpu |-> FALSE]

\* new: validation, registration, restrictions, and the ring enabled last.
CreateRing ==
  /\ ringState = "none" /\ ringState' = "ready"
  /\ UNCHANGED <<mode, usable, sqTail, sqHead, cqTail, busyIo, doneIo, worker, gpuDone, host, held>>

\* dispatch: both leases before publication; a refused command drops the ring.
DispatchRing ==
  /\ ringState = "ready"
  /\ \/ ringState' = "running" /\ held' = TRUE
     \/ ringState' = "returned" /\ UNCHANGED held
  /\ UNCHANGED <<mode, usable, sqTail, sqHead, cqTail, busyIo, doneIo, worker, gpuDone, host>>

-----------------------------------------------------------------------------
(* The GPU program and the kernel (external).                               *)

GpuPublish ==
  /\ ringState = "running" /\ ~gpuDone
  /\ sqTail < Requests /\ sqTail - sqHead < Entries /\ sqTail - cqTail < 2 * Entries
  /\ sqTail' = sqTail + 1
  /\ UNCHANGED <<mode, usable, ringState, sqHead, cqTail, busyIo, doneIo, worker, gpuDone, host, held>>

\* Normal end, or an early end that leaves accepted requests to the kernel.
GpuEnd ==
  /\ ringState = "running" /\ ~gpuDone /\ gpuDone' = TRUE
  /\ UNCHANGED <<mode, usable, ringState, sqTail, sqHead, cqTail, busyIo, doneIo, worker, host, held>>

\* The worker takes requests, announces sleep, looks once more and sleeps.
Worker ==
  /\ mode = "sqpoll" /\ ringState # "none"
  /\ \/ /\ worker = "polling" /\ sqHead < sqTail
        /\ sqHead' = sqHead + 1 /\ busyIo' = busyIo + 1 /\ UNCHANGED worker
     \/ /\ worker = "polling" /\ sqHead = sqTail
        /\ worker' = "parking" /\ UNCHANGED <<sqHead, busyIo>>
     \/ /\ worker = "parking"
        /\ worker' = IF sqHead < sqTail THEN "polling" ELSE "asleep"
        /\ UNCHANGED <<sqHead, busyIo>>
  /\ UNCHANGED <<mode, usable, ringState, sqTail, cqTail, doneIo, gpuDone, host, held>>

FinishIo ==
  /\ busyIo > 0 /\ busyIo' = busyIo - 1
  /\ IF mode = "sqpoll" THEN cqTail' = cqTail + 1 /\ UNCHANGED doneIo
     ELSE doneIo' = doneIo + 1 /\ UNCHANGED cqTail
  /\ UNCHANGED <<mode, usable, ringState, sqTail, sqHead, worker, gpuDone, host, held>>

-----------------------------------------------------------------------------
(* wait_timeout: wake, refresh, drained, and again until retired or late.   *)

BeginWait ==
  /\ ringState = "running" /\ host.pc = "idle" /\ Pass("wake")
  /\ UNCHANGED <<mode, usable, ringState, sqTail, sqHead, cqTail, busyIo, doneIo, worker, gpuDone, held>>

\* wake reads the worker's flag before the indexes.
WakeLook ==
  /\ host.pc = "wake" /\ usable
  /\ host' = [host EXCEPT !.pc = "enter", !.flag = worker \in {"parking", "asleep"}]
  /\ UNCHANGED <<mode, usable, ringState, sqTail, sqHead, cqTail, busyIo, doneIo, worker, gpuDone, held>>

\* Mutant: a worker whose queue looks empty to the flag is never woken.
WakeEnter_Idle ==
  /\ host.pc = "enter"
  /\ UNCHANGED <<worker, sqHead, busyIo, cqTail, doneIo>>
  /\ host' = [host EXCEPT !.pc = "refresh"]
  /\ UNCHANGED <<mode, usable, ringState, sqTail, gpuDone, held>>

\* io_uring_enter, interrupted or not: a wake-up, or submission and collection.
WakeEnter ==
  /\ host.pc = "enter"
  /\ IF mode = "sqpoll"
       THEN /\ worker' = IF host.flag /\ sqTail # sqHead THEN "polling" ELSE worker
            /\ UNCHANGED <<sqHead, busyIo, cqTail, doneIo>>
       ELSE /\ IF sqTail = cqTail THEN UNCHANGED <<sqHead, busyIo, cqTail, doneIo>>
               ELSE /\ sqHead' = sqTail /\ busyIo' = busyIo + (sqTail - sqHead)
                    /\ cqTail' = cqTail + doneIo /\ doneIo' = 0
            /\ UNCHANGED worker
  /\ host' = [host EXCEPT !.pc = "refresh"]
  /\ UNCHANGED <<mode, usable, ringState, sqTail, gpuDone, held>>

\* The wrong thread, a failed syscall or a lost device ends the wait with an error.
WaitFails ==
  /\ host.pc \in {"wake", "enter", "refresh"} /\ (host.pc = "wake" => ~usable)
  /\ host' = [pc |-> "failed"]
  /\ UNCHANGED <<mode, usable, ringState, sqTail, sqHead, cqTail, busyIo, doneIo, worker, gpuDone, held>>

Refresh ==
  /\ host.pc = "refresh"
  /\ host' = [host EXCEPT !.pc = "drained", !.gpu = gpuDone]
  /\ UNCHANGED <<mode, usable, ringState, sqTail, sqHead, cqTail, busyIo, doneIo, worker, gpuDone, held>>

\* Mutant: an empty submission queue counts as drained.
DrainedWords_Submitted == sqTail = sqHead

DrainedWords == sqTail = sqHead /\ sqTail = cqTail

\* Retired, timed out, or another pass.
Check ==
  /\ host.pc = "drained"
  /\ IF host.gpu /\ DrainedWords
       THEN ringState' = "retired" /\ held' = FALSE /\ host' = [pc |-> "idle"]
       ELSE /\ \/ Pass("wake")
               \/ host' = [pc |-> "idle"]
            /\ UNCHANGED <<ringState, held>>
  /\ UNCHANGED <<mode, usable, sqTail, sqHead, cqTail, busyIo, doneIo, worker, gpuDone>>

\* into_ring hands the ring back; drop after a failed or late wait forgets it all.
TakeRing ==
  /\ ringState = "retired" /\ ringState' = "returned"
  /\ UNCHANGED <<mode, usable, sqTail, sqHead, cqTail, busyIo, doneIo, worker, gpuDone, host, held>>

Leak ==
  /\ ringState = "running" /\ host.pc = "failed"
  /\ ringState' = "leaked"
  /\ UNCHANGED <<mode, usable, sqTail, sqHead, cqTail, busyIo, doneIo, worker, gpuDone, host, held>>

HostPass == WakeLook \/ WakeEnter \/ Refresh \/ Check

RingNext ==
  \/ CreateRing \/ DispatchRing \/ GpuPublish \/ GpuEnd \/ Worker \/ FinishIo
  \/ BeginWait \/ HostPass \/ WaitFails \/ TakeRing \/ Leak

RingSpec == RingInit /\ [][RingNext]_ringVars

-----------------------------------------------------------------------------
\* Files, ring pages and payload stay held until the GPU has finished and the
\* kernel has completed every request it accepted (storage.rs:443-444): after
\* retirement nothing can touch the payload any more.
RetiredQuiet ==
  /\ ringState \in {"retired", "returned"} =>
       busyIo = 0 /\ doneIo = 0 /\ sqHead = sqTail /\ (sqTail > 0 => gpuDone)
  /\ ringState \in {"running", "leaked"} => held
  /\ cqTail + doneIo + busyIo = sqHead /\ sqHead <= sqTail
=============================================================================
