------------------------------ MODULE JobPool ------------------------------
(***************************************************************************)
(* The bounded worker pool of src/jobs.rs: submitters take a permit and    *)
(* send a task over a bounded channel, workers run it, a handle may cancel *)
(* it at any time, and dropping the last clone of the pool joins the       *)
(* workers, possibly from inside a job that owned that clone.              *)
(***************************************************************************)
EXTENDS Naturals, Sequences, FiniteSets

CONSTANTS
  Jobs, Workers,
  Capacity,      \* at least the number of workers (JobPool::new)
  None, Main

VARIABLES
  live,         \* JobPool::live
  queue,        \* the channel
  open,         \* Owner::sender is Some
  stage,        \* how far each job's submission and task have come
  task,         \* the job a worker runs
  exited,       \* workers whose loop ended
  cancelled, finished, \* JobHandle state
  promised,     \* jobs whose cancel() returned true
  outcome,      \* result of the work, then what the callback receives
  dropper       \* who runs Owner::drop: None, Main, a worker, "done"

vars == <<live, queue, open, stage, task, exited, cancelled, finished,
          promised, outcome, dropper>>

Init ==
  /\ live = 0 /\ queue = <<>> /\ open = TRUE
  /\ stage = [j \in Jobs |-> "new"]
  /\ task = [w \in Workers |-> None] /\ exited = {}
  /\ cancelled = {} /\ finished = {} /\ promised = {}
  /\ outcome = [j \in Jobs |-> None]
  /\ dropper = None

Move(j, to) == stage' = [stage EXCEPT ![j] = to]

-----------------------------------------------------------------------------
(* Submission: the pool outlives it, since submit borrows a clone. *)

\* Mutant: one more job than the channel holds.
Room_OneMore == live <= Capacity

Room == live < Capacity

Admit(j) ==
  /\ open /\ stage[j] = "new" /\ Room
  /\ live' = live + 1
  /\ Move(j, "permit")
  /\ UNCHANGED <<queue, open, task, exited, cancelled, finished, promised, outcome, dropper>>

\* try_send: a full channel drops the task and with it the permit.
Send(j) ==
  /\ stage[j] = "permit"
  /\ IF Len(queue) < Capacity
       THEN queue' = Append(queue, j) /\ Move(j, "queued") /\ UNCHANGED live
       ELSE Move(j, "refused") /\ live' = live - 1 /\ UNCHANGED queue
  /\ UNCHANGED <<open, task, exited, cancelled, finished, promised, outcome, dropper>>

-----------------------------------------------------------------------------
(* Workers.  Owner::drop occupies the worker that runs it. *)

Free(w) == w \notin exited /\ dropper # w

Take(w) ==
  /\ Free(w) /\ task[w] = None /\ queue # <<>>
  /\ task' = [task EXCEPT ![w] = Head(queue)]
  /\ queue' = Tail(queue)
  /\ Move(Head(queue), "taken")
  /\ UNCHANGED <<live, open, exited, cancelled, finished, promised, outcome, dropper>>

\* The first check of the handle: cancelled work never starts.
Start(w) ==
  LET j == task[w]
  IN  /\ Free(w) /\ j # None /\ stage[j] = "taken"
      /\ IF j \in cancelled
           THEN Move(j, "ran") /\ outcome' = [outcome EXCEPT ![j] = "cancelled"]
           ELSE Move(j, "working") /\ UNCHANGED outcome
      /\ UNCHANGED <<live, queue, open, task, exited, cancelled, finished, promised, dropper>>

\* The closure returns a value or an error, or panics into an error.
Work(w) ==
  LET j == task[w]
  IN  /\ Free(w) /\ j # None /\ stage[j] = "working"
      /\ Move(j, "ran")
      /\ \E r \in {"ok", "error"} : outcome' = [outcome EXCEPT ![j] = r]
      /\ UNCHANGED <<live, queue, open, task, exited, cancelled, finished, promised, dropper>>

\* Mutant: a cancellation that arrived during the work is not looked at.
Delivered_Result(j) == outcome[j]

Delivered(j) == IF j \in cancelled THEN "cancelled" ELSE outcome[j]

Finish(w) ==
  LET j == task[w]
  IN  /\ Free(w) /\ j # None /\ stage[j] = "ran"
      /\ finished' = finished \union {j}
      /\ outcome' = [outcome EXCEPT ![j] = Delivered(j)]
      /\ Move(j, "callback")
      /\ UNCHANGED <<live, queue, open, task, exited, cancelled, promised, dropper>>

\* Mutant: the permit of a panicking callback is lost.
Returned_Panic == {live, live - 1}

Returned == {live - 1}

\* The callback returns or panics; then the permit goes back.
Callback(w) ==
  LET j == task[w]
  IN  /\ Free(w) /\ j # None /\ stage[j] = "callback"
      /\ Move(j, "done")
      /\ live' \in Returned
      /\ task' = [task EXCEPT ![w] = None]
      /\ UNCHANGED <<queue, open, exited, cancelled, finished, promised, outcome, dropper>>

\* Mutant: a worker leaves as soon as the sender is gone.
Disconnected_Early == ~open

Disconnected == ~open /\ queue = <<>>

Leave(w) ==
  /\ Free(w) /\ task[w] = None /\ Disconnected
  /\ exited' = exited \union {w}
  /\ UNCHANGED <<live, queue, open, stage, task, cancelled, finished, promised, outcome, dropper>>

-----------------------------------------------------------------------------
(* Handles and the end of the pool *)

\* JobHandle::cancel on any job whose submission returned a handle.
Cancel(j) ==
  /\ stage[j] \notin {"new", "permit", "refused"} /\ j \notin finished
  /\ cancelled' = cancelled \union {j} /\ promised' = promised \union {j}
  /\ UNCHANGED <<live, queue, open, stage, task, exited, finished, outcome, dropper>>

InJob(w) == Free(w) /\ task[w] # None /\ stage[task[w]] \in {"working", "callback"}

\* The last clone goes away: outside, or inside a job or its callback.
DropPool(who) ==
  /\ open /\ \A j \in Jobs : stage[j] # "permit"
  /\ who = Main \/ (who \in Workers /\ InJob(who))
  /\ open' = FALSE /\ dropper' = who
  /\ UNCHANGED <<live, queue, stage, task, exited, cancelled, finished, promised, outcome>>

\* Mutant: a worker joins itself too.
Joins_Self(who) == Workers

Joins(who) == Workers \ {who}

JoinAll ==
  /\ dropper \in Workers \union {Main} /\ Joins(dropper) \subseteq exited
  /\ dropper' = "done"
  /\ UNCHANGED <<live, queue, open, stage, task, exited, cancelled, finished, promised, outcome>>

Worker(w) == Take(w) \/ Start(w) \/ Work(w) \/ Finish(w) \/ Callback(w) \/ Leave(w)

Next ==
  \/ \E j \in Jobs : Admit(j) \/ Send(j) \/ Cancel(j)
  \/ \E w \in Workers : Worker(w)
  \/ \E who \in Workers \union {Main} : DropPool(who)
  \/ JoinAll

Spec == Init /\ [][Next]_vars

-----------------------------------------------------------------------------
Outstanding == {j \in Jobs : stage[j] \notin {"new", "refused", "done"}}

(* "Capacity counts queued and running work through its completion         *)
(* callback": live is exactly the jobs from permit to callback, however    *)
(* the job and its callback end, and a permit is a place in the channel:   *)
(* no admitted job is refused as "job queue unavailable" (Permit, submit). *)
LiveExact ==
  /\ live = Cardinality(Outstanding) /\ live <= Capacity
  /\ \A j \in Jobs : stage[j] # "refused"

(* A cancel() that returned true is honoured: the callback receives        *)
(* Cancelled, also when the work was already running (JobHandle, submit).  *)
CancelHonoured ==
  \A j \in promised : stage[j] \in {"callback", "done"} => outcome[j] = "cancelled"
=============================================================================
