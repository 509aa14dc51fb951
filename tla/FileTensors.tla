----------------------------- MODULE FileTensors ----------------------------
(***************************************************************************)
(* Mapped SafeTensors files (src/artifacts/safetensors.rs) and preparation  *)
(* of their pages by scoped workers (src/artifacts/mapped_pages.rs).        *)
(* Addresses are file positions; the mapping starts at Base.                *)
(***************************************************************************)
EXTENDS Naturals, Sequences, FiniteSets, SequencesExt

CONSTANTS
  Headers,       \* metadata of files: sequences of [start, end], one per tensor
  FileBytes, DataStart, Base,
  Page, ChunkPages, Workers, \* 4096, 16 MiB and 16 in the code
  NoError

VARIABLES
  entries,       \* FileView::entries, <<>> before indexing or when refused
  indexed,       \* "no", "yes", "refused"
  asked,         \* bytes of the last call, as [first, end], or <<>>
  released,      \* pages a done_with gave up
  range,         \* pages to populate
  crew,          \* threads at work; 1 is the caller
  nextChunk,     \* the shared counter
  pc, index, error, \* worker -> where it is, its chunk, its first error
  resident,      \* pages the kernel has read in (external)
  attempted,     \* chunks an attempt was made for
  failures,      \* errors the kernel answered with
  result         \* "none", "Populated", "Advised" or an error

fileVars == <<entries, indexed, asked, released, range, crew, nextChunk, pc, index, error, resident, attempted,
              failures, result>>

FileInit ==
  /\ entries \in Headers /\ indexed = "no" /\ asked = <<>> /\ released = {} /\ range = <<>> /\ crew = {}
  /\ nextChunk = 0
  /\ pc = [w \in 1 .. Workers |-> "idle"] /\ index = [w \in 1 .. Workers |-> 0]
  /\ error = [w \in 1 .. Workers |-> NoError] /\ resident = {} /\ attempted = {}
  /\ failures = {} /\ result = "none"

workerVars == <<range, crew, nextChunk, pc, index, error, attempted, failures>>

\* FileView::from_storage.
Index ==
  /\ indexed = "no"
  /\ indexed' = IF \E e \in ToSet(entries) : e.end < e.start \/ e.end > FileBytes - DataStart
                THEN "refused" ELSE "yes"
  /\ UNCHANGED <<entries, asked, released, resident, result, workerVars>>

\* Positions of a tensor's bytes: get, bytes and file_range.
Tensor(e) == [first |-> Base + DataStart + e.start, end |-> Base + DataStart + e.end]

-----------------------------------------------------------------------------
Down(n) == (n \div Page) * Page
Up(n) == Down(n + Page - 1)

\* Mutant: pages are released outward too.
Inward_Outward(r) == [first |-> Down(r.first), end |-> Up(r.end)]

Outward(r) == [first |-> Down(r.first), end |-> Up(r.end)]
Inward(r) == [first |-> Up(r.first), end |-> Down(r.end)]

\* Pages advise_pages selects, for a range inside the mapping.
PagesIn(r) == {p \in 0 .. (Base + FileBytes) \div Page : r.first <= p * Page /\ p * Page < r.end}

\* done_with: nothing is returned, and nothing is waited for.
DoneWith(e) ==
  /\ indexed = "yes" /\ range = <<>> /\ result # "Released"
  /\ released' = PagesIn(Inward(Tensor(e))) /\ resident' = resident \ released'
  /\ asked' = <<Tensor(e)>> /\ result' = "Released"
  /\ UNCHANGED <<entries, indexed, workerVars>>

-----------------------------------------------------------------------------
(* prepare_bytes: chunks.                                                   *)

Chunk == ChunkPages * Page
Count(r) == (r.end - r.first + Chunk - 1) \div Chunk
Needed(r) == Min({Workers, Count(r)})

\* A thread that cannot be spawned ends the call; those before it still run.
PrepareBytes(e, spawned) ==
  /\ indexed = "yes" /\ result = "none" /\ range = <<>>
  /\ e.start < e.end
  /\ asked' = <<Tensor(e)>> /\ range' = <<Outward(Tensor(e))>>
  /\ spawned < Needed(range'[1])
  /\ crew' = IF spawned = Needed(range'[1]) - 1 THEN 1 .. spawned + 1 ELSE 2 .. spawned + 1
  /\ pc' = [w \in 1 .. Workers |-> "take"]
  /\ UNCHANGED <<entries, indexed, released, resident, result, nextChunk, index, error, attempted, failures>>

Unsupported(e) == e \in {NoError, "EINVAL"}

\* fetch_add, once per worker and turn.
Take(w) ==
  /\ range # <<>> /\ w \in crew /\ pc[w] = "take"
  /\ nextChunk' = nextChunk + 1 /\ index' = [index EXCEPT ![w] = nextChunk]
  /\ pc' = [pc EXCEPT ![w] = IF nextChunk >= Count(range[1]) THEN "joined" ELSE "populate"]
  /\ UNCHANGED <<entries, indexed, asked, released, resident, result, range, crew, error, attempted, failures>>

\* Mutant: the first error of a worker stays.
Recorded_First(old, new) == IF old = NoError THEN new ELSE old

\* A real I/O failure is not hidden by an unsupported call before it.
Recorded(old, new) == IF Unsupported(old) THEN new ELSE old

PagesOf(i) ==
  LET offset == i * Chunk
      bytes == Min({Chunk, range[1].end - range[1].first - offset})
  IN  PagesIn([first |-> range[1].first + offset, end |-> range[1].first + offset + bytes])

\* MADV_POPULATE_READ of one chunk (external: it succeeds, is unsupported, or fails).
Populate(w, answer) ==
  /\ range # <<>> /\ pc[w] = "populate"
  /\ attempted' = attempted \union {index[w]}
  /\ IF answer = NoError
     THEN resident' = resident \union PagesOf(index[w]) /\ UNCHANGED <<error, failures>>
     ELSE /\ error' = [error EXCEPT ![w] = Recorded(@, answer)]
          /\ failures' = failures \union {answer} /\ UNCHANGED resident
  /\ pc' = [pc EXCEPT ![w] = "take"]
  /\ UNCHANGED <<entries, indexed, asked, released, result, range, crew, nextChunk, index>>

\* Mutant: the caller's own result decides.
Merged_Own(errors) == Head(errors)

\* The caller's result, then the workers' in spawn order.
Merged(errors) == FoldLeft(LAMBDA e, worker : IF worker # NoError THEN Recorded(e, worker) ELSE e,
                           Head(errors), Tail(errors))

\* The scope joins every worker; an unsupported call falls back to advice.
Return(advised) ==
  /\ range # <<>> /\ \A w \in crew : pc[w] = "joined"
  /\ LET outcome == IF 1 \in crew THEN Merged([w \in crew |-> error[w]]) ELSE "spawn" IN
     result' = CASE outcome = NoError -> "Populated"
                 [] outcome = "EINVAL" -> (IF advised THEN "Advised" ELSE "EIO")
                 [] OTHER -> outcome
  /\ range' = <<>> /\ pc' = [w \in 1 .. Workers |-> "idle"]
  /\ UNCHANGED <<entries, indexed, asked, released, resident, crew, nextChunk, index, error,
                 attempted, failures>>

FileNext ==
  \/ Index
  \/ \E e \in ToSet(entries) : DoneWith(e) \/ \E spawned \in 0 .. Workers - 1 : PrepareBytes(e, spawned)
  \/ \E w \in 1 .. Workers : Take(w) \/ \E answer \in {NoError, "EINVAL", "EIO"} : Populate(w, answer)
  \/ \E advised \in BOOLEAN : Return(advised)

FileSpec == FileInit /\ [][FileNext]_fileVars

-----------------------------------------------------------------------------
\* "A real I/O failure must not become an unsupported-platform fallback"
\* (mapped_pages.rs:56), and "all workers finish before return, including on
\* failure" (safetensors.rs:373): whatever the order of the workers, a returned
\* call attempted every chunk, answers with a failure if there was one, and a
\* populated answer means every page of the tensor is in.
PreparedTruly ==
  result \in {"Populated", "Advised", "EIO"} =>
    LET pages == Outward(asked[1]) IN
    /\ attempted = 0 .. Count(pages) - 1
    /\ "EIO" \in failures => result = "EIO"
    /\ result = "Advised" => failures = {"EINVAL"}
    /\ result = "Populated" => PagesIn(pages) \subseteq resident

\* "Release complete mapped pages after a tensor has been consumed"
\* (safetensors.rs:360): a page that holds bytes of another tensor is kept.
NeighboursKept ==
  result = "Released" =>
    \A e \in ToSet(entries) : Tensor(e) # asked[1] =>
      \A p \in released : ~(Tensor(e).first < (p + 1) * Page /\ p * Page < Tensor(e).end)
=============================================================================
