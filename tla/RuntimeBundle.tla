--------------------------- MODULE RuntimeBundle ----------------------------
(***************************************************************************)
(* bundle.rs: several processes provision one runtime bundle.  A process   *)
(* reuses a directory whose files all have the manifest's digests, or      *)
(* takes the download lock, downloads, takes the install lock, unpacks to  *)
(* a private directory, verifies it and renames it into place; another     *)
(* installs an archive it has; a sweep that keeps another bundle removes   *)
(* the directory under the install lock.                                   *)
(* A file is "good" when it has the digest the manifest declares.          *)
(*                                                                         *)
(* The second part is the opening of the bundle's compiler library.  It    *)
(* has its own variables.                                                  *)
(***************************************************************************)
EXTENDS Naturals, Sequences, FiniteSets

CONSTANTS Processes, Nobody

VARIABLES folder, proc, downloadLock, installLock, disturbed, faults

vars == <<folder, proc, downloadLock, installLock, disturbed, faults>>

\* The manifest's files in the order of its map, which verify follows.
Manifest == <<"libamdf", "libloomc">>
Files == {Manifest[i] : i \in DOMAIN Manifest}
Missing == [f \in Files |-> "missing"]
Good == [f \in Files |-> "good"]
Exists == \E f \in Files : folder[f] # "missing"

Resting == {"idle", "done", "failed", "dead"}
\* The three places prepare and install verify the published directory, and
\* where each continues when it does not verify.
Verifying == {"reuse", "reuse_downloading", "reuse_installing"}
Otherwise(at) == CASE at = "reuse" -> "download_lock"
                   [] at = "reuse_downloading" -> "download"
                   [] at = "reuse_installing" -> "unpack"

Init ==
    /\ folder \in {Missing, Good}
    /\ proc = [p \in Processes |-> [at |-> "idle", checked |-> 0, offline |-> FALSE,
                                    archive |-> "none"]]
    /\ downloadLock = Nobody
    /\ installLock = Nobody
    /\ disturbed = [p \in Processes |-> FALSE]
    /\ faults = 0

Free(lock, p) == IF lock = p THEN Nobody ELSE lock
End(p, at) ==
    /\ proc' = [proc EXCEPT ![p].at = at]
    /\ downloadLock' = Free(downloadLock, p)
    /\ installLock' = Free(installLock, p)

Prepare(p, offline) ==
    /\ proc[p].at \in {"idle", "done", "failed"}
    /\ proc' = [proc EXCEPT ![p] = [at |-> "reuse", checked |-> 0, offline |-> offline,
                                    archive |-> "none"]]
    /\ disturbed' = [disturbed EXCEPT ![p] = FALSE]
    /\ UNCHANGED <<folder, downloadLock, installLock, faults>>

\* Manifest::install of an archive at hand takes no download lock.
Install(p, archive) ==
    /\ proc[p].at \in {"idle", "done", "failed"}
    /\ proc' = [proc EXCEPT ![p] = [at |-> "install_lock", checked |-> 0, offline |-> TRUE,
                                    archive |-> archive]]
    /\ disturbed' = [disturbed EXCEPT ![p] = FALSE]
    /\ UNCHANGED <<folder, downloadLock, installLock, faults>>

\* Manifest::verify digests one file after the other.
Accepts_Present(f) == folder[f] # "missing"
Accepts(f) == folder[f] = "good"

Verify(p) ==
    LET f == Manifest[proc[p].checked + 1] IN
    /\ proc[p].at \in Verifying
    /\ IF Accepts(f)
       THEN IF proc[p].checked + 1 = Len(Manifest)
            THEN End(p, "done")
            ELSE /\ proc' = [proc EXCEPT ![p].checked = @ + 1]
                 /\ UNCHANGED <<downloadLock, installLock>>
       ELSE IF proc[p].at = "reuse_downloading" /\ proc[p].offline
            THEN End(p, "failed")
            ELSE /\ proc' = [proc EXCEPT ![p].at = Otherwise(@)]
                 /\ UNCHANGED <<downloadLock, installLock>>
    /\ UNCHANGED <<folder, disturbed, faults>>

\* "Download lock is distinct from the installation lock, and always taken
\* first" (bundle.rs:396).
TakeDownloadLock(p) ==
    /\ proc[p].at = "download_lock"
    /\ downloadLock = Nobody
    /\ downloadLock' = p
    /\ proc' = [proc EXCEPT ![p].at = "reuse_downloading", ![p].checked = 0]
    /\ UNCHANGED <<folder, installLock, disturbed, faults>>

\* An archive has the manifest's digest or not; one that has it may still
\* hold files the manifest does not describe.
Archives == {"good", "undeclared", "corrupt"}

Download(p, archive) ==
    /\ proc[p].at = "download"
    /\ proc' = [proc EXCEPT ![p].at = "install_lock", ![p].archive = archive]
    /\ UNCHANGED <<folder, downloadLock, installLock, disturbed, faults>>

DownloadFails(p) ==
    /\ proc[p].at = "download"
    /\ End(p, "failed")
    /\ UNCHANGED <<folder, disturbed, faults>>

\* Mutant: the directory is not verified again under the lock.
TakeInstallLock_Trusting(p) ==
    /\ proc[p].at = "install_lock"
    /\ installLock = Nobody
    /\ installLock' = p
    /\ proc' = [proc EXCEPT ![p].at = "unpack"]
    /\ UNCHANGED <<folder, downloadLock, disturbed, faults>>

TakeInstallLock(p) ==
    /\ proc[p].at = "install_lock"
    /\ installLock = Nobody
    /\ installLock' = p
    /\ proc' = [proc EXCEPT ![p].at = "reuse_installing", ![p].checked = 0]
    /\ UNCHANGED <<folder, downloadLock, disturbed, faults>>

\* The digest of the archive, then of every unpacked file.
Installable_Unverified(archive) == archive # "corrupt"
Installable(archive) == archive = "good"

Unpack(p) ==
    /\ proc[p].at = "unpack"
    /\ IF Installable(proc[p].archive)
       THEN /\ proc' = [proc EXCEPT ![p].at = IF Exists THEN "remove" ELSE "publish"]
            /\ UNCHANGED <<downloadLock, installLock>>
       ELSE End(p, "failed")
    /\ UNCHANGED <<folder, disturbed, faults>>

Remove(p, f) ==
    /\ proc[p].at = "remove"
    /\ folder[f] # "missing"
    /\ folder' = [folder EXCEPT ![f] = "missing"]
    /\ proc' = IF folder' = Missing THEN [proc EXCEPT ![p].at = "publish"] ELSE proc
    /\ UNCHANGED <<downloadLock, installLock, disturbed, faults>>

Publish(p) ==
    /\ proc[p].at = "publish"
    /\ ~Exists
    /\ folder' = [f \in Files |-> proc[p].archive]
    /\ End(p, "done")
    /\ UNCHANGED <<disturbed, faults>>

-----------------------------------------------------------------------------
(* bundle::collect for a process that keeps another bundle.                 *)

Collect(p) ==
    /\ proc[p].at \in {"idle", "done", "failed"}
    /\ Exists
    /\ installLock = Nobody
    /\ installLock' = p
    /\ proc' = [proc EXCEPT ![p].at = "collect"]
    /\ UNCHANGED <<folder, downloadLock, disturbed, faults>>

CollectRemove(p, f) ==
    /\ proc[p].at = "collect"
    /\ folder[f] # "missing"
    /\ folder' = [folder EXCEPT ![f] = "missing"]
    /\ IF folder' = Missing
       THEN End(p, "idle")
       ELSE UNCHANGED <<proc, downloadLock, installLock>>
    /\ disturbed' = [q \in Processes |-> disturbed[q] \/ proc[q].at \notin Resting]
    /\ UNCHANGED faults

Kill(p) ==
    /\ proc[p].at \notin Resting
    /\ End(p, "dead")
    /\ faults' = faults + 1
    /\ UNCHANGED <<folder, disturbed>>

Damage(f) ==
    /\ folder[f] = "good"
    /\ folder' = [folder EXCEPT ![f] = "damaged"]
    /\ disturbed' = [q \in Processes |-> disturbed[q] \/ proc[q].at \notin Resting]
    /\ faults' = faults + 1
    /\ UNCHANGED <<proc, downloadLock, installLock>>

Step(p) ==
    \/ Verify(p) \/ TakeDownloadLock(p) \/ DownloadFails(p)
    \/ \E archive \in Archives : Download(p, archive)
    \/ TakeInstallLock(p) \/ Unpack(p) \/ Publish(p)
    \/ \E f \in Files : Remove(p, f) \/ CollectRemove(p, f)

Next ==
    \/ \E p \in Processes : \/ Step(p) \/ Collect(p) \/ Kill(p)
                            \/ \E offline \in BOOLEAN : Prepare(p, offline)
                            \/ \E archive \in Archives : Install(p, archive)
    \/ \E f \in Files : Damage(f)

Spec == Init /\ [][Next]_vars
(* "Failed/incomplete installations never become candidates for dlopen"     *)
(* (bundle.rs:211): when prepare or install returns the directory, every    *)
(* file of the manifest is there and good, although it was verified without *)
(* a lock, may have been repaired meanwhile, and earlier installers may     *)
(* have been killed; only a file lost or a sweep for another bundle during  *)
(* the call can spoil it.  Apart from damage the directory changes under    *)
(* the install lock only: it appears whole, an installer takes down one     *)
(* that is not whole, and only a sweep takes down a whole one, each file by *)
(* file (bundle.rs:172-244, 295-309).                                       *)
BundleWhole ==
    /\ \A p \in Processes :
         proc[p].at # "done" /\ proc'[p].at = "done" => disturbed[p] \/ folder' = Good
    /\ \/ folder' = folder
       \/ \E f \in Files : folder[f] = "good" /\ folder' = [folder EXCEPT ![f] = "damaged"]
       \/ folder = Missing /\ folder' = Good /\ installLock # Nobody
       \/ \E p \in Processes :
            /\ installLock = p /\ \A f \in Files : folder'[f] \in {folder[f], "missing"}
            /\ folder = Good => proc[p].at = "collect"

-----------------------------------------------------------------------------
(***************************************************************************)
(* Compiler::shared and with_options (loom.rs) over native::library        *)
(* (loom/native.rs): a compiler carries the digest of the shared object at *)
(* a path, which is also part of every artifact key, while the file may be *)
(* replaced by an upgrade at any time and the dynamic loader keeps what it *)
(* mapped for a path for the life of the process. A digest is the number   *)
(* of the installed version; versions only grow.                           *)
(***************************************************************************)
CONSTANTS Threads, Paths, Options

VARIABLES file,       \* the version installed at a path
          mapped,     \* the version the loader has mapped for a path
          libraries,  \* LIBRARIES: the identity registered for a path
          resolved,   \* RESOLVED: the compiler of a path and options
          cacheLock, libraryLock, opening

libraryVars == <<file, mapped, libraries, resolved, cacheLock, libraryLock, opening>>

Unregistered == [state |-> "absent", identity |-> 0]
Idle == [at |-> "idle", path |-> Nobody, options |-> Nobody, shared |-> FALSE,
         identity |-> 0, runs |-> 0]
Settled == {"idle", "done", "failed"}

LibraryInit ==
    /\ file = [p \in Paths |-> 1]
    /\ mapped = [p \in Paths |-> 0]
    /\ libraries = [p \in Paths |-> Unregistered]
    /\ resolved = [p \in Paths, o \in Options |-> Nobody]
    /\ cacheLock = Nobody
    /\ libraryLock = Nobody
    /\ opening = [t \in Threads |-> Idle]

Upgrade(p) ==
    /\ file' = [file EXCEPT ![p] = @ + 1]
    /\ UNCHANGED <<mapped, libraries, resolved, cacheLock, libraryLock, opening>>

\* Compiler::shared holds the lock of its cache while it resolves a miss.
Shared(t, p, o) ==
    LET hit == resolved[p, o] IN
    /\ opening[t].at \in Settled
    /\ cacheLock = Nobody
    /\ IF hit # Nobody
       THEN /\ opening' = [opening EXCEPT ![t] = [hit EXCEPT !.at = "done"]]
            /\ UNCHANGED cacheLock
       ELSE /\ cacheLock' = t
            /\ opening' = [opening EXCEPT ![t] = [Idle EXCEPT !.at = "digest", !.path = p,
                                                        !.options = o, !.shared = TRUE]]
    /\ UNCHANGED <<file, mapped, libraries, resolved, libraryLock>>

WithOptions(t, p, o) ==
    /\ opening[t].at \in Settled
    /\ opening' = [opening EXCEPT ![t] = [Idle EXCEPT !.at = "digest", !.path = p, !.options = o]]
    /\ UNCHANGED <<file, mapped, libraries, resolved, cacheLock, libraryLock>>

Digest(t) ==
    /\ opening[t].at = "digest"
    /\ opening' = [opening EXCEPT ![t].at = "open", ![t].identity = file[opening[t].path]]
    /\ UNCHANGED <<file, mapped, libraries, resolved, cacheLock, libraryLock>>

Fails(t) ==
    /\ opening' = [opening EXCEPT ![t].at = "failed"]
    /\ cacheLock' = IF cacheLock = t THEN Nobody ELSE cacheLock

\* A path loaded before is served only to the identity it was verified for.
Serves_Any(entry, identity) == entry.state # "absent"
Serves(entry, identity) == entry = [state |-> "verified", identity |-> identity]

\* native::library under its mutex, up to the load: dlopen of a path that is
\* still mapped returns the old mapping.
Open(t) ==
    LET p == opening[t].path
        entry == libraries[p] IN
    /\ opening[t].at = "open"
    /\ libraryLock = Nobody
    /\ CASE entry.state = "absent" ->
              /\ libraryLock' = t
              /\ mapped' = [mapped EXCEPT ![p] = IF @ = 0 THEN file[p] ELSE @]
              /\ opening' = [opening EXCEPT ![t].at = "check",
                                      ![t].runs = IF mapped[p] = 0 THEN file[p] ELSE mapped[p]]
              /\ UNCHANGED cacheLock
         [] Serves(entry, opening[t].identity) ->
              /\ opening' = [opening EXCEPT ![t].at = "recheck", ![t].runs = mapped[p]]
              /\ UNCHANGED <<libraryLock, mapped, cacheLock>>
         [] OTHER ->
              /\ Fails(t)
              /\ UNCHANGED <<libraryLock, mapped>>
    /\ UNCHANGED <<file, libraries, resolved>>

\* "Register even if the post-load check fails" (loom/native.rs:36).
Registered_Verified(verified, identity) ==
    IF verified THEN [state |-> "verified", identity |-> identity] ELSE Unregistered
Registered(verified, identity) ==
    IF verified THEN [state |-> "verified", identity |-> identity]
                ELSE [state |-> "unverified", identity |-> 0]

Check(t) ==
    LET p == opening[t].path
        verified == file[p] = opening[t].identity IN
    /\ opening[t].at = "check"
    /\ libraries' = [libraries EXCEPT ![p] = Registered(verified, opening[t].identity)]
    /\ libraryLock' = Nobody
    /\ IF verified
       THEN opening' = [opening EXCEPT ![t].at = "recheck"] /\ UNCHANGED cacheLock
       ELSE Fails(t)
    /\ UNCHANGED <<file, mapped, resolved>>

\* with_options digests the file again once the native state is prepared.
Recheck(t) ==
    LET p == opening[t].path IN
    /\ opening[t].at = "recheck"
    /\ IF file[p] = opening[t].identity
       THEN /\ opening' = [opening EXCEPT ![t].at = "done"]
            /\ resolved' = IF opening[t].shared
                           THEN [resolved EXCEPT ![p, opening[t].options] = opening'[t]]
                           ELSE resolved
            /\ cacheLock' = IF cacheLock = t THEN Nobody ELSE cacheLock
       ELSE Fails(t) /\ UNCHANGED resolved
    /\ UNCHANGED <<file, mapped, libraries, libraryLock>>

LibraryNext ==
    \/ \E p \in Paths : Upgrade(p)
    \/ \E t \in Threads :
         \/ Digest(t) \/ Open(t) \/ Check(t) \/ Recheck(t)
         \/ \E p \in Paths, o \in Options : Shared(t, p, o) \/ WithOptions(t, p, o)

LibrarySpec == LibraryInit /\ [][LibraryNext]_vars

(* The identity of a compiler, which keys every cached artifact, is the     *)
(* digest of the code it runs: an upgrade between the digest, the load and  *)
(* the checks, or a failed attempt before it, never yields a compiler that  *)
(* runs one version under the identity of another.                          *)
IdentityRuns == \A t \in Threads : opening[t].at = "done" => opening[t].identity = opening[t].runs
=============================================================================
