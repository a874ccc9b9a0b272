-------------------------- MODULE AtomicPublication --------------------------
(***************************************************************************)
(* The publication protocol every ZS32 artefact goes through               *)
(* (runtime/publisher.py, AtomicDirectoryPublisher): build one directory   *)
(* in a private staging area under a non-blocking file lock, index and     *)
(* validate it, seal it, flush it, and make it visible with one rename     *)
(* that refuses to replace anything.                                       *)
(*                                                                         *)
(* A member of Attempts is one `with AtomicDirectoryPublisher(root, id)`   *)
(* block; all attempts use the same publication id, because two ids share  *)
(* neither lock nor path.  A process that restarts is another attempt.     *)
(* The tree an attempt builds stays in file[a], index[a], intact[a] when *)
(* the directory is renamed; dest says whose tree the destination is.      *)
(***************************************************************************)
EXTENDS FiniteSets, Naturals

CONSTANTS
    Attempts,        \* publication attempts with one publication id
    Files,           \* the relative paths the caller writes
    Copied,          \* those written by copy_file; the rest by write_bytes
    Required,        \* the required_paths given to finalize
    Checked,         \* the files whose content the caller's validator checks
    NoOne,           \* free lock, or no directory at the destination
    Foreign,         \* a directory made by code that takes no lock
    MaxTampers,      \* bound: modifications of staged or source content
    MaxPowerLosses   \* bound: losses of power

ASSUME ConstantsAssumption ==
    /\ Copied \subseteq Files
    /\ Required \subseteq Files
    /\ Checked \subseteq Required
    /\ NoOne \notin Attempts
    /\ Foreign \notin Attempts
    /\ Foreign # NoOne
    /\ MaxTampers \in Nat
    /\ MaxPowerLosses \in Nat

VARIABLES
    pc,          \* where each attempt is
    current,     \* the file copy_file is working on, or NoOne
    lock,        \* the attempt whose descriptor holds the flock, or NoOne
    dest,        \* whose tree is at the destination path, or NoOne
    durable,     \* the destination's directory entry is on stable storage
    source,      \* what the source of each copied file holds
    file,        \* what the tree of each attempt holds
    index,       \* the content checksums.sha256 of each tree records
    intact,      \* the metadata files of each tree that are as written
    flushed,     \* the tree's files and directories are on stable storage
    tampers,     \* how many modifications so far
    powerLosses  \* how many losses of power so far

vars == <<pc, current, lock, dest, durable, source, file, index, intact,
          flushed, tampers, powerLosses>>

(* What a path can hold: the approved bytes, other bytes, or no file. *)
Content == {"absent", "approved", "other"}

(* The files finalize adds: the index, and the digest of the index. *)
Metadata == {"checksums.sha256", "publication_root.json"}

(* Before the lock; then with it, before the rename; then after the rename. *)
Building == {"locked", "staging", "hashed", "copied", "indexed", "validated",
             "sealed", "flushed"}
Holding  == Building \cup {"failing", "renamed"}
Finished == {"ok", "unknown", "failed", "crashed"}
PCs      == {"idle", "unlocked"} \cup Holding \cup Finished

(* Mutant: _seal_tree leaves the write permissions in place. *)
WritableForEver == {"staging", "hashed", "copied", "indexed", "validated",
                    "sealed", "flushed", "renamed", "unlocked"}

(* While these phases last the staging tree is still writable. *)
Writable == {"staging", "hashed", "copied", "indexed", "validated"}

Init ==
    /\ pc = [a \in Attempts |-> "idle"]
    /\ current = [a \in Attempts |-> NoOne]
    /\ lock = NoOne
    /\ dest = NoOne
    /\ durable = FALSE
    /\ source = [f \in Files |-> "approved"]
    /\ file = [a \in Attempts |-> [f \in Files |-> "absent"]]
    /\ index = [a \in Attempts |-> [f \in Files |-> "absent"]]
    /\ intact = [a \in Attempts |-> {}]
    /\ flushed = [a \in Attempts |-> FALSE]
    /\ tampers = 0
    /\ powerLosses = 0

Goto(a, phase) == pc' = [pc EXCEPT ![a] = phase]

treeVars  == <<file, index, intact, flushed>>
faultVars == <<source, tampers, powerLosses>>

-----------------------------------------------------------------------------
(* Mutant: the flock is taken without looking at its holder. *)
AcquireLockBlindly(a) ==
    /\ pc[a] = "idle"
    /\ lock' = a
    /\ Goto(a, "locked")
    /\ UNCHANGED <<current, dest, durable, treeVars, faultVars>>

(* __enter__: flock(LOCK_EX | LOCK_NB).  The lock file is never deleted, so  *)
(* every attempt locks the same inode.                                      *)
AcquireLock(a) ==
    /\ pc[a] = "idle"
    /\ lock = NoOne
    /\ lock' = a
    /\ Goto(a, "locked")
    /\ UNCHANGED <<current, dest, durable, treeVars, faultVars>>

(* BlockingIOError becomes PublicationError("publication lock is held"). *)
LockHeld(a) ==
    /\ pc[a] = "idle"
    /\ lock # NoOne
    /\ Goto(a, "failed")
    /\ UNCHANGED <<current, lock, dest, durable, treeVars, faultVars>>

(* Mutant: wait for the destination to go away instead of refusing. *)
OpenStagingWaits(a) ==
    /\ pc[a] = "locked"
    /\ dest = NoOne
    /\ Goto(a, "staging")
    /\ UNCHANGED <<current, lock, dest, durable, treeVars, faultVars>>

(* The destination check, then mkdtemp under the lock. *)
OpenStaging(a) ==
    /\ pc[a] = "locked"
    /\ Goto(a, IF dest = NoOne THEN "staging" ELSE "failing")
    /\ UNCHANGED <<current, lock, dest, durable, treeVars, faultVars>>

Unwritten(a) == {f \in Files : file[a][f] = "absent"}

(* write_bytes: exclusive creation of one file from bytes in memory. *)
WriteBytes(a, f) ==
    /\ pc[a] = "staging"
    /\ f \in Unwritten(a) \ Copied
    /\ file' = [file EXCEPT ![a][f] = "approved"]
    /\ UNCHANGED <<pc, current, lock, dest, durable, index, intact, flushed, faultVars>>

(* copy_file, first hash: the source must hold the approved content. *)
HashSource(a, f) ==
    /\ pc[a] = "staging"
    /\ f \in Unwritten(a) \cap Copied
    /\ IF source[f] = "approved"
       THEN Goto(a, "hashed") /\ current' = [current EXCEPT ![a] = f]
       ELSE Goto(a, "failing") /\ UNCHANGED current
    /\ UNCHANGED <<lock, dest, durable, treeVars, faultVars>>

(* Mutant: a copy that stops half way and leaves a truncated file. *)
CopyBytesPartly(a) ==
    /\ pc[a] = "hashed"
    /\ file' = [file EXCEPT ![a][current[a]] = "truncated"]
    /\ Goto(a, "copied")
    /\ UNCHANGED <<current, lock, dest, durable, index, intact, flushed, faultVars>>

(* copy_file, shutil.copyfile: takes whatever the source holds by now. *)
CopyBytes(a) ==
    /\ pc[a] = "hashed"
    /\ file' = [file EXCEPT ![a][current[a]] = source[current[a]]]
    /\ Goto(a, "copied")
    /\ UNCHANGED <<current, lock, dest, durable, index, intact, flushed, faultVars>>

(* copy_file, second hash: a wrong copy is unlinked and the attempt fails. *)
HashCopy(a) ==
    /\ pc[a] = "copied"
    /\ current' = [current EXCEPT ![a] = NoOne]
    /\ IF file[a][current[a]] = "approved"
       THEN Goto(a, "staging") /\ UNCHANGED file
       ELSE /\ Goto(a, "failing")
            /\ file' = [file EXCEPT ![a][current[a]] = "absent"]
    /\ UNCHANGED <<lock, dest, durable, index, intact, flushed, faultVars>>

(* finalize: hash the tree, check required_paths, write checksums.sha256     *)
(* and publication_root.json.  The caller may have left files out.          *)
WriteIndex(a) ==
    /\ pc[a] = "staging"
    /\ IF Required \cap Unwritten(a) = {}
       THEN /\ index' = [index EXCEPT ![a] = file[a]]
            /\ intact' = [intact EXCEPT ![a] = Metadata]
            /\ Goto(a, "indexed")
       ELSE Goto(a, "failing") /\ UNCHANGED <<index, intact>>
    /\ UNCHANGED <<current, lock, dest, durable, file, flushed, faultVars>>

(* What tree_checksums and the comparison with checksums.sha256 establish. *)
MatchesIndex(a) ==
    /\ file[a] = index[a]
    /\ "checksums.sha256" \in intact[a]

(* finalize: the caller's validator, then the content is hashed again. *)
Validate(a) ==
    /\ pc[a] = "indexed"
    /\ Goto(a, IF /\ \A f \in Checked : file[a][f] = "approved"
                  /\ MatchesIndex(a)
               THEN "validated" ELSE "failing")
    /\ UNCHANGED <<current, lock, dest, durable, treeVars, faultVars>>

(* Mutant: the tree is sealed and not hashed again. *)
SealWithoutHash(a) ==
    /\ pc[a] = "validated"
    /\ Goto(a, "sealed")
    /\ UNCHANGED <<current, lock, dest, durable, treeVars, faultVars>>

(* finalize: _seal_tree takes the write permissions away, then a last hash. *)
Seal(a) ==
    /\ pc[a] = "validated"
    /\ Goto(a, IF MatchesIndex(a) THEN "sealed" ELSE "failing")
    /\ UNCHANGED <<current, lock, dest, durable, treeVars, faultVars>>

(* finalize: fsync of every file, every directory and the staging root. *)
Flush(a) ==
    /\ pc[a] = "sealed"
    /\ flushed' = [flushed EXCEPT ![a] = TRUE]
    /\ Goto(a, "flushed")
    /\ UNCHANGED <<current, lock, dest, durable, file, index, intact, faultVars>>

(* Mutant: a plain rename, which replaces what is there. *)
RenameOver(a) ==
    /\ pc[a] = "flushed"
    /\ dest' = a
    /\ durable' = FALSE
    /\ Goto(a, "renamed")
    /\ UNCHANGED <<current, lock, treeVars, faultVars>>

(* renameat2(RENAME_NOREPLACE), then staging = None and _published = True. *)
Rename(a) ==
    /\ pc[a] = "flushed"
    /\ IF dest = NoOne
       THEN dest' = a /\ durable' = FALSE /\ Goto(a, "renamed")
       ELSE Goto(a, "failing") /\ UNCHANGED <<dest, durable>>
    /\ UNCHANGED <<current, lock, treeVars, faultVars>>

(* Mutant: finalize forgets to release the lock. *)
ReleaseLockForgotten(a) ==
    /\ pc[a] = "renamed"
    /\ Goto(a, "unlocked")
    /\ UNCHANGED <<current, lock, dest, durable, treeVars, faultVars>>

(* The lock is released before the parent directory is flushed. *)
ReleaseLock(a) ==
    /\ pc[a] = "renamed"
    /\ lock' = NoOne
    /\ Goto(a, "unlocked")
    /\ UNCHANGED <<current, dest, durable, treeVars, faultVars>>

(* Mutant: finalize returns without flushing the output root. *)
FlushParentSkipped(a) ==
    /\ pc[a] = "unlocked"
    /\ Goto(a, "ok")
    /\ UNCHANGED <<current, lock, dest, durable, treeVars, faultVars>>

(* fsync of the output root; finalize returns the destination. *)
FlushParent(a) ==
    /\ pc[a] = "unlocked"
    /\ durable' = TRUE
    /\ Goto(a, "ok")
    /\ UNCHANGED <<current, lock, dest, treeVars, faultVars>>

(* Mutant: that fsync fails and the error is reported as an ordinary one.    *)
FlushParentFailsPlainly(a) ==
    /\ pc[a] = "unlocked"
    /\ Goto(a, "failed")
    /\ UNCHANGED <<current, lock, dest, durable, treeVars, faultVars>>

(* That fsync fails: PublicationDurabilityError, "do not retry". *)
FlushParentFails(a) ==
    /\ pc[a] = "unlocked"
    /\ Goto(a, "unknown")
    /\ UNCHANGED <<current, lock, dest, durable, treeVars, faultVars>>

(* Any exception between the lock and the rename: a full disk, a validator   *)
(* that refuses the caller's own records, a missing system call.            *)
Fail(a) ==
    /\ pc[a] \in Building
    /\ Goto(a, "failing")
    /\ UNCHANGED <<current, lock, dest, durable, treeVars, faultVars>>

(* Mutant: abort removes the staging tree and keeps the lock. *)
AbortKeepsLock(a) ==
    /\ pc[a] = "failing"
    /\ file' = [file EXCEPT ![a] = [f \in Files |-> "absent"]]
    /\ Goto(a, "failed")
    /\ UNCHANGED <<current, lock, dest, durable, index, intact, flushed, faultVars>>

(* abort(): remove the staging tree and release the lock. *)
Abort(a) ==
    /\ pc[a] = "failing"
    /\ lock' = NoOne
    /\ file' = [file EXCEPT ![a] = [f \in Files |-> "absent"]]
    /\ Goto(a, "failed")
    /\ UNCHANGED <<current, dest, durable, index, intact, flushed, faultVars>>

Step(a) ==
    \/ AcquireLock(a)
    \/ LockHeld(a)
    \/ OpenStaging(a)
    \/ \E f \in Files : WriteBytes(a, f)
    \/ \E f \in Files : HashSource(a, f)
    \/ CopyBytes(a)
    \/ HashCopy(a)
    \/ WriteIndex(a)
    \/ Validate(a)
    \/ Seal(a)
    \/ Flush(a)
    \/ Rename(a)
    \/ ReleaseLock(a)
    \/ FlushParent(a)
    \/ FlushParentFails(a)
    \/ Abort(a)

-----------------------------------------------------------------------------
(* The world around the attempts. *)

(* The source of a copied file is rewritten by another program. *)
ChangeSource(f) ==
    /\ tampers < MaxTampers
    /\ f \in Copied
    /\ source' = [source EXCEPT ![f] = "other"]
    /\ tampers' = tampers + 1
    /\ UNCHANGED <<pc, current, lock, dest, durable, treeVars, powerLosses>>

(* A concurrent process rewrites or removes a staged file. *)
TamperFile(a, f, c) ==
    /\ tampers < MaxTampers
    /\ pc[a] \in Writable
    /\ file[a][f] # "absent"
    /\ file' = [file EXCEPT ![a][f] = c]
    /\ tampers' = tampers + 1
    /\ UNCHANGED <<pc, current, lock, dest, durable, source, index, intact,
                   flushed, powerLosses>>

(* ... or one of the two metadata files. *)
TamperMetadata(a, m) ==
    /\ tampers < MaxTampers
    /\ pc[a] \in Writable
    /\ m \in intact[a]
    /\ intact' = [intact EXCEPT ![a] = @ \ {m}]
    /\ tampers' = tampers + 1
    /\ UNCHANGED <<pc, current, lock, dest, durable, source, file, index,
                   flushed, powerLosses>>

(* Some program makes the destination directory without taking the lock. *)
ForeignCreate ==
    /\ dest = NoOne
    /\ dest' = Foreign
    /\ durable' = TRUE
    /\ UNCHANGED <<pc, current, lock, treeVars, faultVars>>

(* The process is killed: the kernel drops its flock, the staging directory  *)
(* stays behind under a name nobody reuses.                                 *)
Crash(a) ==
    /\ pc[a] \in Holding \cup {"unlocked"}
    /\ Goto(a, "crashed")
    /\ lock' = IF lock = a THEN NoOne ELSE lock
    /\ UNCHANGED <<current, dest, durable, treeVars, faultVars>>

(* The machine loses power.  A rename that was not flushed may be undone; a  *)
(* tree that was not flushed may come back with other content.              *)
PowerLoss ==
    /\ powerLosses < MaxPowerLosses
    /\ powerLosses' = powerLosses + 1
    /\ pc' = [a \in Attempts |-> IF pc[a] \in Holding \cup {"unlocked"}
                                 THEN "crashed" ELSE pc[a]]
    /\ lock' = NoOne
    /\ dest' \in IF durable THEN {dest} ELSE {dest, NoOne}
    /\ durable' = (dest' # NoOne)
    /\ file' = [a \in Attempts |-> IF flushed[a] THEN file[a]
                                   ELSE [f \in Files |-> IF file[a][f] = "absent"
                                                         THEN "absent" ELSE "other"]]
    /\ UNCHANGED <<current, source, index, intact, flushed, tampers>>

Environment ==
    \/ \E f \in Files : ChangeSource(f)
    \/ \E a \in Attempts, f \in Files, c \in {"other", "absent"} : TamperFile(a, f, c)
    \/ \E a \in Attempts, m \in Metadata : TamperMetadata(a, m)
    \/ ForeignCreate
    \/ \E a \in Attempts : Crash(a)
    \/ PowerLoss

Next == (\E a \in Attempts : Step(a) \/ Fail(a)) \/ Environment

Spec == Init /\ [][Next]_vars

(* finalize and abort are straight-line code that waits for nobody: the lock *)
(* is taken with LOCK_NB.  Starting an attempt is not promised, and nothing  *)
(* obliges an operation to fail.                                            *)
Fairness == \A a \in Attempts : WF_vars(pc[a] # "idle" /\ Step(a))

FairSpec == Spec /\ Fairness

-----------------------------------------------------------------------------
(* Every variable keeps its type. *)
TypeOK ==
    /\ pc \in [Attempts -> PCs]
    /\ current \in [Attempts -> Files \cup {NoOne}]
    /\ lock \in Attempts \cup {NoOne}
    /\ dest \in Attempts \cup {NoOne, Foreign}
    /\ durable \in BOOLEAN
    /\ source \in [Files -> Content]
    /\ file \in [Attempts -> [Files -> Content]]
    /\ index \in [Attempts -> [Files -> Content]]
    /\ intact \in [Attempts -> SUBSET Metadata]
    /\ flushed \in [Attempts -> BOOLEAN]
    /\ tampers \in 0..MaxTampers
    /\ powerLosses \in 0..MaxPowerLosses

-----------------------------------------------------------------------------
(* The abstract promise: the id is claimed once.  Before the rename nothing  *)
(* is visible; the answer of an attempt is pending until it has returned.    *)
Answer(a) ==
    CASE pc[a] = "ok" -> "published"
      [] pc[a] = "failed" -> "refused"
      [] pc[a] = "unknown" -> "unknown"
      [] OTHER -> "pending"

Promise == INSTANCE PublishOnce
    WITH owner <- dest, settled <- durable,
         answer <- [a \in Attempts |-> Answer(a)]

(* The publisher implements the promise: however attempts interleave, fail,  *)
(* crash or lose power, a reader of the output root and the callers see a    *)
(* behaviour of PublishOnce.                                                *)
ImplementsPromise == Promise!Spec

(* The lock is worth something: two attempts are never between the lock and  *)
(* its release at once, so the destination check of __enter__ still holds    *)
(* for every attempt that takes the lock when finalize renames.             *)
OneWriter ==
    \A a, b \in Attempts : pc[a] \in Holding /\ pc[b] \in Holding => a = b

(* The lock has an owner only while that owner works: no failure, crash or   *)
(* loss of power leaves an id locked for good.                              *)
LockHasLiveOwner == lock # NoOne => pc[lock] \in Holding

(* A tree as the caller meant it: it matches its index, no required file is  *)
(* missing, and the content the validator looks at is the approved content.  *)
Whole(a) ==
    /\ MatchesIndex(a)
    /\ \A f \in Required : file[a][f] # "absent"
    /\ \A f \in Checked : file[a][f] = "approved"

(* Whatever is visible is whole: every required file is there, each file is  *)
(* the one the index names, the content the validator looks at is the        *)
(* approved one - through concurrent changes of sources and of staged files, *)
(* failures at every step, crashes, and a loss of power right after rename.  *)
VisibleIsWhole == dest \in Attempts => Whole(dest)

(* finalize returns only when the publication is there to stay: its own tree *)
(* is at the destination and no later loss of power can undo it.            *)
SuccessIsDurable == \A a \in Attempts : pc[a] = "ok" => dest = a /\ durable

(* A failed attempt (PublicationError) left nothing visible: only an attempt *)
(* that crashed or raised PublicationDurabilityError can be the owner of the *)
(* destination without having returned.                                     *)
FailureIsInvisible == \A a \in Attempts : pc[a] = "failed" => dest # a

(* A published tree is immutable. *)
SealedForGood ==
    [][\A a \in Attempts : dest = a /\ dest' = a =>
           UNCHANGED <<file[a], index[a], intact[a]>>]_vars

(* Every attempt that takes a step ends, whatever fails around it. *)
AttemptsEnd ==
    \A a \in Attempts : pc[a] # "idle" ~> pc[a] \in Finished

(* The id never stays locked. *)
LockIsFreed == []<>(lock = NoOne)

=============================================================================
