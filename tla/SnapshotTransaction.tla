-------------------------- MODULE SnapshotTransaction ---------------------------
(***************************************************************************)
(* NexusSnapshotTransaction.commit and the readers of a snapshot root.     *)
(*                                                                         *)
(* A commit stages every file and a manifest, renames the staging          *)
(* directory to a generation, replaces the CURRENT pointer and prunes the  *)
(* generations that are neither the new nor the previous one.  Each step   *)
(* may fail with an exception, a removal may leave anything behind without *)
(* one, the process may die, and a power loss also undoes renames whose    *)
(* directory was not fsynced yet.  The content of a   *)
(* file is named by the transaction that wrote it, so a generation is      *)
(* described by the set of files it holds.                                 *)
(***************************************************************************)
EXTENDS Naturals, FiniteSets

CONSTANTS Writers, Readers,
          Leased,      \* the readers that hold the lock (snapshot_reader)
          Files,       \* files of one snapshot, the manifest included
          MaxCommits   \* bound on the transactions started

ASSUME SnapshotAssumption == /\ Leased \subseteq Readers
                             /\ MaxCommits \in Nat
                             /\ Writers \cap Readers = {}
                             /\ "nobody" \notin Writers \cup Readers

Ids == 1..MaxCommits

Legacy == 0            \* no CURRENT pointer: the flat root

Nobody == "nobody"

VARIABLES next,        \* transactions started
          staging,     \* ids with a .staging directory
          published,   \* ids with a generation directory
          files,       \* files completed in the directory of an id
          renamed,     \* ids whose rename is durable (generations/ was fsynced)
          current,     \* target of CURRENT
          survivors,   \* targets CURRENT may have after a power loss
          lock,        \* holder of .snapshot-transaction.lock
          writer,      \* each commit's frame
          reader       \* each reader's frame

vars == <<next, staging, published, files, renamed, current, survivors, lock, writer, reader>>

IdleWriter == [at |-> "idle", id |-> Legacy, prev |-> Legacy]

IdleReader == [at |-> "idle", root |-> Legacy, seen |-> {}, publishes |-> 0]

Init == /\ next = 0
        /\ staging = {} /\ published = {} /\ renamed = {}
        /\ files = [i \in Ids |-> {}]
        /\ current = Legacy /\ survivors = {Legacy}
        /\ lock = Nobody
        /\ writer = [w \in Writers |-> IdleWriter]
        /\ reader = [r \in Readers |-> IdleReader]

---------------------------------------------------------------------------
(* NexusSnapshotTransaction.commit *)

At(w, point) == writer[w].at = point

Goto(w, point) == writer' = [writer EXCEPT ![w].at = point]

\* Take the lock, remember the current generation, create the staging directory.
Begin(w) ==
    /\ At(w, "idle") /\ lock = Nobody /\ next < MaxCommits
    /\ next' = next + 1
    /\ lock' = w
    /\ staging' = staging \cup {next + 1}
    /\ writer' = [writer EXCEPT ![w] = [at |-> "stage", id |-> next + 1, prev |-> current]]
    /\ UNCHANGED <<published, files, renamed, current, survivors, reader>>

\* Each file is written to a temporary name, fsynced and renamed (atomic_write_*).
StageFile(w, f) ==
    LET id == writer[w].id
    IN /\ At(w, "stage") /\ f \notin files[id]
       /\ files' = [files EXCEPT ![id] = @ \cup {f}]
       /\ UNCHANGED <<next, staging, published, renamed, current, survivors, lock, writer, reader>>

\* Mutant: the rename does not wait for every file.
RenameEarly(w) ==
    LET id == writer[w].id
    IN /\ At(w, "stage")
       /\ staging' = staging \ {id}
       /\ published' = published \cup {id}
       /\ Goto(w, "sync_generations")
       /\ UNCHANGED <<next, files, renamed, current, survivors, lock, reader>>

\* os.replace(staging, generation)
Rename(w) ==
    LET id == writer[w].id
    IN /\ At(w, "stage") /\ files[id] = Files
       /\ staging' = staging \ {id}
       /\ published' = published \cup {id}
       /\ Goto(w, "sync_generations")
       /\ UNCHANGED <<next, files, renamed, current, survivors, lock, reader>>

\* _fsync_dir(generations) covers every rename made in it so far.
SyncGenerations(w) ==
    /\ At(w, "sync_generations")
    /\ renamed' = renamed \cup published
    /\ Goto(w, "publish")
    /\ UNCHANGED <<next, staging, published, files, current, survivors, lock, reader>>

\* _publish_current: os.replace of the CURRENT symlink ...
Publish(w) ==
    /\ At(w, "publish")
    /\ current' = writer[w].id
    /\ survivors' = survivors \cup {writer[w].id}
    /\ reader' = [r \in Readers |-> IF reader[r].at = "idle" THEN reader[r]
                                    ELSE [reader[r] EXCEPT !.publishes = @ + 1]]
    /\ Goto(w, "sync_root")
    /\ UNCHANGED <<next, staging, published, files, renamed, lock>>

\* ... and the fsync that makes it durable.
SyncRoot(w) ==
    /\ At(w, "sync_root")
    /\ survivors' = {current}
    /\ Goto(w, "prune")
    /\ UNCHANGED <<next, staging, published, files, renamed, current, lock, reader>>

Unlock(w) == lock' = Nobody /\ writer' = [writer EXCEPT ![w] = IdleWriter]

\* Mutant: the previous generation is not kept.
PruneAllOthers(w) ==
    /\ At(w, "prune")
    /\ published' = published \cap {writer[w].id}
    /\ files' = [i \in Ids |-> IF i \in published \ published' THEN {} ELSE files[i]]
    /\ Unlock(w)
    /\ UNCHANGED <<next, staging, renamed, current, survivors, reader>>

\* shutil.rmtree(ignore_errors=True) of some directories: those that are gone are empty,
\* any of the files of the others may be left.
RemoveFiles(dirs, gone) ==
    \E left \in [dirs -> SUBSET Files] :
       /\ \A i \in dirs : left[i] \subseteq files[i] /\ (i \in gone => left[i] = {})
       /\ files' = [i \in Ids |-> IF i \in dirs THEN left[i] ELSE files[i]]

\* _prune_generations(keep = {new, previous}), which swallows what a removal or the listing
\* raises, and the lock is released.
Prune(w) ==
    LET superseded == published \ {writer[w].id, writer[w].prev}
    IN /\ At(w, "prune")
       /\ \E gone \in SUBSET superseded :
             /\ published' = published \ gone
             /\ RemoveFiles(superseded, gone)
       /\ Unlock(w)
       /\ UNCHANGED <<next, staging, renamed, current, survivors, reader>>

\* Mutant: the error path points CURRENT back at the previous generation.
FailRollsBack(w) ==
    LET id == writer[w].id
    IN /\ ~At(w, "idle")
       /\ staging' = staging \ {id}
       /\ files' = IF id \in staging THEN [files EXCEPT ![id] = {}] ELSE files
       /\ current' = writer[w].prev
       /\ Unlock(w)
       /\ UNCHANGED <<next, published, renamed, survivors, reader>>

\* Any step raises: `finally` removes the staging directory if it is still there.
Fail(w) ==
    LET staged == staging \cap {writer[w].id}
    IN /\ ~At(w, "idle")
       /\ \E gone \in SUBSET staged :
             /\ staging' = staging \ gone
             /\ RemoveFiles(staged, gone)
       /\ Unlock(w)
       /\ UNCHANGED <<next, published, renamed, current, survivors, reader>>

---------------------------------------------------------------------------
(* Readers *)

\* Mutant: snapshot_reader does not take the lock.
ResolveUnlocked(r) ==
    /\ reader[r].at = "idle" /\ current # Legacy
    /\ reader' = [reader EXCEPT ![r] = [at |-> "reading", root |-> current,
                                        seen |-> {}, publishes |-> 0]]
    /\ UNCHANGED <<next, staging, published, files, renamed, current, survivors, lock, writer>>

\* resolve_snapshot_root, under the lock for a snapshot_reader.
Resolve(r) ==
    /\ reader[r].at = "idle" /\ current # Legacy
    /\ IF r \in Leased THEN lock = Nobody /\ lock' = r ELSE UNCHANGED lock
    /\ reader' = [reader EXCEPT ![r] = [at |-> "reading", root |-> current,
                                        seen |-> {}, publishes |-> 0]]
    /\ UNCHANGED <<next, staging, published, files, renamed, current, survivors, writer>>

\* read_snapshot_json, one file at a time; a missing file raises.
ReadFile(r, f) ==
    /\ reader[r].at = "reading" /\ f \notin reader[r].seen
    /\ reader' = IF f \in files[reader[r].root] /\ reader[r].root \in published
                 THEN [reader EXCEPT ![r].seen = @ \cup {f}]
                 ELSE [reader EXCEPT ![r].at = "failed"]
    /\ UNCHANGED <<next, staging, published, files, renamed, current, survivors, lock, writer>>

CloseReader(r) ==
    /\ reader[r].at = "failed" \/ (reader[r].at = "reading" /\ reader[r].seen = Files)
    /\ reader' = [reader EXCEPT ![r] = IdleReader]
    /\ lock' = IF r \in Leased THEN Nobody ELSE lock
    /\ UNCHANGED <<next, staging, published, files, renamed, current, survivors, writer>>

---------------------------------------------------------------------------

ProcessesDie == /\ lock' = Nobody
                /\ writer' = [w \in Writers |-> IdleWriter]
                /\ reader' = [r \in Readers |-> IdleReader]

Crash == ProcessesDie /\ UNCHANGED <<next, staging, published, files, renamed, current, survivors>>

\* Renames that no fsync covers may or may not have reached the disk.
PowerLoss ==
    \E undone \in SUBSET (published \ renamed) :
       /\ published' = published \ undone
       /\ staging' = staging \cup undone
       /\ current' \in survivors
       /\ survivors' = {current'}
       /\ renamed' = renamed \cup published'
       /\ ProcessesDie
       /\ UNCHANGED <<next, files>>

Commit(w) == \/ Begin(w) \/ (\E f \in Files : StageFile(w, f)) \/ Rename(w) \/ SyncGenerations(w)
             \/ Publish(w) \/ SyncRoot(w) \/ Prune(w) \/ Fail(w)

Read(r) == Resolve(r) \/ (\E f \in Files : ReadFile(r, f)) \/ CloseReader(r)

Next == \/ \E w \in Writers : Commit(w)
        \/ \E r \in Readers : Read(r)
        \/ Crash \/ PowerLoss

Spec == Init /\ [][Next]_vars

---------------------------------------------------------------------------
(* Properties *)

WriterFrames == [at : {"idle", "stage", "sync_generations", "publish", "sync_root", "prune"},
                 id : Ids \cup {Legacy}, prev : Ids \cup {Legacy}]

ReaderFrames == [at : {"idle", "reading", "failed"}, root : Ids \cup {Legacy},
                 seen : SUBSET Files, publishes : Nat]

TypeOK ==
    /\ next \in 0..MaxCommits
    /\ staging \subseteq Ids /\ published \subseteq Ids /\ renamed \subseteq Ids
    /\ files \in [Ids -> SUBSET Files]
    /\ current \in Ids \cup {Legacy} /\ survivors \subseteq Ids \cup {Legacy}
    /\ lock \in Writers \cup Readers \cup {Nobody}
    /\ writer \in [Writers -> WriterFrames]
    /\ reader \in [Readers -> ReaderFrames]

Whole(i) == i = Legacy \/ (i \in published /\ files[i] = Files)

\* CURRENT, and every pointer a power loss could leave, names a complete generation:
\* failures, crashes and pruning never break the resolvable snapshot.
PointersAreWhole == \A i \in survivors \cup {current} : Whole(i)

\* A reader that holds the lease never misses a file ("must remain readable across
\* more than one filesystem operation while writers may be active",
\* transactional_snapshot.py:158-159).
LeasedReaderNeverFails == \A r \in Leased : reader[r].at # "failed"

\* Without the lease a root stays readable until the second commit after it was
\* resolved, because each commit keeps the previous generation.
PruningSparesOneCommit ==
    \A r \in Readers : reader[r].at = "failed" => reader[r].publishes >= 2

\* "Only those two generations are retained" (transactional_snapshot.py:47): whatever a
\* pruning removes or fails to remove, also where it is cut off by an exception, a crash or a
\* power loss, it leaves the generation of its commit and the one that replaced whole.
TwoGenerationsRemain ==
    [][\A w \in Writers : At(w, "prune") =>
          \A i \in {writer[w].id, writer[w].prev} :
             i = Legacy \/ (i \in published' /\ files'[i] = Files)]_vars

\* The transaction implements the atomic snapshot it promises.
Abstract == INSTANCE AtomicSnapshot
    WITH Versions <- Ids, NoVersion <- Legacy, value <- current

ImplementsAtomicSnapshot == Abstract!Spec

---------------------------------------------------------------------------
(* The inductive invariant behind the safety properties *)

\* The lock is held by whoever is in the middle of a commit or of a leased read.
LockIsHeld == /\ \A w \in Writers : ~At(w, "idle") => lock = w
              /\ \A r \in Leased : reader[r].at # "idle" => lock = r

\* Ids are handed out in order, and a directory is staged or published, not both.
IdsAreFresh == /\ \A i \in staging \cup published \cup survivors : i <= next
               /\ staging \cap published = {}

\* What each point of a commit has established about its generation.
CommitProgress ==
    \A w \in Writers :
      LET id == writer[w].id
      IN /\ ~At(w, "idle") => id \in Ids /\ id <= next
         /\ writer[w].at \in {"stage", "sync_generations", "publish"} => id \notin survivors
         /\ At(w, "stage") => id \notin published
         /\ writer[w].at \in {"sync_generations", "publish"} => id \in published /\ files[id] = Files
         /\ At(w, "publish") => id \in renamed
         /\ writer[w].at \in {"sync_root", "prune"} => current = id
         /\ At(w, "prune") => survivors = {id}

\* No rename that CURRENT depends on can be undone.
PointersAreDurable == /\ current \in survivors
                      /\ \A i \in survivors : i = Legacy \/ i \in renamed

\* A leased reader reads a published, complete generation.
LeaseIsGood == \A r \in Leased : reader[r].at # "idle" =>
                  reader[r].at = "reading" /\ reader[r].root # Legacy /\ Whole(reader[r].root)

\* The inductive invariant.
IInv == /\ TypeOK /\ LockIsHeld /\ IdsAreFresh /\ CommitProgress
        /\ PointersAreDurable /\ PointersAreWhole /\ LeaseIsGood

\* A commit replaces the generation it found, which stays whole to its end, and its fsync
\* covered every generation.
CommitKnowsItsPlace ==
    \A w \in Writers :
      /\ writer[w].at \in {"stage", "sync_generations", "publish"} => writer[w].prev = current
      /\ writer[w].at \in {"sync_root", "prune"} => Whole(writer[w].prev)
      /\ writer[w].at \in {"publish", "sync_root", "prune"} => published \subseteq renamed

\* A root resolved without the lease is the current generation, or the previous one of the
\* only commit that published since.
RootIsSpared ==
    \A r \in Readers :
      /\ reader[r].at = "failed" => reader[r].publishes >= 2
      /\ reader[r].at = "reading" =>
           /\ reader[r].root # Legacy
           /\ reader[r].publishes = 0 => reader[r].root = current
           /\ reader[r].publishes <= 1 => Whole(reader[r].root)
           /\ reader[r].publishes = 1 => \A w \in Writers : writer[w].at \in {"sync_root", "prune"}
                                                             => writer[w].prev = reader[r].root

\* The inductive invariant of the readers without a lease.
PInv == IInv /\ CommitKnowsItsPlace /\ RootIsSpared
==================================================================================
