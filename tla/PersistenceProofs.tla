----------------------------- MODULE PersistenceProofs -----------------------------
(***************************************************************************)
(* Proofs about the files a run leaves on disk, a section for each of      *)
(*   - SnapshotTransaction: its safety for every number of writers,        *)
(*     readers, files and commits, and that it implements AtomicSnapshot;  *)
(*   - DurableSteps: type correctness for any number of runners and        *)
(*     reapers, and the commit guarantees for one runner at a time;        *)
(*   - LivePersistence: for any numbers of updates and sessions, what is   *)
(*     on disk is a gapless prefix of what was accepted, behind the        *)
(*     snapshot that justifies it; a wait that returns left everything     *)
(*     durable; the run result comes last.                                 *)
(***************************************************************************)
EXTENDS SnapshotTransaction, DurableSteps, LivePersistence, SequenceTheorems, TLAPS

---------------------------------------------------------------------------
(* SnapshotTransaction *)

\* The invariant holds before the first transaction.
LEMMA InitIInv == Init => IInv
  BY SnapshotAssumption
  DEF Init, IInv, TypeOK, WriterFrames, ReaderFrames, LockIsHeld, IdsAreFresh, CommitProgress, PointersAreDurable,
      PointersAreWhole, LeaseIsGood, Whole, At, IdleWriter, IdleReader, Ids, Legacy, Nobody

\* A publish is counted in a frame that stays one.
LEMMA CountedFrame ==
  ASSUME NEW f \in ReaderFrames PROVE [f EXCEPT !.publishes = @ + 1] \in ReaderFrames
<1> USE DEF ReaderFrames
<1>1. f.publishes + 1 \in Nat
  OBVIOUS
<1>2. \A n \in Nat : [f EXCEPT !.publishes = n] \in ReaderFrames
  OBVIOUS
<1> QED
  BY <1>1, <1>2

\* Every step keeps the types; a commit's id is known to be one from where it was staged on.
LEMMA TypeStep == TypeOK /\ CommitProgress /\ [Next]_vars => TypeOK'
<1> SUFFICES ASSUME TypeOK, CommitProgress, [Next]_vars PROVE TypeOK'
  OBVIOUS
<1> USE SnapshotAssumption DEF TypeOK, Ids, Legacy, Nobody
<1>1. ASSUME NEW w \in Writers, Begin(w) PROVE TypeOK'
  BY <1>1 DEF Begin, At, WriterFrames
<1>2. ASSUME NEW w \in Writers, NEW f \in Files, StageFile(w, f) PROVE TypeOK'
  BY <1>2 DEF StageFile, At
<1>3. ASSUME NEW w \in Writers, Rename(w) PROVE TypeOK'
  <2>1. writer[w].id \in Ids
    BY <1>3 DEF Rename, At, CommitProgress
  <2>2. published' \subseteq Ids
    BY <1>3, <2>1 DEF Rename
  <2>3. writer' \in [Writers -> WriterFrames]
    BY <1>3 DEF Rename, Goto, WriterFrames
  <2> QED
    BY <1>3, <2>2, <2>3 DEF Rename
<1>4. ASSUME NEW w \in Writers, SyncGenerations(w) PROVE TypeOK'
  BY <1>4, SMTT(40) DEF SyncGenerations, At, Goto, WriterFrames
<1>5. ASSUME NEW w \in Writers, Publish(w) PROVE TypeOK'
  <2>1. ASSUME NEW r \in Readers
        PROVE  [reader[r] EXCEPT !.publishes = @ + 1] \in ReaderFrames
    BY <2>1, CountedFrame
  <2>2. reader' \in [Readers -> ReaderFrames]
    BY <1>5, <2>1 DEF Publish
  <2> QED
    BY <1>5, <2>2, ZenonT(40) DEF Publish, Goto, WriterFrames
<1>6. ASSUME NEW w \in Writers, SyncRoot(w) PROVE TypeOK'
  BY <1>6 DEF SyncRoot, At, Goto, WriterFrames
<1>7. ASSUME NEW w \in Writers, Prune(w) PROVE TypeOK'
  BY <1>7 DEF Prune, RemoveFiles, At, Unlock, IdleWriter, WriterFrames
<1>8. ASSUME NEW w \in Writers, Fail(w) PROVE TypeOK'
  BY <1>8 DEF Fail, RemoveFiles, At, Unlock, IdleWriter, WriterFrames
<1>9. ASSUME NEW r \in Readers, Resolve(r) PROVE TypeOK'
  BY <1>9 DEF Resolve, ReaderFrames
<1>10. ASSUME NEW r \in Readers, NEW f \in Files, ReadFile(r, f) PROVE TypeOK'
  BY <1>10, SMTT(40) DEF ReadFile, ReaderFrames
<1>11. ASSUME NEW r \in Readers, CloseReader(r) PROVE TypeOK'
  BY <1>11 DEF CloseReader, IdleReader, ReaderFrames
<1>12. ASSUME Crash PROVE TypeOK'
  BY <1>12 DEF Crash, ProcessesDie, IdleWriter, IdleReader, WriterFrames, ReaderFrames
<1>13. ASSUME PowerLoss PROVE TypeOK'
  BY <1>13 DEF PowerLoss, ProcessesDie, IdleWriter, IdleReader, WriterFrames, ReaderFrames
<1>14. ASSUME UNCHANGED vars PROVE TypeOK'
  BY <1>14 DEF vars
<1> QED
  BY <1>1, <1>2, <1>3, <1>4, <1>5, <1>6, <1>7, <1>8, <1>9, <1>10, <1>11, <1>12, <1>13, <1>14
  DEF Next, Commit, Read

\* Every step keeps the invariant.
LEMMA InductiveStep == IInv /\ [Next]_vars => IInv'
<1> SUFFICES ASSUME IInv, [Next]_vars PROVE IInv'
  OBVIOUS
<1>0. TypeOK'
  BY TypeStep DEF IInv
<1> USE SnapshotAssumption DEF IInv, TypeOK, WriterFrames, ReaderFrames, Ids, Legacy, Nobody, At,
        LockIsHeld, IdsAreFresh, CommitProgress, PointersAreDurable, PointersAreWhole,
        LeaseIsGood, Whole
<1>1. ASSUME NEW w \in Writers, Begin(w) PROVE IInv'
  BY <1>0, <1>1 DEF Begin
<1>2. ASSUME NEW w \in Writers, NEW f \in Files, StageFile(w, f) PROVE IInv'
  BY <1>0, <1>2 DEF StageFile
<1>3. ASSUME NEW w \in Writers, Rename(w) PROVE IInv'
  BY <1>0, <1>3 DEF Rename, Goto
<1>4. ASSUME NEW w \in Writers, SyncGenerations(w) PROVE IInv'
  BY <1>0, <1>4 DEF SyncGenerations, Goto
<1>5. ASSUME NEW w \in Writers, Publish(w) PROVE IInv'
  <2>1. LockIsHeld'
    BY <1>5 DEF Publish, Goto
  <2>2. IdsAreFresh'
    BY <1>5 DEF Publish, Goto
  <2>3. CommitProgress'
    BY <1>5 DEF Publish, Goto
  <2>4. PointersAreDurable'
    BY <1>5 DEF Publish, Goto
  <2>5. PointersAreWhole'
    BY <1>5 DEF Publish, Goto
  <2>6. LeaseIsGood'
    BY <1>5 DEF Publish, Goto
  <2> QED
    BY <1>0, <2>1, <2>2, <2>3, <2>4, <2>5, <2>6
<1>6. ASSUME NEW w \in Writers, SyncRoot(w) PROVE IInv'
  BY <1>0, <1>6 DEF SyncRoot, Goto
<1>7. ASSUME NEW w \in Writers, Prune(w) PROVE IInv'
  BY <1>0, <1>7 DEF Prune, RemoveFiles, Unlock, IdleWriter
<1>8. ASSUME NEW w \in Writers, Fail(w) PROVE IInv'
  BY <1>0, <1>8 DEF Fail, RemoveFiles, Unlock, IdleWriter
<1>9. ASSUME NEW r \in Readers, Resolve(r) PROVE IInv'
  BY <1>0, <1>9 DEF Resolve
<1>10. ASSUME NEW r \in Readers, NEW f \in Files, ReadFile(r, f) PROVE IInv'
  BY <1>0, <1>10, SMTT(40) DEF ReadFile
<1>11. ASSUME NEW r \in Readers, CloseReader(r) PROVE IInv'
  BY <1>0, <1>11 DEF CloseReader, IdleReader
<1>12. ASSUME Crash PROVE IInv'
  BY <1>0, <1>12 DEF Crash, ProcessesDie, IdleWriter, IdleReader
<1>13. ASSUME PowerLoss PROVE IInv'
  BY <1>0, <1>13 DEF PowerLoss, ProcessesDie, IdleWriter, IdleReader
<1>14. ASSUME UNCHANGED vars PROVE IInv'
  BY <1>14 DEF vars
<1> QED
  BY <1>1, <1>2, <1>3, <1>4, <1>5, <1>6, <1>7, <1>8, <1>9, <1>10, <1>11, <1>12, <1>13, <1>14
  DEF Next, Commit, Read

\* Every reachable state satisfies the invariant.
THEOREM Invariance == Spec => []IInv
<1>1. Init => IInv
  BY InitIInv
<1>2. IInv /\ [Next]_vars => IInv'
  BY InductiveStep
<1> QED
  BY <1>1, <1>2, PTL DEF Spec

\* Type correctness of the transaction (transactional_snapshot.py), for every instance.
THEOREM TypeCorrect == Spec => []TypeOK
<1>1. IInv => TypeOK
  BY DEF IInv
<1> QED
  BY <1>1, Invariance, PTL

\* Failures, crashes, power losses and pruning never leave CURRENT, nor what CURRENT may
\* fall back to, on an incomplete generation.
THEOREM SnapshotsAreWhole == Spec => []PointersAreWhole
<1>1. IInv => PointersAreWhole
  BY DEF IInv
<1> QED
  BY <1>1, Invariance, PTL

\* A reader inside snapshot_reader never misses a file, whatever writers do.
THEOREM LeasesHold == Spec => []LeasedReaderNeverFails
<1>1. IInv => LeasedReaderNeverFails
  BY DEF IInv, LeaseIsGood, LeasedReaderNeverFails
<1> QED
  BY <1>1, Invariance, PTL

---------------------------------------------------------------------------
(* Readers that hold no lease, and what a commit leaves *)

\* Two commits are never under way at once.
LEMMA OneCommit ==
  ASSUME IInv, NEW v \in Writers, NEW w \in Writers, ~At(v, "idle"), ~At(w, "idle")
  PROVE  v = w
  BY DEF IInv, LockIsHeld

\* Every step keeps a commit informed of what it replaces and of what it may not undo.
LEMMA PlaceStep == IInv /\ CommitKnowsItsPlace /\ [Next]_vars => CommitKnowsItsPlace'
<1> SUFFICES ASSUME IInv, CommitKnowsItsPlace, [Next]_vars PROVE CommitKnowsItsPlace'
  OBVIOUS
<1> USE SnapshotAssumption DEF CommitKnowsItsPlace, IInv, TypeOK, WriterFrames, LockIsHeld,
                               IdsAreFresh, CommitProgress, Whole, At
<1>1. ASSUME NEW w \in Writers, Begin(w) PROVE CommitKnowsItsPlace'
  BY <1>1 DEF Begin, Nobody
<1>2. ASSUME NEW w \in Writers, NEW f \in Files, StageFile(w, f) PROVE CommitKnowsItsPlace'
  BY <1>2 DEF StageFile
<1>3. ASSUME NEW w \in Writers, Rename(w) PROVE CommitKnowsItsPlace'
  BY <1>3, OneCommit DEF Rename, Goto
<1>4. ASSUME NEW w \in Writers, SyncGenerations(w) PROVE CommitKnowsItsPlace'
  BY <1>4, OneCommit DEF SyncGenerations, Goto
<1>5. ASSUME NEW w \in Writers, Publish(w) PROVE CommitKnowsItsPlace'
  BY <1>5, OneCommit DEF Publish, Goto, PointersAreWhole
<1>6. ASSUME NEW w \in Writers, SyncRoot(w) PROVE CommitKnowsItsPlace'
  BY <1>6 DEF SyncRoot, Goto
<1>7. ASSUME NEW w \in Writers, Prune(w) \/ Fail(w) PROVE CommitKnowsItsPlace'
  BY <1>7, OneCommit DEF Prune, Fail, RemoveFiles, Unlock, IdleWriter
<1>8. ASSUME NEW r \in Readers, Read(r) PROVE CommitKnowsItsPlace'
  BY <1>8 DEF Read, Resolve, ReadFile, CloseReader
<1>9. ASSUME Crash \/ PowerLoss PROVE CommitKnowsItsPlace'
  BY <1>9 DEF Crash, PowerLoss, ProcessesDie, IdleWriter
<1>10. ASSUME UNCHANGED vars PROVE CommitKnowsItsPlace'
  BY <1>10 DEF vars
<1> QED
  BY <1>1, <1>2, <1>3, <1>4, <1>5, <1>6, <1>7, <1>8, <1>9, <1>10 DEF Next, Commit

\* Every step keeps the root of a reader until a second commit was published.
LEMMA RootStep == PInv /\ [Next]_vars => RootIsSpared'
<1> SUFFICES ASSUME PInv, [Next]_vars PROVE RootIsSpared'
  OBVIOUS
<1>0. \A r \in Readers : reader[r].publishes \in Nat /\ (reader[r].publishes <= 1 => reader[r].publishes \in {0, 1})
  <2>1. \A n \in Nat : n <= 1 => n \in {0, 1}
    OBVIOUS
  <2> QED
    BY <2>1 DEF PInv, IInv, TypeOK, ReaderFrames
<1> USE SnapshotAssumption DEF PInv, RootIsSpared, CommitKnowsItsPlace, IInv, TypeOK, WriterFrames,
                               ReaderFrames, LockIsHeld, IdsAreFresh, CommitProgress, Whole, At
<1>1. ASSUME NEW w \in Writers, Begin(w) PROVE RootIsSpared'
  BY <1>1 DEF Begin
<1>2. ASSUME NEW w \in Writers, NEW f \in Files, StageFile(w, f) PROVE RootIsSpared'
  BY <1>2 DEF StageFile
<1>3. ASSUME NEW w \in Writers, Rename(w) PROVE RootIsSpared'
  BY <1>3 DEF Rename, Goto
<1>4. ASSUME NEW w \in Writers, SyncGenerations(w) PROVE RootIsSpared'
  BY <1>4 DEF SyncGenerations, Goto
<1>5. ASSUME NEW w \in Writers, Publish(w) PROVE RootIsSpared'
  BY <1>5, OneCommit DEF Publish, Goto
<1>6. ASSUME NEW w \in Writers, SyncRoot(w) PROVE RootIsSpared'
  BY <1>6 DEF SyncRoot, Goto
<1>7. ASSUME NEW w \in Writers, Prune(w) PROVE RootIsSpared'
  <2>1. /\ writer[w].at = "prune" /\ writer[w].id = current /\ UNCHANGED <<current, reader>>
        /\ published' \subseteq published
        /\ \A i \in published \cap {writer[w].id, writer[w].prev} :
              i \in published' /\ (i \in Ids => files'[i] = files[i])
        /\ writer' = [writer EXCEPT ![w] = IdleWriter]
    BY <1>7 DEF Prune, RemoveFiles, Unlock
  <2>2. ASSUME NEW r \in Readers, reader[r].at = "reading", reader[r].publishes <= 1
        PROVE  reader[r].root \in {writer[w].id, writer[w].prev} /\ Whole(reader[r].root)'
    <3>1. reader[r].publishes \in {0, 1}
      BY <1>0, <2>2
    <3>2. reader[r].root \in {writer[w].id, writer[w].prev}
      BY <2>1, <2>2, <3>1
    <3>3. reader[r].root \in published /\ files[reader[r].root] = Files /\ reader[r].root \in Ids
      BY <2>2
    <3> QED
      BY <2>1, <3>2, <3>3
  <2>3. \A v \in Writers : writer'[v].at \in {"sync_root", "prune"} => writer'[v] = writer[v]
    BY <2>1 DEF IdleWriter
  <2> QED
    BY <2>1, <2>2, <2>3
<1>8. ASSUME NEW w \in Writers, Fail(w) PROVE RootIsSpared'
  BY <1>8 DEF Fail, RemoveFiles, Unlock, IdleWriter
<1>9. ASSUME NEW r \in Readers, Resolve(r) PROVE RootIsSpared'
  BY <1>9 DEF Resolve, PointersAreWhole
<1>10. ASSUME NEW r \in Readers, NEW f \in Files, ReadFile(r, f) PROVE RootIsSpared'
  BY <1>10 DEF ReadFile
<1>11. ASSUME NEW r \in Readers, CloseReader(r) PROVE RootIsSpared'
  BY <1>11 DEF CloseReader, IdleReader
<1>12. ASSUME Crash \/ PowerLoss PROVE RootIsSpared'
  BY <1>12 DEF Crash, PowerLoss, ProcessesDie, IdleReader
<1>13. ASSUME UNCHANGED vars PROVE RootIsSpared'
  BY <1>13 DEF vars
<1> QED
  BY <1>1, <1>2, <1>3, <1>4, <1>5, <1>6, <1>7, <1>8, <1>9, <1>10, <1>11, <1>12, <1>13
  DEF Next, Commit, Read

\* The invariant of the readers without a lease.
THEOREM ReadersInvariance == Spec => []PInv
<1>1. Init => PInv
  BY InitIInv DEF Init, PInv, CommitKnowsItsPlace, RootIsSpared, IdleWriter, IdleReader
<1>2. PInv /\ [Next]_vars => PInv'
  BY InductiveStep, PlaceStep, RootStep DEF PInv
<1> QED
  BY <1>1, <1>2, PTL DEF Spec

\* A root resolved without the lease is readable until a second commit is published.
THEOREM OneCommitIsSpared == Spec => []PruningSparesOneCommit
<1>1. PInv => PruningSparesOneCommit
  BY DEF PInv, RootIsSpared, PruningSparesOneCommit
<1> QED
  BY <1>1, ReadersInvariance, PTL

\* Whatever a pruning removes or fails to remove, and whatever cuts it off, the generation of
\* its commit and the one it replaced stay whole.
THEOREM TwoRemain == Spec => TwoGenerationsRemain
<1>1. PInv /\ [Next]_vars =>
        \A w \in Writers : At(w, "prune") =>
          \A i \in {writer[w].id, writer[w].prev} :
             i = Legacy \/ (i \in published' /\ files'[i] = Files)
  <2> SUFFICES ASSUME PInv, [Next]_vars, NEW w \in Writers, At(w, "prune"),
                      NEW i \in {writer[w].id, writer[w].prev}, i # Legacy
               PROVE  i \in published' /\ files'[i] = Files
    OBVIOUS
  <2>1. /\ i \in Ids /\ i \in published /\ files[i] = Files /\ i \notin staging
        /\ published \subseteq renamed /\ files \in [Ids -> SUBSET Files]
        /\ lock = w /\ ~At(w, "idle")
    BY DEF PInv, IInv, TypeOK, WriterFrames, IdsAreFresh, CommitProgress, CommitKnowsItsPlace,
           PointersAreWhole, LockIsHeld, Whole, At
  <2>2. ASSUME NEW v \in Writers, Commit(v) PROVE i \in published' /\ files'[i] = Files
    <3>1. CASE v = w
      <4>1. Prune(w) \/ Fail(w)
        BY <2>2, <3>1 DEF Commit, Begin, StageFile, Rename, SyncGenerations, Publish, SyncRoot, At
      <4>2. CASE Prune(w)
        BY <2>1, <4>2 DEF Prune, RemoveFiles
      <4>3. CASE Fail(w)
        BY <2>1, <4>3 DEF Fail, RemoveFiles
      <4> QED
        BY <4>1, <4>2, <4>3
    <3>2. CASE v # w
      <4>1. At(v, "idle")
        BY <2>1, <3>2, OneCommit DEF PInv
      <4> QED
        BY <2>1, <2>2, <4>1, SnapshotAssumption DEF Commit, Begin, StageFile, Rename, SyncGenerations,
           Publish, SyncRoot, Prune, Fail, At, Nobody
    <3> QED
      BY <3>1, <3>2
  <2>3. ASSUME NEW r \in Readers, Read(r) PROVE i \in published' /\ files'[i] = Files
    BY <2>1, <2>3 DEF Read, Resolve, ReadFile, CloseReader
  <2>4. CASE Crash
    BY <2>1, <2>4 DEF Crash
  <2>5. CASE PowerLoss
    BY <2>1, <2>5 DEF PowerLoss
  <2>6. CASE UNCHANGED vars
    BY <2>1, <2>6 DEF vars
  <2> QED
    BY <2>2, <2>3, <2>4, <2>5, <2>6 DEF Next
<1> QED
  BY <1>1, ReadersInvariance, PTL DEF Spec, TwoGenerationsRemain

---------------------------------------------------------------------------
(* The transaction implements the atomic snapshot *)

\* A step replaces the whole snapshot, makes the replacement durable, falls back to a
\* snapshot that was not durably replaced, or changes nothing a reader resolves.
LEMMA StepSimulation == IInv /\ [Next]_vars => [Abstract!Next]_(Abstract!vars)
<1> SUFFICES ASSUME IInv, [Next]_vars PROVE [Abstract!Next]_(Abstract!vars)
  OBVIOUS
<1> USE DEF Abstract!vars
<1>1. ASSUME NEW w \in Writers, Publish(w) PROVE Abstract!Next
  <2>1. writer[w].id \in Ids /\ writer[w].id \notin survivors
    BY <1>1 DEF Publish, At, IInv, CommitProgress
  <2>2. Abstract!Publish(writer[w].id)
    BY <1>1, <2>1 DEF Publish, Abstract!Publish
  <2> QED
    BY <2>1, <2>2 DEF Abstract!Next
<1>2. ASSUME NEW w \in Writers, SyncRoot(w) PROVE Abstract!Next
  BY <1>2 DEF SyncRoot, Abstract!Next, Abstract!MakeDurable
<1>3. ASSUME PowerLoss PROVE Abstract!Next
  BY <1>3 DEF PowerLoss, Abstract!Next, Abstract!PowerLoss
<1>4. ASSUME NEW w \in Writers,
             \/ Begin(w) \/ (\E f \in Files : StageFile(w, f)) \/ Rename(w)
             \/ SyncGenerations(w) \/ Prune(w) \/ Fail(w)
      PROVE  UNCHANGED Abstract!vars
  BY <1>4 DEF Begin, StageFile, Rename, SyncGenerations, Prune, Fail
<1>5. ASSUME NEW r \in Readers, Read(r) PROVE UNCHANGED Abstract!vars
  BY <1>5 DEF Read, Resolve, ReadFile, CloseReader
<1>6. ASSUME Crash PROVE UNCHANGED Abstract!vars
  BY <1>6 DEF Crash
<1>7. ASSUME UNCHANGED vars PROVE UNCHANGED Abstract!vars
  BY <1>7 DEF vars
<1> QED
  BY <1>1, <1>2, <1>3, <1>4, <1>5, <1>6, <1>7 DEF Next, Commit

\* NexusSnapshotTransaction implements AtomicSnapshot: to every reader that resolves the
\* root, a commit takes effect at one instant or not at all.
THEOREM TransactionIsAtomic == Spec => ImplementsAtomicSnapshot
<1>1. Init => Abstract!Init
  BY DEF Init, Abstract!Init
<1>2. IInv /\ [Next]_vars => [Abstract!Next]_(Abstract!vars)
  BY StepSimulation
<1> QED
  BY <1>1, <1>2, Invariance, PTL DEF Spec, ImplementsAtomicSnapshot, Abstract!Spec

---------------------------------------------------------------------------
(* DurableSteps *)

\* The status values run_step and the reaper build are status files.
LEMMA StatusValues ==
  /\ \A st \in StatusFiles, s \in StepStates : [st EXCEPT !.state = s] \in StatusFiles
  /\ \A st \in StatusFiles, i \in Inputs \cup {NoInput} : [st EXCEPT !.hash = i] \in StatusFiles
  /\ \A st \in StatusFiles : st.attempt < MaxAttempts =>
       [st EXCEPT !.state = "inflight", !.attempt = @ + 1] \in StatusFiles
  /\ \A i \in Inputs \cup {NoInput} : Created(i) \in StatusFiles
  /\ Absent \in StatusFiles
<1> USE DEF StatusFiles, StepStates
<1>1. \A st \in StatusFiles, s \in StepStates : [st EXCEPT !.state = s] \in StatusFiles
  OBVIOUS
<1>2. \A st \in StatusFiles, i \in Inputs \cup {NoInput} : [st EXCEPT !.hash = i] \in StatusFiles
  OBVIOUS
<1>3. ASSUME NEW st \in StatusFiles, st.attempt < MaxAttempts
      PROVE  [st EXCEPT !.state = "inflight", !.attempt = @ + 1] \in StatusFiles
  <2>1. st.attempt + 1 \in 0..MaxAttempts
    BY <1>3, MaxAttemptsAssumption
  <2>2. \A a \in 0..MaxAttempts : [st EXCEPT !.state = "inflight", !.attempt = a] \in StatusFiles
    OBVIOUS
  <2> QED
    BY <2>1, <2>2
<1>4. \A i \in Inputs \cup {NoInput} : Created(i) \in StatusFiles
  BY MaxAttemptsAssumption DEF Created
<1>5. Absent \in StatusFiles
  BY MaxAttemptsAssumption DEF Absent
<1> QED
  BY <1>1, <1>2, <1>3, <1>4, <1>5

\* A frame stays one when run_step moves it on, gives it a status or its result.
LEMMA FrameUpdates ==
  ASSUME NEW c \in CallFrames, NEW point \in CallPoints
  PROVE  /\ [c EXCEPT !.at = point] \in CallFrames
         /\ \A st \in StatusFiles : [c EXCEPT !.at = point, !.st = st] \in CallFrames
         /\ \A i \in Inputs \cup {NoInput} :
              [c EXCEPT !.at = point, !.result = i] \in CallFrames
         /\ \A st \in StatusFiles, i \in Inputs \cup {NoInput} :
              [c EXCEPT !.at = point, !.st = st, !.result = i] \in CallFrames
<1> USE DEF CallFrames
<1>1. [c EXCEPT !.at = point] \in CallFrames
  OBVIOUS
<1>2. \A st \in StatusFiles : [c EXCEPT !.at = point, !.st = st] \in CallFrames
  OBVIOUS
<1>3. \A i \in Inputs \cup {NoInput} : [c EXCEPT !.at = point, !.result = i] \in CallFrames
  OBVIOUS
<1>4. \A st \in StatusFiles, i \in Inputs \cup {NoInput} :
        [c EXCEPT !.at = point, !.st = st, !.result = i] \in CallFrames
  OBVIOUS
<1> QED
  BY <1>1, <1>2, <1>3, <1>4

\* Every write of run_step and of the reaper keeps the types, whoever else runs.
LEMMA DSTypeStep == DSTypeOK /\ [DSNext]_DSVars => DSTypeOK'
<1> SUFFICES ASSUME DSTypeOK, [DSNext]_DSVars PROVE DSTypeOK'
  OBVIOUS
<1> USE NoInputAssumption, MaxAttemptsAssumption, StatusValues
    DEF DSTypeOK, CallPoints, ReapFrames, StepStates
<1>frame. ASSUME NEW r \in Runners
      PROVE  /\ call[r] \in CallFrames /\ call[r].st \in StatusFiles
             /\ call[r].input \in Inputs \cup {NoInput}
  BY ZenonT(40) DEF CallFrames
<1>0. ASSUME NEW r \in Runners, NEW point \in CallPoints, MoveTo(r, point)
      PROVE  call' \in [Runners -> CallFrames]
  BY <1>0, <1>frame, FrameUpdates, ZenonT(40) DEF MoveTo
<1>1. ASSUME NEW r \in Runners, NEW i \in Inputs, Enter(r, i) PROVE DSTypeOK'
  <2>1. [at |-> "read_output", input |-> i, st |-> status, result |-> NoInput] \in CallFrames
    BY DEF CallFrames
  <2> QED
    BY <1>1, <2>1 DEF Enter
<1>2. ASSUME NEW r \in Runners, ReadOutput(r) PROVE DSTypeOK'
  <2>1. [call[r] EXCEPT !.at = "returned", !.result = output] \in CallFrames
    BY ZenonT(40), <1>frame, FrameUpdates
  <2> QED
    BY <1>0, <1>2, <2>1, ZenonT(40) DEF ReadOutput
<1>3. ASSUME NEW r \in Runners, Reset(r) PROVE DSTypeOK'
  <2>1. Created(call[r].input) \in StatusFiles
    BY <1>frame
  <2>2. [call[r] EXCEPT !.at = "ready", !.st = Created(call[r].input)] \in CallFrames
    BY ZenonT(40), <1>frame, <2>1, FrameUpdates
  <2> QED
    BY <1>3, <2>1, <2>2 DEF Reset, WriteStatus
<1>4. ASSUME NEW r \in Runners, WriteInput(r) PROVE DSTypeOK'
  <2>1. Created(call[r].input) \in StatusFiles
    BY <1>frame
  <2>2. \A st \in StatusFiles : [call[r] EXCEPT !.at = "write_back", !.st = st] \in CallFrames
    BY <1>frame, FrameUpdates
  <2> QED
    BY <1>4, <2>1, <2>2 DEF WriteInput
<1>5. ASSUME NEW r \in Runners, WriteBack(r) PROVE DSTypeOK'
  BY <1>0, <1>5, <1>frame DEF WriteBack, WriteStatus
<1>6. ASSUME NEW r \in Runners, Stamp(r) PROVE DSTypeOK'
  <2>1. [call[r].st EXCEPT !.hash = call[r].input] \in StatusFiles
    BY ZenonT(40), <1>frame
  <2>2. [call[r] EXCEPT !.at = "ready", !.st = [call[r].st EXCEPT !.hash = call[r].input]]
          \in CallFrames
    BY <1>frame, <2>1, FrameUpdates
  <2> QED
    BY <1>6, <2>1, <2>2 DEF Stamp, WriteStatus
<1>7. ASSUME NEW r \in Runners, Ready(r) PROVE DSTypeOK'
  <2>1. [call[r].st EXCEPT !.state = "ready"] \in StatusFiles
    BY <1>frame
  <2>2. [call[r] EXCEPT !.at = "inflight", !.st = [call[r].st EXCEPT !.state = "ready"]]
          \in CallFrames
    BY <1>frame, <2>1, FrameUpdates
  <2> QED
    BY <1>0, <1>7, <2>1, <2>2, ZenonT(40) DEF Ready, WriteStatus
<1>8. ASSUME NEW r \in Runners, Inflight(r) PROVE DSTypeOK'
  <2>1. CASE ValidTransition(call[r].st.state, "inflight")
    <3> DEFINE st == [call[r].st EXCEPT !.state = "inflight", !.attempt = @ + 1]
    <3>1. st \in StatusFiles
      BY <1>8, <1>frame, <2>1 DEF Inflight
    <3>2. [call[r] EXCEPT !.at = "fn", !.st = st] \in CallFrames
      BY ZenonT(40), <1>frame, <3>1, FrameUpdates
    <3> QED
      BY <1>8, <2>1, <3>1, <3>2, ZenonT(40) DEF Inflight, WriteStatus
  <2>2. CASE ~ValidTransition(call[r].st.state, "inflight")
    BY <1>0, <1>8, <2>2 DEF Inflight
  <2> QED
    BY <2>1, <2>2
<1>9. ASSUME NEW r \in Runners, NEW f \in {"retryable_failed", "terminal_failed"}, FnFails(r, f)
      PROVE  DSTypeOK'
  <2>1. [call[r].st EXCEPT !.state = f] \in StatusFiles
    BY <1>frame
  <2>2. [call[r] EXCEPT !.at = "raised", !.st = [call[r].st EXCEPT !.state = f]] \in CallFrames
    BY <1>frame, <2>1, FrameUpdates
  <2> QED
    BY <1>9, <2>1, <2>2 DEF FnFails, WriteStatus
<1>10. ASSUME NEW r \in Runners, FnReturns(r) PROVE DSTypeOK'
  BY <1>0, <1>10 DEF FnReturns
<1>11. ASSUME NEW r \in Runners, CommitOutput(r) PROVE DSTypeOK'
  BY <1>0, <1>11, <1>frame DEF CommitOutput
<1>12. ASSUME NEW r \in Runners, CommitStatus(r) PROVE DSTypeOK'
  <2> DEFINE st == [call[r].st EXCEPT !.state = "committed"]
  <2>1. st \in StatusFiles
    BY ZenonT(40), <1>frame
  <2>2. [call[r] EXCEPT !.at = "returned", !.st = st, !.result = call[r].input] \in CallFrames
    BY <1>frame, <2>1, FrameUpdates
  <2> QED
    BY <1>12, <2>1, <2>2 DEF CommitStatus, WriteStatus
<1>13. ASSUME NEW r \in Runners, RunnerDies(r) PROVE DSTypeOK'
  <2>1. NoCall \in CallFrames
    BY DEF NoCall, CallFrames
  <2> QED
    BY <1>13, <2>1 DEF RunnerDies
<1>14. ASSUME NEW p \in Reapers, PlanStale(p) PROVE DSTypeOK'
  BY <1>14 DEF PlanStale
<1>15. ASSUME NEW p \in Reapers, ReapRead(p) PROVE DSTypeOK'
  BY <1>15 DEF ReapRead, Absent
<1>16. ASSUME NEW p \in Reapers, ReapMark(p) PROVE DSTypeOK'
  BY <1>16 DEF ReapMark, WriteStatus
<1>17. ASSUME Age PROVE DSTypeOK'
  BY <1>17 DEF Age
<1>18. ASSUME UNCHANGED DSVars PROVE DSTypeOK'
  BY <1>18, ZenonT(40) DEF DSVars
<1> QED
  BY <1>1, <1>2, <1>3, <1>4, <1>5, <1>6, <1>7, <1>8, <1>9, <1>10, <1>11, <1>12, <1>13, <1>14,
     <1>15, <1>16, <1>17, <1>18
  DEF DSNext, RunStep, Reap

\* With one runner, every step keeps the invariant; no assumption is made on reapers.
LEMMA DSInductiveStep ==
  ASSUME SingleRunner
  PROVE  CommitInv /\ [DSNext]_DSVars => CommitInv'
<1> SUFFICES ASSUME CommitInv, [DSNext]_DSVars PROVE CommitInv'
  OBVIOUS
<1> USE NoInputAssumption DEF CommitInv, DSTypeOK, CallFrames, StatusFiles, CommittedHasItsOutput,
        CommitNamesAnInput, CallIsSound, ReturnsOwnOutput, SingleRunner
<1>0. DSTypeOK'
  BY DSTypeStep DEF CommitInv
<1>1. ASSUME NEW r \in Runners, NEW i \in Inputs, Enter(r, i) PROVE CommitInv'
  BY <1>0, <1>1 DEF Enter
<1>2. ASSUME NEW r \in Runners, ReadOutput(r) PROVE CommitInv'
  BY <1>0, <1>2 DEF ReadOutput, MoveTo
<1>3. ASSUME NEW r \in Runners, Reset(r) PROVE CommitInv'
  BY <1>0, <1>3 DEF Reset, WriteStatus, Created
<1>4. ASSUME NEW r \in Runners, WriteInput(r) PROVE CommitInv'
  BY <1>0, <1>4 DEF WriteInput, Created, Absent
<1>5. ASSUME NEW r \in Runners, WriteBack(r) PROVE CommitInv'
  BY <1>0, <1>5, SMTT(40) DEF WriteBack, WriteStatus, MoveTo
<1>6. ASSUME NEW r \in Runners, Stamp(r) PROVE CommitInv'
  BY <1>0, <1>6 DEF Stamp, WriteStatus
<1>7. ASSUME NEW r \in Runners, Ready(r) PROVE CommitInv'
  BY <1>0, <1>7 DEF Ready, WriteStatus, MoveTo
<1>8. ASSUME NEW r \in Runners, Inflight(r) PROVE CommitInv'
  BY <1>0, <1>8 DEF Inflight, WriteStatus, MoveTo
<1>9. ASSUME NEW r \in Runners, NEW f \in {"retryable_failed", "terminal_failed"}, FnFails(r, f)
      PROVE  CommitInv'
  BY <1>0, <1>9 DEF FnFails, WriteStatus
<1>10. ASSUME NEW r \in Runners, FnReturns(r) PROVE CommitInv'
  BY <1>0, <1>10 DEF FnReturns, MoveTo
<1>11. ASSUME NEW r \in Runners, CommitOutput(r) PROVE CommitInv'
  BY <1>0, <1>11 DEF CommitOutput, MoveTo
<1>12. ASSUME NEW r \in Runners, CommitStatus(r) PROVE CommitInv'
  <2>1. /\ output = call[r].input /\ call[r].input \in Inputs
        /\ call[r].st.hash = call[r].input
    BY <1>12 DEF CommitStatus, CommitInv, CallIsSound
  <2>2. CommittedHasItsOutput' /\ CommitNamesAnInput'
    BY <1>12, <2>1 DEF CommitStatus, WriteStatus, CommittedHasItsOutput, CommitNamesAnInput,
                       CommitInv, DSTypeOK, CallFrames, StatusFiles
  <2>3. \A q \in Runners : q = r
    BY DEF SingleRunner
  <2>4. call'[r].at = "returned" /\ call'[r].input = call[r].input /\ call'[r].result = call[r].input
    BY <1>12 DEF CommitStatus, CommitInv, DSTypeOK, CallFrames
  <2>5. CallIsSound' /\ ReturnsOwnOutput'
    BY <2>1, <2>3, <2>4 DEF CallIsSound, ReturnsOwnOutput
  <2> QED
    BY <1>0, <2>2, <2>5 DEF CommitInv
<1>13. ASSUME NEW r \in Runners, RunnerDies(r) PROVE CommitInv'
  BY <1>0, <1>13 DEF RunnerDies, NoCall, Absent
<1>14. ASSUME NEW p \in Reapers, PlanStale(p) PROVE CommitInv'
  BY <1>0, <1>14 DEF PlanStale
<1>15. ASSUME NEW p \in Reapers, ReapRead(p) PROVE CommitInv'
  BY <1>0, <1>15 DEF ReapRead, Absent
<1>16. ASSUME NEW p \in Reapers, ReapMark(p) PROVE CommitInv'
  BY <1>0, <1>16 DEF ReapMark, WriteStatus, Absent
<1>17. ASSUME Age PROVE CommitInv'
  BY <1>0, <1>17 DEF Age
<1>18. ASSUME UNCHANGED DSVars PROVE CommitInv'
  BY <1>0, <1>18 DEF DSVars
<1> QED
  BY <1>1, <1>2, <1>3, <1>4, <1>5, <1>6, <1>7, <1>8, <1>9, <1>10, <1>11, <1>12, <1>13, <1>14,
     <1>15, <1>16, <1>17, <1>18
  DEF DSNext, RunStep, Reap

\* The first state satisfies the invariant.
LEMMA DSInitIInv == DSInit => DSIInv
<1> SUFFICES ASSUME DSInit PROVE DSIInv
  OBVIOUS
<1>1. DSTypeOK
  BY StatusValues DEF DSInit, DSTypeOK, NoCall, CallFrames, CallPoints, ReapFrames
<1>2. CommittedHasItsOutput /\ CommitNamesAnInput /\ CallIsSound /\ ReturnsOwnOutput
  BY DEF DSInit, NoCall, Absent, CommittedHasItsOutput, CommitNamesAnInput, CallIsSound,
         ReturnsOwnOutput
<1>3. FrameKnowsTerminal
  BY DEF DSInit, NoCall, FrameKnowsTerminal
<1> QED
  BY <1>1, <1>2, <1>3 DEF DSIInv, CommitInv

\* A terminal status stays known to the call that may have to respect it: reapers only
\* ever write "retryable_failed".
LEMMA KnowledgeStep ==
  ASSUME SingleRunner
  PROVE  DSIInv /\ [DSNext]_DSVars => FrameKnowsTerminal'
<1> SUFFICES ASSUME DSIInv, [DSNext]_DSVars PROVE FrameKnowsTerminal'
  OBVIOUS
<1> USE NoInputAssumption DEF DSIInv, CommitInv, DSTypeOK, CallFrames, StatusFiles,
        FrameKnowsTerminal, TerminalStates, SingleRunner
<1>1. ASSUME NEW r \in Runners, NEW i \in Inputs, Enter(r, i) PROVE FrameKnowsTerminal'
  BY <1>1 DEF Enter
<1>2. ASSUME NEW r \in Runners, ReadOutput(r) PROVE FrameKnowsTerminal'
  BY <1>2 DEF ReadOutput, MoveTo
<1>3. ASSUME NEW r \in Runners, Reset(r) PROVE FrameKnowsTerminal'
  BY <1>3 DEF Reset, WriteStatus, Created
<1>4. ASSUME NEW r \in Runners, WriteInput(r) PROVE FrameKnowsTerminal'
  BY <1>4 DEF WriteInput, Created, Absent
<1>5. ASSUME NEW r \in Runners, WriteBack(r) PROVE FrameKnowsTerminal'
  BY <1>5 DEF WriteBack, WriteStatus, MoveTo
<1>6. ASSUME NEW r \in Runners, Stamp(r) PROVE FrameKnowsTerminal'
  BY <1>6 DEF Stamp, WriteStatus
<1>7. ASSUME NEW r \in Runners, Ready(r) PROVE FrameKnowsTerminal'
  BY <1>7 DEF Ready, WriteStatus, MoveTo
<1>8. ASSUME NEW r \in Runners, Inflight(r) PROVE FrameKnowsTerminal'
  <2>1. \A q \in Runners : q = r
    OBVIOUS
  <2>2. CASE ValidTransition(call[r].st.state, "inflight")
    <3> DEFINE st == [call[r].st EXCEPT !.state = "inflight", !.attempt = @ + 1]
    <3>1. status' = st /\ call'[r].st = st /\ call'[r].at = "fn"
      BY <1>8, <2>2 DEF Inflight, WriteStatus
    <3>2. st.state = "inflight"
      OBVIOUS
    <3> HIDE DEF st
    <3> QED
      BY <2>1, <3>1, <3>2
  <2>3. CASE ~ValidTransition(call[r].st.state, "inflight")
    BY <1>8, <2>1, <2>3 DEF Inflight, MoveTo
  <2> QED
    BY <2>2, <2>3
<1>9. ASSUME NEW r \in Runners, NEW f \in {"retryable_failed", "terminal_failed"}, FnFails(r, f)
      PROVE  FrameKnowsTerminal'
  BY <1>9 DEF FnFails, WriteStatus
<1>10. ASSUME NEW r \in Runners, FnReturns(r) PROVE FrameKnowsTerminal'
  BY <1>10 DEF FnReturns, MoveTo
<1>11. ASSUME NEW r \in Runners, CommitOutput(r) PROVE FrameKnowsTerminal'
  BY <1>11 DEF CommitOutput, MoveTo
<1>12. ASSUME NEW r \in Runners, CommitStatus(r) PROVE FrameKnowsTerminal'
  BY <1>12 DEF CommitStatus, WriteStatus
<1>13. ASSUME NEW r \in Runners, RunnerDies(r) PROVE FrameKnowsTerminal'
  BY <1>13 DEF RunnerDies, NoCall
<1>14. ASSUME NEW p \in Reapers, PlanStale(p) \/ ReapRead(p) PROVE FrameKnowsTerminal'
  BY <1>14 DEF PlanStale, ReapRead
<1>15. ASSUME NEW p \in Reapers, ReapMark(p) PROVE FrameKnowsTerminal'
  <2>1. reap[p].st \in StatusFiles
    BY DEF ReapFrames
  <2>2. status'.state = "retryable_failed" /\ call' = call
    BY <1>15, <2>1 DEF ReapMark, WriteStatus
  <2> QED
    BY <2>2
<1>16. ASSUME Age PROVE FrameKnowsTerminal'
  BY <1>16 DEF Age
<1>17. ASSUME UNCHANGED DSVars PROVE FrameKnowsTerminal'
  BY <1>17 DEF DSVars
<1> QED
  BY <1>1, <1>2, <1>3, <1>4, <1>5, <1>6, <1>7, <1>8, <1>9, <1>10, <1>11, <1>12, <1>13, <1>14,
     <1>15, <1>16, <1>17
  DEF DSNext, RunStep, Reap

\* Type correctness of the step files and of every frame, for any runners and reapers.
THEOREM DSTypeCorrect == DSSpec => []DSTypeOK
<1>1. DSInit => DSTypeOK
  BY DSInitIInv DEF DSIInv, CommitInv
<1> QED
  BY <1>1, DSTypeStep, PTL DEF DSSpec

\* The invariant holds in every reachable state of a single runner.
THEOREM DSInvariance == ASSUME SingleRunner PROVE DSSpec => []DSIInv
<1>1. DSInit => DSIInv
  BY DSInitIInv
<1>2. DSIInv /\ [DSNext]_DSVars => DSIInv'
  BY DSInductiveStep, KnowledgeStep DEF DSIInv
<1> QED
  BY <1>1, <1>2, PTL DEF DSSpec

\* A committed step has its output on disk: crashes, retries and any number of reapers
\* racing the runner never separate the two files of commit_output.
THEOREM CommitsKeepTheirOutput == ASSUME SingleRunner PROVE DSSpec => []CommittedHasItsOutput
<1>1. DSIInv => CommittedHasItsOutput
  BY DEF DSIInv, CommitInv
<1> QED
  BY <1>1, DSInvariance, PTL

\* run_step returns the output computed from its own input, computed now or found on disk.
THEOREM CallsReturnTheirOutput == ASSUME SingleRunner PROVE DSSpec => []ReturnsOwnOutput
<1>1. DSIInv => ReturnsOwnOutput
  BY DEF DSIInv, CommitInv
<1> QED
  BY <1>1, DSInvariance, PTL

---------------------------------------------------------------------------
(* Who may undo a terminal status *)

\* A step that leaves a terminal status is a reset for another input or a reaper's mark.
LEMMA TerminalStep ==
  ASSUME SingleRunner, DSIInv, [DSNext]_DSVars,
         status.state \in TerminalStates, status'.state # status.state
  PROVE  ResetForNewInput \/ \E p \in Reapers : ReapMark(p)
<1> USE DEF FrameKnowsTerminal, TerminalStates, DSIInv
<1>1. CASE \E r \in Runners : RunStep(r)
  <2>1. PICK r \in Runners : RunStep(r)
    BY <1>1
  <2>2. CASE Reset(r)
    BY <2>2 DEF Reset, ResetForNewInput
  <2>3. ~WriteBack(r)
    BY DEF WriteBack, WriteStatus
  <2>4. ~Stamp(r)
    BY DEF Stamp, WriteStatus, CommitInv, DSTypeOK, StatusFiles
  <2>5. ~Ready(r)
    BY DEF Ready, WriteStatus
  <2>6. ~Inflight(r)
    BY DEF Inflight, WriteStatus, ValidTransition, CommitInv, DSTypeOK, StatusFiles
  <2>7. \A f \in {"retryable_failed", "terminal_failed"} : ~FnFails(r, f)
    BY DEF FnFails
  <2>8. ~CommitStatus(r)
    BY DEF CommitStatus
  <2> QED
    BY <2>1, <2>2, <2>3, <2>4, <2>5, <2>6, <2>7, <2>8
    DEF RunStep, Enter, ReadOutput, WriteInput, FnReturns, CommitOutput, RunnerDies
<1>2. CASE \E p \in Reapers : Reap(p)
  BY <1>2 DEF Reap, PlanStale, ReapRead
<1>3. ~Age /\ ~UNCHANGED DSVars
  BY DEF Age, DSVars
<1> QED
  BY <1>1, <1>2, <1>3 DEF DSNext

\* With one runner and any number of reapers, a committed step is replaced only by a call
\* with another input, a terminal failure by nothing, and either by a reaper's late mark.
THEOREM RunnersKeepTerminal == ASSUME SingleRunner PROVE DSSpec => OnlyReapersUndoTerminal
<1>1. DSIInv /\ [DSNext]_DSVars =>
        [status.state \in TerminalStates /\ status'.state # status.state
          => ResetForNewInput \/ \E p \in Reapers : ReapMark(p)]_DSVars
  BY TerminalStep
<1> QED
  BY <1>1, DSInvariance, PTL DEF DSSpec, OnlyReapersUndoTerminal

---------------------------------------------------------------------------
(* LivePersistence *)

USE LivePersistenceAssumption

Batches == [update : 0..MaxUpdates, frozen : BOOLEAN]

\* How many updates wait on a queue is a number, no larger than the queue.
LEMMA PendingIsBounded ==
  ASSUME LPTypeOK
  PROVE  Pending \in 0..Len(queue) /\ (Pending = Len(queue) \/ Pending = Len(queue) - 1)
  BY DEF LPTypeOK, Pending, HasStop

\* An accepted update is the last of the queue, before the stop item a close adds.
LEMMA NotifyExtendsTheQueue ==
  ASSUME LPTypeOK, QueueIsTheRest, StopFollowsClose,
         NEW p \in Phases, NEW f \in BOOLEAN, Notify(p, f)
  PROVE  Pending' = Pending + 1 /\ QueueIsTheRest' /\ (p # "final_synthesis" => ~HasStop')
<1> DEFINE item == [update |-> accepted + 1, frozen |-> f]
           q    == Append(queue, item)
<1>1. item \in Batches /\ item # StopItem /\ StopItem \in Batches
  BY DEF LPTypeOK, Notify, StopItem, Batches
<1>2. queue \in Seq(Batches) /\ ~HasStop /\ Pending = Len(queue)
  BY DEF LPTypeOK, Batches, StopFollowsClose, Notify, Pending
<1>3. q \in Seq(Batches) /\ Len(q) = Len(queue) + 1 /\ q[Len(q)] = item
      /\ \A i \in 1..Len(queue) : q[i] = queue[i]
  BY <1>1, <1>2
<1>4. /\ accepted' = accepted + 1 /\ accepted \in Nat /\ Len(queue) \in Nat /\ Len(q) <= accepted'
      /\ \A i \in 1..Len(q) : q[i].update = accepted' - Len(q) + i
  <2>1. \A i \in 1..Len(queue) : queue[i].update = accepted - Len(queue) + i /\ Len(queue) <= accepted
    BY <1>2 DEF QueueIsTheRest
  <2>2. accepted' = accepted + 1 /\ accepted \in Nat /\ Len(queue) \in Nat /\ Len(queue) <= accepted
    BY <1>2 DEF LPTypeOK, Notify, QueueIsTheRest
  <2>3. Len(q) = accepted' - accepted + Len(queue) /\ Len(q) <= accepted'
    BY <1>3, <2>2
  <2>4. ASSUME NEW i \in 1..Len(q) PROVE q[i].update = accepted' - Len(q) + i
    <3>1. CASE i = Len(q)
      BY <1>3, <2>2, <3>1
    <3>2. CASE i # Len(q)
      <4>1. i \in 1..Len(queue) /\ i \in Nat
        BY <1>3, <2>2, <3>2
      <4>2. q[i].update = accepted - Len(queue) + i
        BY <1>3, <2>1, <4>1
      <4> HIDE DEF q
      <4> QED
        BY <1>3, <2>2, <4>1, <4>2
    <3> QED
      BY <3>1, <3>2
  <2> QED
    BY <2>2, <2>3, <2>4
<1> HIDE DEF q, item
<1>5. CASE p = "final_synthesis"
  <2>1. queue' = Append(q, StopItem)
    BY <1>5 DEF Notify, q, item
  <2>2. Len(queue') = Len(q) + 1 /\ queue'[Len(queue')] = StopItem
        /\ \A i \in 1..Len(q) : queue'[i] = q[i]
    BY <1>1, <1>3, <2>1
  <2>3. Pending' = Len(q)
    BY <1>3, <2>1, <2>2 DEF Pending, HasStop
  <2> QED
    BY <1>2, <1>3, <1>5, <1>4, <2>2, <2>3 DEF QueueIsTheRest
<1>6. CASE p # "final_synthesis"
  <2>1. queue' = q
    BY <1>6 DEF Notify, q, item
  <2>2. ~HasStop' /\ Pending' = Len(q)
    BY <1>1, <1>3, <2>1 DEF Pending, HasStop
  <2> QED
    BY <1>2, <1>3, <1>4, <2>1, <2>2 DEF QueueIsTheRest
<1> QED
  BY <1>5, <1>6

\* The worker takes the stop item off a queue that holds nothing else, or the oldest update.
LEMMA TakeShortensTheQueue ==
  ASSUME LPTypeOK, QueueIsTheRest, StopFollowsClose, Take
  PROVE  /\ QueueIsTheRest' /\ (HasStop' => HasStop)
         /\ Head(queue) = StopItem => queue' = <<>> /\ Pending = 0 /\ Pending' = 0 /\ HasStop
         /\ Head(queue) # StopItem => /\ Pending > 0 /\ Pending' = Pending - 1
                                      /\ Head(queue) \in Batches
                                      /\ Head(queue).update = accepted - Pending + 1
<1>1. /\ queue # <<>> /\ Len(queue) \in Nat \ {0} /\ accepted \in Nat
      /\ Head(queue) = queue[1] /\ Head(queue) \in Batches
  <2>1. queue \in Seq(Batches) /\ queue # <<>> /\ accepted \in Nat
    BY DEF LPTypeOK, Batches, Take
  <2> QED
    BY <2>1
<1>2. /\ Len(queue') = Len(queue) - 1 /\ (queue' = <<>> <=> Len(queue) = 1)
      /\ \A i \in 1..(Len(queue) - 1) : queue'[i] = queue[i + 1]
  <2>1. queue \in Seq(Batches) /\ queue # <<>> /\ queue' = Tail(queue)
    BY DEF LPTypeOK, Batches, Take
  <2>2. queue' \in Seq(Batches) /\ Len(queue') = Len(queue) - 1
    BY <2>1
  <2>3. \A i \in 1..(Len(queue) - 1) : queue'[i] = queue[i + 1]
    BY <2>1
  <2>4. queue' = <<>> <=> Len(queue') = 0
    BY <2>2, EmptySeq
  <2> QED
    BY <1>1, <2>2, <2>3, <2>4
<1>3. accepted' = accepted
  BY DEF Take
<1>4. Pending \in 0..Len(queue) /\ (Pending = Len(queue) \/ Pending = Len(queue) - 1)
  BY PendingIsBounded
<1>5. Pending > 0 => Head(queue).update = accepted - Pending + 1 /\ Pending <= accepted
  BY <1>1, <1>4 DEF QueueIsTheRest
<1>6. CASE Head(queue) = StopItem
  <2>1. Pending = 0
    BY <1>1, <1>4, <1>5, <1>6 DEF StopItem
  <2>2. Len(queue) = 1 /\ HasStop
    BY <1>1, <1>4, <2>1 DEF Pending
  <2>3. queue' = <<>> /\ Len(queue') = 0
    BY <1>2, <2>2
  <2>4. ~HasStop' /\ Pending' = 0
    BY <2>3 DEF Pending, HasStop
  <2> QED
    BY <1>1, <1>3, <1>6, <2>1, <2>2, <2>3, <2>4 DEF QueueIsTheRest
<1>7. CASE Head(queue) # StopItem
  <2>1. Pending > 0
    <3>1. HasStop => Len(queue) # 1
      BY <1>1, <1>7 DEF HasStop
    <3>2. CASE HasStop
      <4>1. Pending = Len(queue) - 1
        BY <3>2 DEF Pending
      <4> QED
        BY <1>1, <3>1, <3>2, <4>1
    <3>3. CASE ~HasStop
      BY <1>1, <3>3 DEF Pending
    <3> QED
      BY <3>2, <3>3
  <2>2. (HasStop' <=> HasStop) /\ Pending' = Pending - 1
    <3>1. CASE Len(queue) = 1
      BY <1>1, <1>2, <1>7, <3>1 DEF HasStop, Pending
    <3>2. CASE Len(queue) # 1
      <4>1. queue'[Len(queue')] = queue[Len(queue)] /\ queue' # <<>>
        BY <1>1, <1>2, <3>2
      <4> QED
        BY <1>1, <1>2, <4>1 DEF HasStop, Pending
    <3> QED
      BY <3>1, <3>2
  <2>3. \A i \in 1..(Pending - 1) : queue'[i].update = accepted - Pending + (i + 1)
    <3> SUFFICES ASSUME NEW i \in 1..(Pending - 1)
                 PROVE  queue'[i].update = accepted - Pending + (i + 1)
      OBVIOUS
    <3>1. i \in 1..(Len(queue) - 1) /\ i + 1 \in 1..Pending
      BY <1>1, <1>4
    <3>2. queue'[i] = queue[i + 1] /\ queue[i + 1].update = accepted - Pending + (i + 1)
      BY <1>2, <3>1 DEF QueueIsTheRest
    <3> QED
      BY <3>2
  <2>4. QueueIsTheRest'
    <3>1. Pending' <= accepted'
      BY <1>1, <1>3, <1>4, <1>5, <2>1, <2>2
    <3>2. ASSUME NEW i \in 1..Pending' PROVE queue'[i].update = accepted' - Pending' + i
      <4>1. i \in 1..(Pending - 1) /\ i \in Nat
        BY <2>2, <3>2
      <4>2. queue'[i].update = accepted - Pending + (i + 1)
        BY <2>3, <4>1
      <4>3. accepted' - Pending' + i = accepted - Pending + (i + 1)
        BY <1>1, <1>3, <1>4, <2>2, <4>1
      <4> QED
        BY <4>2, <4>3
    <3> QED
      BY <3>1, <3>2 DEF QueueIsTheRest
  <2> QED
    BY <1>1, <1>5, <1>7, <2>1, <2>2, <2>4
<1> QED
  BY <1>6, <1>7

\* The same of the workers that earlier runs left behind.
LEMMA LeftUntouched ==
  ASSUME UNCHANGED <<session, left>>
  PROVE  (LeftOK' <=> LeftOK) /\ (UNCHANGED snapshot => (Overtaken' <=> Overtaken))
  BY DEF LeftOK, Overtaken

\* The invariant holds when the first session starts.
LEMMA LPInitIInv == LPInit => LPIInv
<1> SUFFICES ASSUME LPInit PROVE LPIInv
  OBVIOUS
<1>1. LPTypeOK
  <2>1. \A S : <<>> \in Seq(S)
    OBVIOUS
  <2>2. 0 \in 0..MaxUpdates /\ 1 \in 1..MaxSessions /\ 0 \in 0..MaxSessions
    OBVIOUS
  <2>3. LPInit => LeftOK
    <3>1. DOMAIN <<>> = {}
      OBVIOUS
    <3> QED
      BY <3>1 DEF LPInit, LeftOK
  <2> QED
    BY <2>1, <2>2, <2>3 DEF LPInit, LPTypeOK, NoBatch, StopItem
<1>2. ~HasStop /\ Pending = 0
  BY DEF LPInit, HasStop, Pending
<1> QED
  BY <1>1, <1>2 DEF LPInit, LPIInv, QueueIsTheRest, WorkerIsNext, StopFollowsClose, SnapshotIsCurrent,
                    PersistedInOrder, EventsFollowSnapshots, AtWork

\* A step that leaves the queue and the accepted updates alone leaves its description alone.
LEMMA QueueUntouched ==
  ASSUME QueueIsTheRest, UNCHANGED <<queue, accepted>>
  PROVE  QueueIsTheRest' /\ Pending' = Pending /\ (HasStop' <=> HasStop)
  BY DEF QueueIsTheRest, Pending, HasStop

\* Every step keeps the invariant.
LEMMA LPInductiveStep == LPIInv /\ [LPNext]_LPVars => LPIInv'
<1> SUFFICES ASSUME LPIInv, [LPNext]_LPVars PROVE LPIInv'
  OBVIOUS
<1>0. Pending \in 0..Len(queue) /\ Len(queue) \in Nat /\ Len(events) \in Nat /\ Len(journal) \in Nat
  BY PendingIsBounded DEF LPIInv, LPTypeOK
<1> USE DEF LPIInv
<1>1. ASSUME NEW p \in Phases, NEW f \in BOOLEAN, Notify(p, f) PROVE LPIInv'
  <2>1. Pending' = Pending + 1 /\ QueueIsTheRest' /\ (p # "final_synthesis" => ~HasStop')
    BY <1>1, NotifyExtendsTheQueue
  <2>2. LPTypeOK'
    <3>1. queue' \in Seq(Batches)
      <4>1. [update |-> accepted + 1, frozen |-> f] \in Batches /\ StopItem \in Batches /\ queue \in Seq(Batches)
        BY <1>1 DEF Notify, LPTypeOK, Batches, StopItem
      <4> QED
        BY <1>1, <4>1 DEF Notify
    <3> QED
      BY <1>1, <3>1, LeftUntouched DEF Notify, LPTypeOK, Waits, Batches, disk
  <2>3. WorkerIsNext'
    <3>1. /\ ~error /\ accepted' = accepted + 1 /\ accepted \in Nat
          /\ UNCHANGED <<stage, batch, error, events, journal>>
      BY <1>1 DEF Notify, LPTypeOK, disk
    <3>2. ~error' /\ (AtWork' <=> AtWork) /\ (stage' = "event" <=> stage = "event")
      BY <3>1 DEF AtWork
    <3>3. Len(events) + (IF AtWork THEN 1 ELSE 0) + Pending' = accepted'
      <4>1. Len(events) + (IF AtWork THEN 1 ELSE 0) + Pending = accepted /\ Pending \in Nat
        BY <1>0, <3>1 DEF WorkerIsNext
      <4>2. CASE AtWork
        BY <1>0, <2>1, <3>1, <4>1, <4>2
      <4>3. CASE ~AtWork
        BY <1>0, <2>1, <3>1, <4>1, <4>3
      <4> QED
        BY <4>2, <4>3
    <3> QED
      BY <3>1, <3>2, <3>3 DEF WorkerIsNext
  <2>4. StopFollowsClose' /\ SnapshotIsCurrent'
    BY <1>0, <1>1, <2>1, LeftUntouched, SMTT(40)
    DEF Notify, Waits, Phases, StopFollowsClose, SnapshotIsCurrent, LPTypeOK, disk
  <2>5. PersistedInOrder' /\ EventsFollowSnapshots'
    BY <1>0, <1>1, LeftUntouched DEF Notify, PersistedInOrder, EventsFollowSnapshots, LPTypeOK, disk
  <2> QED
    BY <2>1, <2>2, <2>3, <2>4, <2>5
<1>2. ASSUME NotifyRaises \/ FlushReturns \/ CloseReturns PROVE LPIInv'
  <2>1. UNCHANGED <<session, accepted, queue, stage, batch, error, disk, left>>
    BY <1>2 DEF NotifyRaises, FlushReturns, CloseReturns
  <2>2. LPTypeOK'
    BY <1>2, <2>1, LeftUntouched DEF NotifyRaises, FlushReturns, CloseReturns, LPTypeOK, disk
  <2>3. StopFollowsClose'
    BY <1>2, <2>1, QueueUntouched DEF NotifyRaises, FlushReturns, CloseReturns, Drained, StopFollowsClose, disk
  <2> QED
    BY <2>1, <2>2, <2>3, QueueUntouched, LeftUntouched
    DEF WorkerIsNext, AtWork, SnapshotIsCurrent, PersistedInOrder, EventsFollowSnapshots, disk
<1>3. ASSUME PersistResult PROVE LPIInv'
  <2>1. stage = "stopped" /\ ~error
    BY <1>3 DEF PersistResult, StopFollowsClose
  <2>2. Len(events) + Pending = accepted
    BY <1>0, <2>1 DEF WorkerIsNext, AtWork
  <2>3. \A i \in DOMAIN events : events[i].update = i /\ i <= accepted
    BY <1>0, <2>2 DEF PersistedInOrder, LPTypeOK
  <2>4. LPTypeOK'
    BY <1>3, LeftUntouched DEF PersistResult, LPTypeOK
  <2>5. EventsFollowSnapshots'
    BY <1>3, <2>3 DEF PersistResult, EventsFollowSnapshots
  <2>6. SnapshotIsCurrent'
    BY <1>3, <2>1, <2>4 DEF PersistResult, SnapshotIsCurrent, LPTypeOK
  <2>7. StopFollowsClose'
    BY <1>3, <2>1, QueueUntouched DEF PersistResult, StopFollowsClose
  <2> QED
    BY <1>3, <2>4, <2>5, <2>6, <2>7, QueueUntouched DEF PersistResult, WorkerIsNext, AtWork, PersistedInOrder
<1>4. ASSUME Take PROVE LPIInv'
  <2>1. /\ QueueIsTheRest' /\ (HasStop' => HasStop)
        /\ Head(queue) = StopItem => queue' = <<>> /\ Pending = 0 /\ Pending' = 0 /\ HasStop
        /\ Head(queue) # StopItem => /\ Pending > 0 /\ Pending' = Pending - 1
                                     /\ Head(queue) \in Batches
                                     /\ Head(queue).update = accepted - Pending + 1
    BY <1>4, TakeShortensTheQueue
  <2>2. /\ stage = "idle" /\ UNCHANGED <<session, caller, accepted, error, disk, left>>
        /\ IF Head(queue) = StopItem THEN stage' = "stopped" /\ UNCHANGED batch
           ELSE IF error THEN UNCHANGED <<stage, batch>>
           ELSE stage' = "sidecar" /\ batch' = Head(queue)
    BY <1>4 DEF Take
  <2>3. queue' \in Seq(Batches)
    <3>1. queue \in Seq(Batches) /\ queue # <<>> /\ queue' = Tail(queue)
      BY <1>4 DEF Take, LPTypeOK, Batches
    <3> QED
      BY <3>1
  <2>4. LPTypeOK'
    BY <2>1, <2>2, <2>3, LeftUntouched DEF LPTypeOK, disk, Batches
  <2>5. WorkerIsNext'
    <3>1. accepted' = accepted /\ accepted \in Nat /\ UNCHANGED <<error, events, journal>> /\ ~AtWork
      BY <2>2 DEF LPTypeOK, disk, AtWork
    <3>2. CASE error
      BY <1>0, <2>1, <2>2, <3>1, <3>2 DEF WorkerIsNext, AtWork
    <3>3. CASE ~error /\ Head(queue) = StopItem
      BY <1>0, <2>1, <2>2, <3>1, <3>3 DEF WorkerIsNext, AtWork
    <3>4. CASE ~error /\ Head(queue) # StopItem
      BY <1>0, <2>1, <2>2, <3>1, <3>4 DEF WorkerIsNext, AtWork
    <3> QED
      BY <3>2, <3>3, <3>4
  <2>6. StopFollowsClose'
    BY <2>1, <2>2 DEF StopFollowsClose, disk
  <2>7. SnapshotIsCurrent'
    BY <2>1, <2>2, LeftUntouched DEF SnapshotIsCurrent, disk
  <2>8. PersistedInOrder' /\ EventsFollowSnapshots'
    BY <2>2, LeftUntouched DEF PersistedInOrder, EventsFollowSnapshots, disk
  <2> QED
    BY <2>1, <2>4, <2>5, <2>6, <2>7, <2>8
<1>5. ASSUME WriteSidecar \/ WriteRoundFile PROVE LPIInv'
  <2>1. /\ UNCHANGED Worker /\ UNCHANGED disk
        /\ \/ stage = "sidecar" /\ stage' = "snapshot"
           \/ stage = "sidecar" /\ ~batch.frozen /\ stage' = "round_file"
           \/ stage = "round_file" /\ stage' = "journal"
    BY <1>5 DEF WriteSidecar, WriteRoundFile
  <2>2. LPTypeOK' /\ StopFollowsClose' /\ WorkerIsNext'
    BY <2>1, QueueUntouched, LeftUntouched
    DEF LPTypeOK, StopFollowsClose, WorkerIsNext, AtWork, Worker, disk
  <2> QED
    BY <2>1, <2>2, QueueUntouched, LeftUntouched
    DEF SnapshotIsCurrent, PersistedInOrder, EventsFollowSnapshots, Worker, disk
<1>6. ASSUME CommitSnapshot PROVE LPIInv'
  <2>1. /\ stage = "snapshot" /\ stage' = "round_file" /\ UNCHANGED Worker /\ UNCHANGED <<journal, events>>
        /\ snapshot' = [session |-> session, update |-> batch.update, result |-> FALSE]
    BY <1>6 DEF CommitSnapshot
  <2>2. ~error /\ batch.update = Len(events) + 1 /\ Len(events) + 1 + Pending = accepted
    BY <2>1 DEF WorkerIsNext, AtWork, LPTypeOK
  <2>3. LPTypeOK' /\ StopFollowsClose' /\ WorkerIsNext'
    BY <2>1, QueueUntouched, LeftUntouched DEF LPTypeOK, StopFollowsClose, WorkerIsNext, AtWork, Worker
  <2>4. SnapshotIsCurrent'
    BY <1>0, <2>1, <2>2 DEF SnapshotIsCurrent, LPTypeOK, Worker
  <2>5. PersistedInOrder'
    BY <2>1 DEF PersistedInOrder, Worker
  <2>6. EventsFollowSnapshots'
    <3>1. \A i \in DOMAIN events : events[i].update = i /\ i <= batch.update
      BY <1>0, <2>2 DEF PersistedInOrder, LPTypeOK
    <3> QED
      BY <2>1, <3>1 DEF EventsFollowSnapshots, Worker
  <2> QED
    BY <2>1, <2>3, <2>4, <2>5, <2>6, QueueUntouched DEF Worker
<1>7. ASSUME AppendJournal PROVE LPIInv'
  <2>1. /\ stage = "journal" /\ stage' = "event" /\ UNCHANGED Worker /\ UNCHANGED <<snapshot, events>>
        /\ journal' = Append(journal, batch.update)
    BY <1>7 DEF AppendJournal
  <2>2. /\ ~error /\ batch.update = Len(events) + 1 /\ Len(journal) = Len(events)
        /\ Len(events) + 1 + Pending = accepted
    BY <1>0, <2>1 DEF WorkerIsNext, AtWork, LPTypeOK
  <2>3. /\ journal' \in Seq(1..MaxUpdates) /\ Len(journal') = Len(journal) + 1
        /\ \A i \in DOMAIN journal' : journal'[i] = i
    <3>1. batch.update \in 1..MaxUpdates /\ journal \in Seq(1..MaxUpdates)
      BY <1>0, <2>2 DEF LPTypeOK
    <3>2. /\ journal' \in Seq(1..MaxUpdates) /\ Len(journal') = Len(journal) + 1
          /\ journal'[Len(journal) + 1] = batch.update
          /\ \A i \in 1..Len(journal) : journal'[i] = journal[i]
          /\ DOMAIN journal' = 1..(Len(journal) + 1) /\ DOMAIN journal = 1..Len(journal)
      BY <2>1, <3>1
    <3> QED
      BY <1>0, <2>2, <3>2 DEF PersistedInOrder
  <2>4. LPTypeOK' /\ StopFollowsClose'
    BY <2>1, <2>3, QueueUntouched, LeftUntouched DEF LPTypeOK, StopFollowsClose, Worker
  <2>5. WorkerIsNext'
    BY <1>0, <2>1, <2>2, <2>3, QueueUntouched DEF WorkerIsNext, AtWork, Worker, LPTypeOK
  <2>6. PersistedInOrder'
    BY <1>0, <2>1, <2>2, <2>3 DEF PersistedInOrder, Worker
  <2> QED
    BY <2>1, <2>4, <2>5, <2>6, QueueUntouched, LeftUntouched
    DEF SnapshotIsCurrent, EventsFollowSnapshots, Worker
<1>8. ASSUME AppendLiveEvent PROVE LPIInv'
  <2>1. /\ stage = "event" /\ stage' = "idle" /\ batch' = NoBatch /\ events' = Append(events, batch)
        /\ UNCHANGED <<session, caller, accepted, queue, error, snapshot, journal, left>>
    BY <1>8 DEF AppendLiveEvent
  <2>2. /\ ~error /\ batch.update = Len(events) + 1 /\ Len(journal) = Len(events) + 1
        /\ Len(events) + 1 + Pending = accepted
    BY <1>0, <2>1 DEF WorkerIsNext, AtWork, LPTypeOK
  <2>3. /\ events' \in Seq([update : 1..MaxUpdates, frozen : BOOLEAN]) /\ Len(events') = Len(events) + 1
        /\ events'[Len(events) + 1] = batch
        /\ \A i \in 1..Len(events) : events'[i] = events[i]
        /\ DOMAIN events' = 1..(Len(events) + 1) /\ DOMAIN events = 1..Len(events)
    <3>1. batch \in [update : 1..MaxUpdates, frozen : BOOLEAN]
      BY <1>0, <2>2 DEF LPTypeOK
    <3> QED
      BY <2>1, <3>1 DEF LPTypeOK
  <2>4. LPTypeOK' /\ StopFollowsClose'
    BY <2>1, <2>3, QueueUntouched, LeftUntouched DEF LPTypeOK, StopFollowsClose, NoBatch, StopItem
  <2>5. WorkerIsNext'
    BY <1>0, <2>1, <2>2, <2>3, QueueUntouched DEF WorkerIsNext, AtWork, LPTypeOK
  <2>6. SnapshotIsCurrent'
    BY <1>0, <2>1, <2>3, LeftUntouched DEF SnapshotIsCurrent, LPTypeOK
  <2>7. PersistedInOrder'
    BY <1>0, <2>1, <2>2, <2>3 DEF PersistedInOrder
  <2>8. EventsFollowSnapshots'
    <3>1. batch.frozen => Overtaken \/ (snapshot.session = session /\ snapshot.update = batch.update)
      BY <2>1 DEF SnapshotIsCurrent
    <3> QED
      BY <1>0, <2>1, <2>2, <2>3, <3>1, LeftUntouched, SMTT(40) DEF EventsFollowSnapshots, LPTypeOK
  <2> QED
    BY <2>1, <2>4, <2>5, <2>6, <2>7, <2>8, QueueUntouched
<1>9. ASSUME WriteFails PROVE LPIInv'
  <2>1. /\ AtWork /\ error' = TRUE /\ stage' = "idle" /\ batch' = NoBatch
        /\ UNCHANGED <<session, caller, accepted, queue, disk, left>>
    BY <1>9 DEF WriteFails, AtWork
  <2>2. LPTypeOK' /\ StopFollowsClose'
    BY <2>1, QueueUntouched, LeftUntouched DEF LPTypeOK, StopFollowsClose, NoBatch, StopItem, disk, AtWork
  <2>3. WorkerIsNext'
    BY <1>0, <2>1, QueueUntouched, SMTT(40) DEF WorkerIsNext, AtWork, LPTypeOK, disk
  <2> QED
    BY <2>1, <2>2, <2>3, QueueUntouched, LeftUntouched
    DEF SnapshotIsCurrent, PersistedInOrder, EventsFollowSnapshots, disk
<1>10. ASSUME Restart \/ ResumeInProcess PROVE LPIInv'
  <2>1. NewSession /\ (left' = <<>> \/ ResumeInProcess)
    BY <1>10 DEF Restart, ResumeInProcess
  <2>2. LPTypeOK'
    <3>1. \A S : <<>> \in Seq(S)
      OBVIOUS
    <3>2. /\ session' = session + 1 /\ session \in 1..MaxSessions /\ session' \in 1..MaxSessions
          /\ 0 \in 0..MaxUpdates
      BY <2>1 DEF NewSession, LPTypeOK
    <3>3. DOMAIN left' \subseteq 1..(session' - 1) /\ \A s \in DOMAIN left' : left'[s] \in Seq(Batches)
      <4>1. CASE left' = <<>>
        BY <4>1
      <4>2. CASE ResumeInProcess
        <5>1. Uncommitted \in Seq(Batches)
          <6>1. queue \in Seq(Batches) /\ <<batch>> \in Seq(Batches) /\ <<>> \in Seq(Batches)
            BY <3>1 DEF LPTypeOK, Batches
          <6> QED
            BY <6>1 DEF Uncommitted
        <5>2. DOMAIN left \subseteq 1..(session - 1) /\ \A s \in DOMAIN left : left[s] \in Seq(Batches)
          BY DEF LPTypeOK, LeftOK, Batches
        <5>3. left' = IF Uncommitted = <<>> THEN left
                      ELSE [s \in DOMAIN left \cup {session} |-> IF s = session THEN Uncommitted ELSE left[s]]
          BY <4>2 DEF ResumeInProcess
        <5>4. \A s \in 1..(session - 1) : s \in 1..(session' - 1)
          BY <3>2
        <5>5. session \in 1..(session' - 1)
          BY <3>2
        <5> QED
          BY <5>1, <5>2, <5>3, <5>4, <5>5
      <4> QED
        BY <2>1, <4>1, <4>2
    <3> QED
      BY <2>1, <3>1, <3>2, <3>3 DEF NewSession, LPTypeOK, LeftOK, NoBatch, StopItem, Batches
  <2>3. Pending' = 0 /\ ~HasStop'
    BY <2>1 DEF NewSession, Pending, HasStop
  <2>4. snapshot'.session < session'
    BY <2>1 DEF NewSession, SnapshotIsCurrent, LPTypeOK
  <2>5. /\ caller' = "run" /\ accepted' = 0 /\ queue' = <<>> /\ stage' = "idle" /\ error' = FALSE
        /\ journal' = <<>> /\ events' = <<>>
    BY <2>1 DEF NewSession
  <2>6. QueueIsTheRest' /\ WorkerIsNext' /\ StopFollowsClose'
    <3>1. Len(events') = 0 /\ Len(journal') = 0 /\ ~AtWork'
      BY <2>5 DEF AtWork
    <3>2. snapshot'.session # session'
      <4>1. snapshot'.session \in Nat /\ session' \in Nat
        BY <2>2 DEF LPTypeOK
      <4> QED
        BY <2>4, <4>1
    <3>3. QueueIsTheRest'
      BY <2>3, <2>5 DEF QueueIsTheRest
    <3>4. WorkerIsNext'
      BY <2>3, <2>5, <3>1 DEF WorkerIsNext
    <3>5. StopFollowsClose'
      BY <2>3, <2>5, <3>2 DEF StopFollowsClose
    <3> QED
      BY <3>3, <3>4, <3>5
  <2>7. SnapshotIsCurrent'
    <3>1. snapshot'.session \in Nat /\ session' \in Nat
      BY <2>2 DEF LPTypeOK
    <3> QED
      BY <2>4, <2>5, <3>1 DEF SnapshotIsCurrent
  <2>8. PersistedInOrder' /\ EventsFollowSnapshots'
    BY <2>5 DEF PersistedInOrder, EventsFollowSnapshots
  <2> QED
    BY <2>2, <2>6, <2>7, <2>8
<1>12. ASSUME NEW s \in DOMAIN left, EarlierWorkerWrites(s) PROVE LPIInv'
  <2> DEFINE item == Head(left[s])
  <2>1. /\ left[s] # <<>> /\ left' = [left EXCEPT ![s] = Tail(left[s])]
        /\ snapshot' = IF item.frozen THEN [session |-> s, update |-> item.update, result |-> FALSE]
                                      ELSE snapshot
        /\ UNCHANGED <<session, caller, accepted, queue, stage, batch, error, journal, events>>
    BY <1>12 DEF EarlierWorkerWrites
  <2>2. /\ s \in 1..(session - 1) /\ session \in 1..MaxSessions /\ s \in 1..MaxSessions
        /\ left[s] \in Seq(Batches) /\ DOMAIN left' = DOMAIN left
    <3>1. \A n \in 1..MaxSessions : \A k \in 1..(n - 1) : k \in 1..MaxSessions
      OBVIOUS
    <3> QED
      BY <2>1, <3>1 DEF LPTypeOK, LeftOK, Batches
  <2>3. item \in Batches /\ Tail(left[s]) \in Seq(Batches)
    BY <2>1, <2>2
  <2> HIDE DEF item
  <2>4. LPTypeOK'
    <3>1. snapshot' \in [session : 0..MaxSessions, update : 0..MaxUpdates, result : BOOLEAN]
      BY <2>1, <2>2, <2>3 DEF LPTypeOK, Batches
    <3>2. \A r \in DOMAIN left : left'[r] \in Seq(Batches)
      BY <2>1, <2>2, <2>3 DEF LPTypeOK, LeftOK, Batches
    <3> QED
      BY <2>1, <2>2, <3>1, <3>2 DEF LPTypeOK, LeftOK, Batches
  <2>5. snapshot' = snapshot \/ (snapshot'.session = s /\ s # session /\ s <= session /\ Overtaken')
    BY <2>1, <2>2 DEF Overtaken
  <2>6. Overtaken => Overtaken'
    BY <2>2, <2>5 DEF Overtaken
  <2>7. WorkerIsNext' /\ PersistedInOrder'
    BY <2>1, QueueUntouched DEF WorkerIsNext, AtWork, PersistedInOrder
  <2>8. StopFollowsClose'
    BY <2>1, <2>5, QueueUntouched DEF StopFollowsClose
  <2>9. SnapshotIsCurrent' /\ EventsFollowSnapshots'
    BY <2>1, <2>5, <2>6 DEF SnapshotIsCurrent, EventsFollowSnapshots
  <2> QED
    BY <2>1, <2>4, <2>7, <2>8, <2>9, QueueUntouched
<1>13. ASSUME NEW s \in DOMAIN left, EarlierWorkerFails(s) PROVE LPIInv'
  <2>1. /\ left' = [left EXCEPT ![s] = <<>>] /\ DOMAIN left' = DOMAIN left
        /\ UNCHANGED <<session, caller, accepted, queue, stage, batch, error, disk>>
    BY <1>13 DEF EarlierWorkerFails
  <2>2. LPTypeOK'
    <3>1. <<>> \in Seq(Batches)
      OBVIOUS
    <3> QED
      BY <2>1, <3>1 DEF LPTypeOK, LeftOK, Batches, disk
  <2>3. Overtaken' <=> Overtaken
    BY <2>1 DEF Overtaken, disk
  <2> QED
    BY <2>1, <2>2, <2>3, QueueUntouched
    DEF WorkerIsNext, AtWork, StopFollowsClose, SnapshotIsCurrent, PersistedInOrder,
        EventsFollowSnapshots, disk
<1>11. ASSUME UNCHANGED LPVars PROVE LPIInv'
  BY <1>11, QueueUntouched, LeftUntouched
  DEF LPVars, LPTypeOK, WorkerIsNext, AtWork, StopFollowsClose, SnapshotIsCurrent, PersistedInOrder,
      EventsFollowSnapshots
<1> QED
  BY <1>1, <1>2, <1>3, <1>4, <1>5, <1>6, <1>7, <1>8, <1>9, <1>10, <1>11, <1>12, <1>13
  DEF LPNext, ControllerStep, WorkerStep, EarlierWorkerStep

\* The invariant of the specification.
THEOREM LPInvariance == LPSpec => []LPIInv
  BY LPInitIInv, LPInductiveStep, PTL DEF LPSpec

\* The state keeps its types.
THEOREM LPTypeCorrect == LPSpec => []LPTypeOK
<1>1. LPIInv => LPTypeOK
  BY DEF LPIInv
<1> QED
  BY <1>1, LPInvariance, PTL

\* The journal and the events hold the updates in the order of their acceptance, without a
\* gap, also after a write that failed.
THEOREM DiskIsAPrefix == LPSpec => []PersistedInOrder
<1>1. LPIInv => PersistedInOrder
  BY DEF LPIInv
<1> QED
  BY <1>1, LPInvariance, PTL

\* The snapshot of an update is published before its event, and is replaced by a later one or
\* by what a worker that an earlier run of the process left behind commits.
THEOREM EventsAreBacked == LPSpec => []EventsFollowSnapshots
<1>1. LPIInv => EventsFollowSnapshots
  BY DEF LPIInv
<1> QED
  BY <1>1, LPInvariance, PTL

\* A flush or a close that returns without raising left every accepted update durable.
THEOREM WaitsMeanDurable == LPSpec => FlushMeansDurable
<1>1. LPIInv /\ [LPNext]_LPVars => ((FlushReturns \/ CloseReturns) /\ caller' # "raised" => Len(events) = accepted)
  <2> SUFFICES ASSUME LPIInv, FlushReturns \/ CloseReturns, caller' # "raised"
               PROVE  Len(events) = accepted
    OBVIOUS
  <2>1. queue = <<>> /\ ~AtWork /\ ~error
    BY DEF FlushReturns, CloseReturns, Drained, AtWork
  <2>2. Pending = 0
    BY <2>1 DEF Pending, HasStop
  <2> QED
    BY <2>1, <2>2 DEF LPIInv, WorkerIsNext, LPTypeOK
<1> QED
  BY <1>1, LPInvariance, PTL DEF LPSpec, FlushMeansDurable

\* A worker that was left behind publishes nothing, or a snapshot of its own session.
LEMMA EarlierWorkersOvertake ==
  ASSUME EarlierWorkerStep PROVE UNCHANGED snapshot \/ Overtaken'
<1>1. PICK s \in DOMAIN left : EarlierWorkerWrites(s) \/ EarlierWorkerFails(s)
  BY DEF EarlierWorkerStep
<1>2. DOMAIN left' = DOMAIN left
  BY <1>1 DEF EarlierWorkerWrites, EarlierWorkerFails
<1> QED
  BY <1>1, <1>2 DEF EarlierWorkerWrites, EarlierWorkerFails, Overtaken, disk

\* Nothing replaces the generation that carries the run result, within its session, but a
\* worker that an earlier run of the process left behind.
THEOREM ResultStaysLast == LPSpec => ResultIsLast
<1>1. LPIInv /\ [LPNext]_LPVars =>
        (snapshot.session = session /\ snapshot.result => UNCHANGED snapshot \/ Overtaken')
  <2> SUFFICES ASSUME LPIInv, [LPNext]_LPVars, snapshot.session = session, snapshot.result
               PROVE  UNCHANGED snapshot \/ Overtaken'
    OBVIOUS
  <2>1. caller = "done" /\ stage = "stopped"
    BY DEF LPIInv, StopFollowsClose
  <2>2. CASE EarlierWorkerStep
    BY <2>2, EarlierWorkersOvertake
  <2>3. CASE ~EarlierWorkerStep
    BY <2>1, <2>3 DEF LPNext, ControllerStep, WorkerStep, Notify, NotifyRaises, FlushReturns,
                CloseReturns, PersistResult, Take, WriteSidecar, CommitSnapshot, WriteRoundFile,
                AppendJournal, AppendLiveEvent, WriteFails, Restart, ResumeInProcess, NewSession,
                LPVars, disk
  <2> QED
    BY <2>2, <2>3
<1> QED
  BY <1>1, LPInvariance, PTL DEF LPSpec, ResultIsLast

\* No commit of a checkpoint, late or of a session that was resumed, takes the published
\* snapshot back, unless it comes from a worker that an earlier run of the process left behind.
THEOREM SnapshotOnlyAdvances == LPSpec => SnapshotIsMonotonic
<1> DEFINE Advances == \/ snapshot'.session > snapshot.session
                       \/ snapshot'.session = snapshot.session /\ snapshot'.update >= snapshot.update
                       \/ Overtaken'
<1>1. LPIInv /\ [LPNext]_LPVars => Advances \/ UNCHANGED LPVars
  <2> SUFFICES ASSUME LPIInv, LPNext PROVE Advances
    OBVIOUS
  <2>1. snapshot.session \in Nat /\ snapshot.update \in Nat /\ session \in Nat /\ accepted \in Nat
        /\ snapshot.session <= session
        /\ (snapshot.session = session => snapshot.update <= accepted)
        /\ (snapshot.session = session /\ ~snapshot.result => snapshot.update <= Len(events) + 1)
    BY DEF LPIInv, LPTypeOK, SnapshotIsCurrent
  <2>2. CASE UNCHANGED snapshot
    BY <2>1, <2>2
  <2>3. CASE CommitSnapshot
    <3>1. ~error /\ batch.update = Len(events) + 1 /\ caller # "done"
      BY <2>3 DEF CommitSnapshot, LPIInv, WorkerIsNext, StopFollowsClose, AtWork, LPTypeOK
    <3>2. snapshot.session = session => ~snapshot.result
      BY <3>1 DEF LPIInv, StopFollowsClose
    <3> QED
      BY <2>1, <2>3, <3>1, <3>2 DEF CommitSnapshot
  <2>4. CASE PersistResult
    BY <2>1, <2>4 DEF PersistResult
  <2>5. CASE EarlierWorkerStep
    BY <2>2, <2>5, EarlierWorkersOvertake
  <2> QED
    BY <2>2, <2>3, <2>4, <2>5 DEF LPNext, ControllerStep, WorkerStep, Notify, NotifyRaises,
       FlushReturns, CloseReturns, Take, WriteSidecar, WriteRoundFile, AppendJournal,
       AppendLiveEvent, WriteFails, Restart, ResumeInProcess, NewSession, disk
<1> QED
  BY <1>1, LPInvariance, PTL DEF LPSpec, SnapshotIsMonotonic
====================================================================================
