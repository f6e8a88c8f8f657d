--------------------------- MODULE JobServiceProofs ---------------------------
(***************************************************************************)
(* For any jobs, pool, queue and requests: a permit is taken for each task *)
(* queued or running and lost for each cancelled in the queue; a job that  *)
(* nobody works on is not shown as queued or running; and one engine at a  *)
(* time works in a job's directory, and has stopped when the status is     *)
(* terminal, unless two resume requests of the job were suspended at once. *)
(***************************************************************************)
EXTENDS JobService, FiniteSetTheorems, SequenceTheorems, TLAPS

USE JobServiceAssumption

Snapshots == Records \cup {Untracked}

---------------------------------------------------------------------------
(* Records and the registry *)

\* The capacity of the executor is a number.
LEMMA CapacityIsANumber == Capacity \in Nat
  BY FS_CardinalityType DEF Capacity

\* A status tells a tracked job from an untracked one, and is active or terminal.
LEMMA StatusTells ==
  /\ Untracked \notin Records /\ Untracked.status \notin Statuses
  /\ \A rec \in Records : rec.status \in Statuses /\ rec # Untracked
  /\ \A s \in TerminalStatuses : s \in Statuses /\ s \notin ActiveStatuses
  /\ \A s \in ActiveStatuses : s \in Statuses /\ s \notin TerminalStatuses
  /\ {"queued", "running", "resuming", "cancellation_requested"} \subseteq ActiveStatuses
  /\ {"failed", "cancelled", "rejected", "interrupted"} \cup Completions \subseteq TerminalStatuses
<1>1. Untracked.status \notin Statuses
  BY DEF Untracked, Statuses, TerminalStatuses, ActiveStatuses, Completions
<1>2. \A rec \in Records : rec.status \in Statuses
  BY DEF Records
<1>3. \A s \in ActiveStatuses : s \in Statuses /\ s \notin TerminalStatuses
  BY DEF Statuses, TerminalStatuses, ActiveStatuses, Completions
<1>4. \A s \in TerminalStatuses : s \in Statuses /\ s \notin ActiveStatuses
  BY DEF Statuses, TerminalStatuses, ActiveStatuses, Completions
<1> QED
  BY <1>1, <1>2, <1>3, <1>4 DEF ActiveStatuses, TerminalStatuses

\* An update with a status makes a tracked record of whatever it is merged into.
LEMMA MergeTracks ==
  ASSUME NEW rec \in Snapshots, NEW update, update.status \in Statuses,
         "cancel" \in DOMAIN update => update.cancel \in BOOLEAN,
         "rooted" \in DOMAIN update => update.rooted \in BOOLEAN
  PROVE  /\ Merge(rec, update) \in Records
         /\ Merge(rec, update).status = update.status
<1>1. rec.cancel \in BOOLEAN /\ rec.rooted \in BOOLEAN
  <2>1. CASE rec \in Records
    BY <2>1 DEF Records
  <2>2. CASE rec = Untracked
    BY <2>2 DEF Untracked
  <2> QED
    BY <2>1, <2>2 DEF Snapshots
<1> QED
  BY <1>1 DEF Merge, Records

\* Pruning forgets terminal jobs and changes no other.
LEMMA PruningForgetsTerminals ==
  ASSUME TypeOK, NEW reg \in Prunings
  PROVE  /\ reg \in [Jobs -> Snapshots]
         /\ \A k \in Jobs : \/ reg[k] = registry[k]
                            \/ registry[k].status \in TerminalStatuses /\ reg[k] = Untracked
<1>1. PICK gone \in SUBSET {j \in Jobs : Prunable(j)} :
        reg = [j \in Jobs |-> IF j \in gone THEN Untracked ELSE registry[j]]
  BY DEF Prunings
<1>2. \A j \in gone : registry[j].status \in TerminalStatuses
  BY DEF Prunable
<1> QED
  BY <1>1, <1>2 DEF TypeOK, Snapshots

\* What a _set_job, and a _get_job, leave of the registry.
Sets(j, s) ==
  /\ registry' \in [Jobs -> Snapshots]
  /\ registry'[j] \in Records /\ registry'[j].status = s
  /\ \A k \in Jobs \ {j} :
       \/ registry'[k] = registry[k]
       \/ registry[k].status \in TerminalStatuses /\ registry'[k] = Untracked

Gets(j) ==
  /\ registry' \in [Jobs -> Snapshots]
  /\ \A k \in Jobs :
       \/ registry'[k] = registry[k]
       \/ /\ registry[k].status \notin ActiveStatuses
          /\ \/ registry'[k] = Untracked
             \/ /\ k = j /\ file[j] # Untracked /\ registry'[j] \in Records
                /\ registry'[j].status \notin {"queued", "running"}

\* _set_job gives one job the status and prunes terminal ones.
LEMMA SetJobEffect ==
  ASSUME TypeOK, NEW j \in Jobs, NEW update, update.status \in Statuses,
         "cancel" \in DOMAIN update => update.cancel \in BOOLEAN,
         "rooted" \in DOMAIN update => update.rooted \in BOOLEAN,
         SetJob(j, update)
  PROVE  Sets(j, update.status)
<1>1. PICK reg \in Prunings : registry' = [reg EXCEPT ![j] = Merge(reg[j], update)]
  BY DEF SetJob
<1>2. /\ reg \in [Jobs -> Snapshots]
      /\ \A k \in Jobs : \/ reg[k] = registry[k]
                         \/ registry[k].status \in TerminalStatuses /\ reg[k] = Untracked
  BY PruningForgetsTerminals
<1>3. Merge(reg[j], update) \in Records /\ Merge(reg[j], update).status = update.status
  BY <1>2, MergeTracks
<1> QED
  BY <1>1, <1>2, <1>3 DEF Sets, Snapshots

\* A record read back from a status file is tracked and says neither queued nor running.
LEMMA RehydrationIsIdle ==
  ASSUME TypeOK, NEW j \in Jobs, file[j] # Untracked
  PROVE  /\ Rehydrated(j) \in Records
         /\ Rehydrated(j).status \notin {"queued", "running"}
<1>1. file[j] \in Records /\ result[j] \in Completions \cup {"none"}
  BY DEF TypeOK
<1>2. /\ file[j].status \in Statuses /\ file[j].cancel \in BOOLEAN
      /\ "interrupted" \in Statuses /\ "needs_continuation" \in Statuses
  BY <1>1 DEF Records, Statuses, TerminalStatuses, Completions
<1>3. CASE file[j].status \in {"queued", "running", "cancellation_requested"}
  BY <1>2, <1>3 DEF Rehydrated, StatusFromResult, Records
<1>4. CASE file[j].status \notin {"queued", "running", "cancellation_requested"}
  BY <1>2, <1>4 DEF Rehydrated, StatusFromResult, Records
<1> QED
  BY <1>3, <1>4

\* _get_job leaves active jobs alone, prunes terminal ones, and may read back the one asked for.
LEMMA GetJobEffect ==
  ASSUME TypeOK, NEW j \in Jobs, GetJob(j)
  PROVE  Gets(j)
<1>1. PICK reg \in Prunings :
        registry' = IF reg[j] = Untracked /\ file[j] # Untracked
                    THEN [reg EXCEPT ![j] = Rehydrated(j)] ELSE reg
  BY DEF GetJob
<1>2. /\ reg \in [Jobs -> Snapshots]
      /\ \A k \in Jobs : \/ reg[k] = registry[k]
                         \/ registry[k].status \in TerminalStatuses /\ reg[k] = Untracked
  BY PruningForgetsTerminals
<1>3. \A k \in Jobs : reg[k] = Untracked => registry[k].status \notin ActiveStatuses
  BY <1>2, StatusTells
<1>4. CASE reg[j] = Untracked /\ file[j] # Untracked
  <2>1. Rehydrated(j) \in Records /\ Rehydrated(j).status \notin {"queued", "running"}
    BY <1>4, RehydrationIsIdle
  <2>2. registry' = [reg EXCEPT ![j] = Rehydrated(j)]
    BY <1>1, <1>4
  <2>3. registry' \in [Jobs -> Snapshots]
    BY <1>2, <2>1, <2>2 DEF Snapshots
  <2>4. \A k \in Jobs \ {j} : registry'[k] = reg[k]
    BY <1>2, <2>2
  <2>5. registry'[j] = Rehydrated(j)
    BY <1>2, <2>2
  <2> QED
    BY <1>2, <1>3, <1>4, <2>1, <2>3, <2>4, <2>5 DEF Gets
<1>5. CASE ~(reg[j] = Untracked /\ file[j] # Untracked)
  BY <1>1, <1>2, <1>3, <1>5 DEF Gets
<1> QED
  BY <1>4, <1>5

---------------------------------------------------------------------------
(* The queue and the pool *)

\* Taking an item out of a queue moves up what is behind it.
LEMMA RemoveAtEffect ==
  ASSUME NEW S, NEW s \in Seq(S), NEW n \in 1 .. Len(s)
  PROVE  /\ RemoveAt(s, n) \in Seq(S) /\ Len(RemoveAt(s, n)) = Len(s) - 1
         /\ \A i \in 1 .. Len(s) - 1 : RemoveAt(s, n)[i] = IF i < n THEN s[i] ELSE s[i + 1]
<1> DEFINE head == SubSeq(s, 1, n - 1)
           tail == SubSeq(s, n + 1, Len(s))
<1>1. Len(s) \in Nat /\ n \in Nat /\ 1 <= n /\ n <= Len(s) /\ \A i \in 1 .. Len(s) : s[i] \in S
  BY LenProperties
<1>2. /\ head \in Seq(S) /\ Len(head) = n - 1
      /\ \A i \in 1 .. n - 1 : head[i] = s[i]
  <2>1. \A i \in 1 .. n - 1 : s[i] \in S
    BY <1>1
  <2> QED
    BY <1>1, <2>1
<1>3. /\ tail \in Seq(S) /\ Len(tail) = Len(s) - n
      /\ \A i \in 1 .. Len(s) - n : tail[i] = s[n + i]
  <2>1. \A i \in n + 1 .. Len(s) : s[i] \in S
    BY <1>1
  <2> QED
    BY <1>1, <2>1
<1>4. RemoveAt(s, n) = head \o tail
  BY DEF RemoveAt
<1> HIDE DEF head, tail
<1>5. /\ head \o tail \in Seq(S) /\ Len(head \o tail) = Len(head) + Len(tail)
      /\ \A i \in 1 .. Len(head) + Len(tail) :
           (head \o tail)[i] = IF i <= Len(head) THEN head[i] ELSE tail[i - Len(head)]
  BY <1>2, <1>3, ConcatProperties
<1>6. Len(head) + Len(tail) = Len(s) - 1
  BY <1>1, <1>2, <1>3
<1>7. ASSUME NEW i \in 1 .. Len(s) - 1
      PROVE  (head \o tail)[i] = IF i < n THEN s[i] ELSE s[i + 1]
  <2>1. i \in 1 .. Len(head) + Len(tail) /\ i \in Nat
    BY <1>1, <1>6
  <2>2. CASE i < n
    <3>1. i <= Len(head) /\ i \in 1 .. n - 1
      BY <1>1, <1>2, <2>1, <2>2
    <3> QED
      BY <1>2, <1>5, <2>1, <2>2, <3>1
  <2>3. CASE ~(i < n)
    <3>1. ~(i <= Len(head)) /\ i - Len(head) \in 1 .. Len(s) - n /\ n + (i - Len(head)) = i + 1
      BY <1>1, <1>2, <2>1, <2>3
    <3>2. (head \o tail)[i] = tail[i - Len(head)]
      BY <1>5, <2>1, <3>1
    <3> QED
      BY <1>3, <2>3, <3>1, <3>2
  <2> QED
    BY <2>2, <2>3
<1> QED
  BY <1>4, <1>5, <1>6, <1>7

\* How many threads are busy.
Busy == Cardinality({w \in Workers : Running(w)})

\* A step of one thread changes the number of busy threads by that thread at most.
LEMMA OneThreadMoves ==
  ASSUME NEW w \in Workers, \A v \in Workers \ {w} : worker'[v] = worker[v]
  PROVE  /\ Busy \in Nat /\ Busy' \in Nat
         /\ (Running(w) <=> Running(w)') => Busy' = Busy
         /\ ~Running(w) /\ Running(w)' => Busy' = Busy + 1
         /\ Running(w) /\ ~Running(w)' => Busy' = Busy - 1
<1> DEFINE B == {v \in Workers : Running(v)}
           C == {v \in Workers : Running(v)'}
<1>1. \A v \in Workers \ {w} : Running(v) <=> Running(v)'
  BY DEF Running
<1>2. IsFiniteSet(B) /\ IsFiniteSet(C)
  <2>1. B \in SUBSET Workers /\ C \in SUBSET Workers
    OBVIOUS
  <2> QED
    BY <2>1, FS_Subset
<1>3. Busy = Cardinality(B) /\ Busy' = Cardinality(C)
  BY DEF Busy
<1>4. Cardinality(B) \in Nat /\ Cardinality(C) \in Nat
  BY <1>2, FS_CardinalityType
<1>5. (Running(w) <=> Running(w)') => C = B
  BY <1>1
<1>6. ~Running(w) /\ Running(w)' => C = B \cup {w} /\ w \notin B
  BY <1>1
<1>7. Running(w) /\ ~Running(w)' => C = B \ {w} /\ w \in B
  BY <1>1
<1> HIDE DEF B, C
<1>8. w \notin B => Cardinality(B \cup {w}) = Cardinality(B) + 1
  BY <1>2, FS_AddElement
<1>9. w \in B => Cardinality(B \ {w}) = Cardinality(B) - 1
  BY <1>2, FS_RemoveElement
<1> QED
  BY <1>3, <1>4, <1>5, <1>6, <1>7, <1>8, <1>9

---------------------------------------------------------------------------
(* The semaphore *)

\* The semaphore.
LEMMA LoadStep ==
  ASSUME IInv, [Next]_vars
  PROVE  /\ queue' \in Seq(Tasks) /\ permits' \in 0..Capacity /\ PermitsMatchLoad' /\ leaked' \in Nat
<1> DEFINE Covered(load) == load = Capacity
<1>0. /\ permits \in Nat /\ queue \in Seq(Tasks) /\ Len(queue) \in Nat /\ Capacity \in Nat
      /\ Covered(permits + Len(queue) + Busy + leaked) /\ leaked \in Nat
  BY CapacityIsANumber DEF IInv, TypeOK, PermitsMatchLoad, Busy
<1> SUFFICES /\ queue' \in Seq(Tasks) /\ permits' \in Nat /\ Busy' \in Nat
             /\ Covered(permits' + Len(queue') + Busy' + leaked') /\ leaked' \in Nat
  <2>1. permits' <= permits' + Len(queue') + Busy' + leaked' /\ Len(queue') \in Nat
    BY LenProperties
  <2> QED
    BY <1>0, <2>1 DEF PermitsMatchLoad, Busy
<1>1. ASSUME UNCHANGED <<permits, queue, leaked>>, NEW w \in Workers, Running(w) <=> Running(w)',
             \A v \in Workers \ {w} : worker'[v] = worker[v]
      PROVE  /\ queue' \in Seq(Tasks) /\ permits' \in Nat /\ Busy' \in Nat
             /\ Covered(permits' + Len(queue') + Busy' + leaked') /\ leaked' \in Nat
  <2>1. Busy' = Busy /\ Busy' \in Nat
    BY <1>1, OneThreadMoves
  <2> QED
    BY <1>0, <1>1, <2>1
<1>2. ASSUME UNCHANGED <<permits, queue, worker, leaked>>
      PROVE  /\ queue' \in Seq(Tasks) /\ permits' \in Nat /\ Busy' \in Nat
             /\ Covered(permits' + Len(queue') + Busy' + leaked') /\ leaked' \in Nat
  <2>1. Busy' = Busy /\ Busy \in Nat
    <3>1. PICK w \in Workers : TRUE
      OBVIOUS
    <3> QED
      BY <1>2, OneThreadMoves DEF Running
  <2> QED
    BY <1>0, <1>2, <2>1
<1> HIDE DEF Covered
<1>3. CASE PersistQueued \/ PersistLast \/ Reject
  BY <1>2, <1>3 DEF PersistQueued, PersistLast, Reject
<1>4. CASE CancelSet
  BY <1>2, <1>4 DEF CancelSet
<1>5. CASE Submit
  <2>1. Submit /\ loop \in LoopFrames /\ loop.job \in Jobs
    BY <1>5 DEF IInv, TypeOK, Frames, Submit
  <2>2. [job |-> loop.job, kind |-> loop.kind] \in Tasks
    BY <2>1 DEF Tasks, LoopFrames
  <2>3. queue' \in Seq(Tasks) /\ Len(queue') = Len(queue) + 1
    BY <1>0, <2>1, <2>2, AppendProperties DEF Submit
  <2>4. permits > 0 /\ permits' = permits - 1 /\ worker' = worker /\ leaked' = leaked
    BY <2>1 DEF Submit
  <2>5. Busy' = Busy /\ Busy \in Nat
    <3>1. PICK w \in Workers : TRUE
      OBVIOUS
    <3> QED
      BY <2>4, OneThreadMoves DEF Running
  <2>6. permits' \in Nat /\ permits' + Len(queue') + Busy' + leaked' = permits + Len(queue) + Busy + leaked
    BY <1>0, <2>3, <2>4, <2>5
  <2> QED
    BY <1>0, <2>3, <2>4, <2>5, <2>6
<1>6. CASE CancelFuture
  <2>1. permits' = permits /\ worker' = worker
    BY <1>6 DEF CancelFuture
  <2>2. Busy' = Busy /\ Busy \in Nat
    <3>1. PICK w \in Workers : TRUE
      OBVIOUS
    <3> QED
      BY <2>1, OneThreadMoves DEF Running
  <2>3. CASE UNCHANGED <<queue, leaked>>
    BY <1>0, <2>1, <2>2, <2>3
  <2>4. ASSUME NEW n \in LastQueued(loop.job), queue' = RemoveAt(queue, n), leaked' = leaked + 1
        PROVE  /\ queue' \in Seq(Tasks) /\ leaked' \in Nat
               /\ Len(queue') + leaked' = Len(queue) + leaked
    <3>1. n \in 1 .. Len(queue)
      BY <1>0, LenProperties DEF LastQueued
    <3>2. queue' \in Seq(Tasks) /\ Len(queue') = Len(queue) - 1
      BY <1>0, <2>4, <3>1, RemoveAtEffect
    <3> QED
      BY <1>0, <2>4, <3>2
  <2>5. CASE \E n \in LastQueued(loop.job) : queue' = RemoveAt(queue, n) /\ leaked' = leaked + 1
    <3>1. /\ queue' \in Seq(Tasks) /\ leaked' \in Nat
          /\ Len(queue') + leaked' = Len(queue) + leaked /\ Len(queue') \in Nat
      BY <2>4, <2>5, LenProperties
    <3>2. permits' + Len(queue') + Busy' + leaked' = permits + Len(queue) + Busy + leaked
      BY <1>0, <2>1, <2>2, <3>1
    <3> QED
      BY <1>0, <2>1, <2>2, <3>1, <3>2
  <2> QED
    BY <1>6, <2>3, <2>5 DEF CancelFuture
<1>7. CASE \E j \in Jobs : CreateJob(j) \/ ResumeBody(j) \/ ResumeCheck(j) \/ PollJob(j)
  BY <1>2, <1>7 DEF CreateJob, ResumeBody, ResumeCheck, PollJob
<1>8. CASE \E j \in Jobs : CancelCheck(j)
  BY <1>2, <1>8 DEF CancelCheck
<1>9. ASSUME NEW w \in Workers, TakeTask(w) PROVE
             /\ queue' \in Seq(Tasks) /\ permits' \in Nat /\ Busy' \in Nat
             /\ Covered(permits' + Len(queue') + Busy' + leaked') /\ leaked' \in Nat
  <2>1. queue' \in Seq(Tasks) /\ Len(queue') = Len(queue) - 1
    BY <1>0, <1>9, HeadTailProperties DEF TakeTask
  <2>2. ~Running(w) /\ Running(w)' /\ \A v \in Workers \ {w} : worker'[v] = worker[v]
    BY <1>9 DEF TakeTask, Running, IInv, Frames
  <2>3. Busy' = Busy + 1 /\ Busy \in Nat /\ Busy' \in Nat
    BY <2>2, OneThreadMoves
  <2>4. permits' = permits /\ leaked' = leaked
    BY <1>9 DEF TakeTask
  <2>5. permits' + Len(queue') + Busy' + leaked' = permits + Len(queue) + Busy + leaked
    BY <1>0, <2>1, <2>3, <2>4
  <2> QED
    BY <1>0, <2>1, <2>3, <2>4, <2>5
<1>10. ASSUME NEW w \in Workers, Release(w) PROVE
             /\ queue' \in Seq(Tasks) /\ permits' \in Nat /\ Busy' \in Nat
             /\ Covered(permits' + Len(queue') + Busy' + leaked') /\ leaked' \in Nat
  <2>1. Running(w) /\ ~Running(w)' /\ \A v \in Workers \ {w} : worker'[v] = worker[v]
    BY <1>10 DEF Release, Running, IdleWorker, IInv, Frames
  <2>2. Busy' = Busy - 1 /\ Busy \in Nat /\ Busy' \in Nat
    BY <2>1, OneThreadMoves
  <2>3. permits' = permits + 1 /\ leaked' = leaked /\ queue' = queue
    BY <1>10 DEF Release
  <2>4. permits' + Len(queue') + Busy' + leaked' = permits + Len(queue) + Busy + leaked
    BY <1>0, <2>2, <2>3
  <2> QED
    BY <1>0, <2>2, <2>3, <2>4
<1>11. ASSUME NEW w \in Workers,
              \/ Start(w) \/ PersistStart(w) \/ ReadFlag(w) \/ Finish(w) \/ PersistFinal(w)
              \/ \E c \in Outcomes : EngineReturns(w, c)
              \/ EngineInterrupted(w) \/ EngineFails(w)
       PROVE /\ queue' \in Seq(Tasks) /\ permits' \in Nat /\ Busy' \in Nat
             /\ Covered(permits' + Len(queue') + Busy' + leaked') /\ leaked' \in Nat
  <2>1. UNCHANGED <<permits, queue, leaked>>
    BY <1>11 DEF Start, PersistStart, ReadFlag, Finish, PersistFinal, EngineReturns,
                 EngineInterrupted, EngineFails
  <2>2. worker \in [Workers -> WorkerFrames]
    BY DEF IInv, Frames
  <2>3. \A v \in Workers \ {w} : worker'[v] = worker[v]
    BY <1>11, <2>2 DEF Start, PersistStart, ReadFlag, Finish, PersistFinal, EngineReturns,
                 EngineInterrupted, EngineFails
  <2>4. Running(w) /\ Running(w)'
    <3>1. CASE Start(w)
      BY <2>2, <3>1 DEF Running, WorkerFrames, Start
    <3>2. CASE PersistStart(w)
      BY <2>2, <3>2 DEF Running, WorkerFrames, PersistStart
    <3>3. CASE ReadFlag(w)
      BY <2>2, <3>3 DEF Running, WorkerFrames, ReadFlag
    <3>4. CASE Finish(w)
      BY <2>2, <3>4 DEF Running, WorkerFrames, Finish
    <3>5. CASE PersistFinal(w)
      BY <2>2, <3>5 DEF Running, WorkerFrames, PersistFinal
    <3>6. CASE \E c \in Outcomes : EngineReturns(w, c)
      BY <2>2, <3>6 DEF Running, WorkerFrames, EngineReturns
    <3>7. CASE EngineInterrupted(w) \/ EngineFails(w)
      BY <2>2, <3>7 DEF Running, WorkerFrames, EngineInterrupted, EngineFails
    <3> QED
      BY <1>11, <3>1, <3>2, <3>3, <3>4, <3>5, <3>6, <3>7
  <2> QED
    BY <1>1, <2>1, <2>3, <2>4
<1>12. CASE \E w \in Workers : EngineCheckpoints(w)
  BY <1>0, <1>2, <1>12 DEF EngineCheckpoints
<1>13. CASE Restart
  <2>1. /\ queue' = <<>> /\ permits' = Capacity /\ leaked' = 0
        /\ \A w \in Workers : ~Running(w)'
    BY <1>13 DEF Restart, IdleLoop, IdleWorker, Running
  <2>2. Busy' = 0
    BY <2>1, FS_EmptySet DEF Busy
  <2>3. queue' \in Seq(Tasks) /\ Len(queue') = 0
    BY <2>1, EmptySeq
  <2> QED
    BY <1>0, <2>1, <2>2, <2>3 DEF Covered
<1>14. CASE UNCHANGED vars
  BY <1>0, <1>2, <1>14 DEF vars
<1> QED
  BY <1>3, <1>4, <1>5, <1>6, <1>7, <1>8, <1>9, <1>10, <1>11, <1>12, <1>13, <1>14
     DEF Next, Handler, Request, WorkerStep, EngineEnds

---------------------------------------------------------------------------
(* What each action does to the registry and to the status file *)

\* The actions that set a status.
LEMMA StatusesSet ==
  ASSUME IInv
  PROVE  /\ \A j \in Jobs : CreateJob(j) => Sets(j, "queued")
         /\ \A j \in Jobs : ResumeBody(j) => UNCHANGED registry \/ Sets(j, "queued")
         /\ Reject => Sets(loop.job, "rejected")
         /\ CancelSet => Sets(loop.job, "cancellation_requested")
         /\ \A w \in Workers :
              Start(w) => \E s \in {"running", "resuming"} : Sets(worker[w].job, s)
         /\ \A w \in Workers :
              Finish(w) => \E s \in TerminalStatuses : Sets(worker[w].job, s)
<1>0. TypeOK /\ loop \in LoopFrames /\ worker \in [Workers -> WorkerFrames]
  BY DEF IInv, Frames
<1>1. ASSUME NEW j \in Jobs, NEW s \in Statuses, NEW c \in BOOLEAN,
             SetJob(j, [status |-> s, cancel |-> c])
      PROVE  Sets(j, s)
  <2> DEFINE update == [status |-> s, cancel |-> c]
  <2>1. update.status = s /\ update.cancel \in BOOLEAN /\ "rooted" \notin DOMAIN update
    OBVIOUS
  <2> HIDE DEF update
  <2>2. SetJob(j, update)
    BY <1>1 DEF update
  <2> QED
    BY <1>0, <2>1, <2>2, SetJobEffect
<1>2. ASSUME NEW j \in Jobs, NEW s \in Statuses, SetJob(j, [status |-> s])
      PROVE  Sets(j, s)
  <2> DEFINE update == [status |-> s]
  <2>1. update.status = s /\ "cancel" \notin DOMAIN update /\ "rooted" \notin DOMAIN update
    OBVIOUS
  <2> HIDE DEF update
  <2>2. SetJob(j, update)
    BY <1>2 DEF update
  <2> QED
    BY <1>0, <2>1, <2>2, SetJobEffect
<1>3. ASSUME NEW j \in Jobs, NEW s \in Statuses, SetJob(j, [status |-> s, rooted |-> TRUE])
      PROVE  Sets(j, s)
  <2> DEFINE update == [status |-> s, rooted |-> TRUE]
  <2>1. update.status = s /\ update.rooted \in BOOLEAN /\ "cancel" \notin DOMAIN update
    OBVIOUS
  <2> HIDE DEF update
  <2>2. SetJob(j, update)
    BY <1>3 DEF update
  <2> QED
    BY <1>0, <2>1, <2>2, SetJobEffect
<1>4. ASSUME NEW j \in Jobs, NEW s \in Statuses,
             SetJob(j, [status |-> s, cancel |-> FALSE, rooted |-> TRUE])
      PROVE  Sets(j, s)
  <2> DEFINE update == [status |-> s, cancel |-> FALSE, rooted |-> TRUE]
  <2>1. update.status = s /\ update.cancel \in BOOLEAN /\ update.rooted \in BOOLEAN
    OBVIOUS
  <2> HIDE DEF update
  <2>2. SetJob(j, update)
    BY <1>4 DEF update
  <2> QED
    BY <1>0, <2>1, <2>2, SetJobEffect
<1>5. /\ {"queued", "running", "resuming", "cancellation_requested", "rejected"} \subseteq Statuses
      /\ TerminalStatuses \subseteq Statuses
  BY StatusTells DEF Statuses
<1> HIDE DEF SetJob
<1>6. ASSUME NEW j \in Jobs, CreateJob(j) PROVE Sets(j, "queued")
  BY <1>4, <1>5, <1>6 DEF CreateJob
<1>7. ASSUME NEW j \in Jobs, ResumeBody(j) PROVE UNCHANGED registry \/ Sets(j, "queued")
  BY <1>1, <1>5, <1>7 DEF ResumeBody
<1>8. ASSUME Reject PROVE Sets(loop.job, "rejected")
  <2>1. loop.job \in Jobs
    BY <1>8 DEF Reject, IInv, TypeOK
  <2> QED
    BY <1>1, <1>5, <1>8, <2>1 DEF Reject
<1>9. ASSUME CancelSet PROVE Sets(loop.job, "cancellation_requested")
  <2>1. loop.job \in Jobs
    BY <1>9 DEF CancelSet, IInv, TypeOK
  <2> QED
    BY <1>1, <1>5, <1>9, <2>1 DEF CancelSet
<1>10. ASSUME NEW w \in Workers, Start(w)
       PROVE  \E s \in {"running", "resuming"} : Sets(worker[w].job, s)
  <2> DEFINE s == IF worker[w].kind = "run" THEN "running" ELSE "resuming"
  <2>1. worker[w].job \in Jobs /\ s \in {"running", "resuming"} /\ s \in Statuses
    BY <1>5, <1>10 DEF Start, IInv, TypeOK
  <2>2. SetJob(worker[w].job, [status |-> s])
    BY <1>10 DEF Start
  <2> QED
    BY <1>2, <2>1, <2>2
<1>11. ASSUME NEW w \in Workers, Finish(w)
       PROVE  \E s \in TerminalStatuses : Sets(worker[w].job, s)
  <2> DEFINE j == worker[w].job
             final == worker[w].final
  <2>1. j \in Jobs /\ final.status \in TerminalStatuses /\ final.status \in Statuses
    BY <1>5, <1>11 DEF Finish, IInv, TypeOK, Frames
  <2>2. SetJob(j, IF final.cancel THEN [status |-> final.status, cancel |-> TRUE]
                  ELSE IF worker[w].kind = "resume" /\ final.status # "failed"
                       THEN [status |-> final.status, rooted |-> TRUE]
                       ELSE [status |-> final.status])
    BY <1>11 DEF Finish
  <2>3. CASE final.cancel
    <3>1. SetJob(j, [status |-> final.status, cancel |-> TRUE])
      BY <2>2, <2>3
    <3> QED
      BY <1>1, <2>1, <3>1
  <2>4. CASE ~final.cancel /\ worker[w].kind = "resume" /\ final.status # "failed"
    <3>1. SetJob(j, [status |-> final.status, rooted |-> TRUE])
      BY <2>2, <2>4
    <3> QED
      BY <1>3, <2>1, <3>1
  <2>5. CASE ~final.cancel /\ ~(worker[w].kind = "resume" /\ final.status # "failed")
    <3>1. SetJob(j, [status |-> final.status])
      BY <2>2, <2>5
    <3> QED
      BY <1>2, <2>1, <3>1
  <2> QED
    BY <2>3, <2>4, <2>5
<1> QED
  BY <1>6, <1>7, <1>8, <1>9, <1>10, <1>11

\* The actions that read a job.
LEMMA StatusesRead ==
  ASSUME IInv
  PROVE  /\ Submit => loop.job \in Jobs /\ Gets(loop.job)
         /\ \A j \in Jobs : ResumeCheck(j) \/ CancelCheck(j) \/ PollJob(j) => Gets(j)
         /\ \A w \in Workers : ReadFlag(w) => worker[w].job \in Jobs /\ Gets(worker[w].job)
<1>0. TypeOK
  BY DEF IInv
<1>1. ASSUME NEW j \in Jobs, GetJob(j) PROVE Gets(j)
  BY <1>0, <1>1, GetJobEffect
<1>2. ASSUME Submit PROVE loop.job \in Jobs /\ Gets(loop.job)
  BY <1>0, <1>1, <1>2 DEF Submit, TypeOK
<1>3. ASSUME NEW j \in Jobs, ResumeCheck(j) \/ CancelCheck(j) \/ PollJob(j) PROVE Gets(j)
  BY <1>1, <1>3 DEF ResumeCheck, CancelCheck, PollJob
<1>4. ASSUME NEW w \in Workers, ReadFlag(w) PROVE worker[w].job \in Jobs /\ Gets(worker[w].job)
  BY <1>0, <1>1, <1>4 DEF ReadFlag, TypeOK
<1> QED
  BY <1>2, <1>3, <1>4

\* Every step leaves a registry of records.
LEMMA RegistryStep == ASSUME IInv, [Next]_vars PROVE registry' \in [Jobs -> Snapshots]
<1>1. registry \in [Jobs -> Snapshots]
  BY DEF IInv, TypeOK, Snapshots
<1>2. CASE UNCHANGED registry
  BY <1>1, <1>2
<1>3. CASE \/ Submit \/ \E j \in Jobs : ResumeCheck(j) \/ CancelCheck(j) \/ PollJob(j)
           \/ \E w \in Workers : ReadFlag(w)
  BY <1>3, StatusesRead DEF Gets
<1>4. CASE \/ Reject \/ CancelSet \/ \E j \in Jobs : CreateJob(j) \/ ResumeBody(j)
           \/ \E w \in Workers : Start(w) \/ Finish(w)
  BY <1>1, <1>4, StatusesSet DEF Sets
<1>5. CASE Restart
  BY <1>5 DEF Restart, Snapshots
<1>6. CASE \/ PersistQueued \/ PersistLast \/ CancelFuture
           \/ \E w \in Workers : \/ TakeTask(w) \/ PersistStart(w) \/ EngineEnds(w)
                                 \/ PersistFinal(w) \/ Release(w) \/ EngineCheckpoints(w)
  BY <1>2, <1>6 DEF PersistQueued, PersistLast, CancelFuture, TakeTask, PersistStart, EngineEnds,
                    EngineReturns, EngineInterrupted, EngineFails, PersistFinal, Release,
                    EngineCheckpoints
<1>7. CASE UNCHANGED vars
  BY <1>2, <1>7 DEF vars
<1> QED
  BY <1>3, <1>4, <1>5, <1>6, <1>7 DEF Next, Handler, Request, WorkerStep

\* Every step leaves status files of records, and removes none.
LEMMA FileStep ==
  ASSUME IInv, [Next]_vars
  PROVE  /\ file' \in [Jobs -> Snapshots]
         /\ \A j \in Jobs : file[j] # Untracked => file'[j] # Untracked
<1>1. file \in [Jobs -> Snapshots]
  BY DEF IInv, TypeOK, Snapshots
<1>2. CASE UNCHANGED file
  BY <1>1, <1>2
<1>3. ASSUME NEW j \in Jobs, NEW rec \in Records, Persist(j, rec)
      PROVE  /\ file' \in [Jobs -> Snapshots]
             /\ \A k \in Jobs : file[k] # Untracked => file'[k] # Untracked
  <2>1. rec # Untracked
    BY StatusTells
  <2> QED
    BY <1>1, <1>3, <2>1 DEF Persist, Snapshots
<1> HIDE DEF Persist
<1>4. CASE PersistQueued \/ PersistLast
  <2>1. loop.job \in Jobs /\ loop.snap \in Records /\ Persist(loop.job, loop.snap)
    BY <1>4 DEF PersistQueued, PersistLast, IInv, TypeOK, Frames
  <2> QED
    BY <1>3, <2>1
<1>5. CASE \E w \in Workers : PersistStart(w) \/ PersistFinal(w)
  <2>1. PICK w \in Workers : PersistStart(w) \/ PersistFinal(w)
    BY <1>5
  <2>2. worker[w].job \in Jobs /\ worker[w].final \in Records /\ Persist(worker[w].job, worker[w].final)
    BY <2>1 DEF PersistStart, PersistFinal, IInv, TypeOK, Frames
  <2> QED
    BY <1>3, <2>2
<1>6. CASE \/ Submit \/ Reject \/ CancelFuture \/ CancelSet \/ Restart
           \/ \E j \in Jobs : Request(j)
  BY <1>2, <1>6 DEF Submit, Reject, CancelFuture, CancelSet, Restart, Request, CreateJob,
                    ResumeCheck, ResumeBody, CancelCheck, PollJob
<1>7. CASE \E w \in Workers : \/ TakeTask(w) \/ Start(w) \/ EngineEnds(w) \/ ReadFlag(w)
                              \/ Finish(w) \/ Release(w) \/ EngineCheckpoints(w)
  BY <1>2, <1>7 DEF TakeTask, Start, EngineEnds, EngineReturns, EngineInterrupted, EngineFails,
                    ReadFlag, Finish, Release, EngineCheckpoints
<1>8. CASE UNCHANGED vars
  BY <1>2, <1>8 DEF vars
<1> QED
  BY <1>4, <1>5, <1>6, <1>7, <1>8 DEF Next, Handler, WorkerStep

---------------------------------------------------------------------------
(* Types and frames *)

\* Jobs of the busy threads, and of the handler that holds the event loop, are job ids.
BusyOnJobs == /\ \A w \in Workers : worker[w].at # "idle" => worker[w].job \in Jobs
              /\ loop.at # "free" => loop.job \in Jobs

\* One thread takes on a well-formed frame.
LEMMA FrameMoves ==
  ASSUME Frames, BusyOnJobs, NEW w \in Workers, NEW f \in WorkerFrames,
         worker' = [worker EXCEPT ![w] = f], loop' = loop,
         f.at # "idle" => f.job \in Jobs,
         f.at \in {"persist_start", "persist_final"} => f.final \in Records,
         f.at \in {"read_flag", "finish"} => f.final.status \in TerminalStatuses
  PROVE  Frames' /\ BusyOnJobs'
<1>1. /\ worker' \in [Workers -> WorkerFrames] /\ worker'[w] = f
      /\ \A v \in Workers \ {w} : worker'[v] = worker[v]
  BY DEF Frames
<1> QED
  BY <1>1 DEF Frames, BusyOnJobs

\* The frames after a step of a thread.
LEMMA WorkerFramesStep ==
  ASSUME IInv, NEW w \in Workers, WorkerStep(w)
  PROVE  Frames' /\ BusyOnJobs'
<1>0. /\ Frames /\ BusyOnJobs /\ TypeOK
      /\ worker \in [Workers -> WorkerFrames] /\ worker[w] \in WorkerFrames
      /\ registry \in [Jobs -> Snapshots]
  BY DEF IInv, Frames, TypeOK, BusyOnJobs, Snapshots
<1>1. CASE TakeTask(w)
  <2> DEFINE f == [at |-> "start", job |-> Head(queue).job, kind |-> Head(queue).kind,
                   final |-> Untracked]
  <2>1. Head(queue) \in Tasks
    BY <1>0, <1>1, HeadTailProperties DEF TakeTask, TypeOK
  <2>2. f \in WorkerFrames /\ f.at = "start" /\ f.job \in Jobs
    BY <2>1 DEF WorkerFrames, Tasks
  <2>3. worker' = [worker EXCEPT ![w] = f] /\ loop' = loop
    BY <1>1 DEF TakeTask
  <2> HIDE DEF f
  <2> QED
    BY <1>0, <2>2, <2>3, FrameMoves
<1>2. CASE Start(w)
  <2> DEFINE j == worker[w].job
             f == [worker[w] EXCEPT !.at = "persist_start", !.final = registry'[j]]
  <2>1. j \in Jobs /\ registry'[j] \in Records
    BY <1>0, <1>2, StatusesSet DEF Start, TypeOK, Sets
  <2>2. f \in WorkerFrames /\ f.at = "persist_start" /\ f.job \in Jobs /\ f.final \in Records
    BY <1>0, <2>1 DEF WorkerFrames
  <2>3. worker' = [worker EXCEPT ![w] = f] /\ loop' = loop
    BY <1>0, <1>2 DEF Start
  <2> HIDE DEF f
  <2> QED
    BY <1>0, <2>2, <2>3, FrameMoves
<1>3. CASE PersistStart(w)
  <2> DEFINE f == [worker[w] EXCEPT !.at = "engine", !.final = Untracked]
  <2>1. worker[w].job \in Jobs
    BY <1>0, <1>3 DEF PersistStart, TypeOK
  <2>2. f \in WorkerFrames /\ f.at = "engine" /\ f.job \in Jobs
    BY <1>0, <2>1 DEF WorkerFrames
  <2>3. worker' = [worker EXCEPT ![w] = f] /\ loop' = loop
    BY <1>0, <1>3 DEF PersistStart
  <2> HIDE DEF f
  <2> QED
    BY <1>0, <2>2, <2>3, FrameMoves
<1>4. ASSUME NEW s \in TerminalStatuses, NEW c \in BOOLEAN
      PROVE  Final(s, c) \in Records /\ Final(s, c).status \in TerminalStatuses
  BY <1>4, StatusTells DEF Final, Records
<1>5. ASSUME NEW at \in {"read_flag", "finish"}, NEW rec \in Records,
             rec.status \in TerminalStatuses, worker[w].at = "engine", loop' = loop,
             worker' = [worker EXCEPT ![w].at = at, ![w].final = rec]
      PROVE  Frames' /\ BusyOnJobs'
  <2> DEFINE f == [worker[w] EXCEPT !.at = at, !.final = rec]
  <2>1. f \in WorkerFrames /\ f.at = at /\ f.job \in Jobs /\ f.final.status \in TerminalStatuses
    BY <1>0, <1>5 DEF WorkerFrames, TypeOK
  <2>2. worker' = [worker EXCEPT ![w] = f] /\ at \notin {"persist_start", "persist_final"}
    BY <1>0, <1>5
  <2> HIDE DEF f
  <2> QED
    BY <1>0, <1>5, <2>1, <2>2, FrameMoves
<1>6. CASE EngineEnds(w)
  <2>1. CASE \E c \in Outcomes : EngineReturns(w, c)
    <3>1. PICK c \in Outcomes : EngineReturns(w, c)
      BY <2>1
    <3> DEFINE rec == Final(c, FALSE)
               at == IF worker[w].kind = "run" THEN "read_flag" ELSE "finish"
    <3>2. rec \in Records /\ rec.status \in TerminalStatuses /\ at \in {"read_flag", "finish"}
      BY <1>4, StatusTells
    <3>3. /\ worker[w].at = "engine" /\ loop' = loop
          /\ worker' = [worker EXCEPT ![w].at = at, ![w].final = rec]
      BY <3>1 DEF EngineReturns
    <3> HIDE DEF rec, at
    <3> QED
      BY <1>5, <3>2, <3>3
  <2>2. CASE EngineInterrupted(w)
    <3> DEFINE rec == Final("cancelled", TRUE)
    <3>1. rec \in Records /\ rec.status \in TerminalStatuses
      BY <1>4, StatusTells
    <3>2. /\ worker[w].at = "engine" /\ loop' = loop
          /\ worker' = [worker EXCEPT ![w].at = "finish", ![w].final = rec]
      BY <2>2 DEF EngineInterrupted
    <3> HIDE DEF rec
    <3> QED
      BY <1>5, <3>1, <3>2
  <2>3. CASE EngineFails(w)
    <3> DEFINE rec == Final("failed", FALSE)
    <3>1. rec \in Records /\ rec.status \in TerminalStatuses
      BY <1>4, StatusTells
    <3>2. /\ worker[w].at = "engine" /\ loop' = loop
          /\ worker' = [worker EXCEPT ![w].at = "finish", ![w].final = rec]
      BY <2>3 DEF EngineFails
    <3> HIDE DEF rec
    <3> QED
      BY <1>5, <3>1, <3>2
  <2> QED
    BY <1>6, <2>1, <2>2, <2>3 DEF EngineEnds
<1>7. CASE ReadFlag(w)
  <2> DEFINE s == IF registry'[worker[w].job].cancel THEN "cancelled" ELSE worker[w].final.status
             rec == [worker[w].final EXCEPT !.status = s]
             f == [worker[w] EXCEPT !.at = "finish", !.final = rec]
  <2>1. worker[w].final.status \in TerminalStatuses /\ worker[w].job \in Jobs
    BY <1>0, <1>7 DEF ReadFlag, Frames, TypeOK
  <2>2. worker[w].final \in Records
    <3>1. worker[w].final \in Records \cup {Untracked}
      BY <1>0 DEF WorkerFrames
    <3> QED
      BY <2>1, <3>1, StatusTells
  <2>3. s \in TerminalStatuses /\ s \in Statuses
    BY <2>1, StatusTells
  <2> HIDE DEF s
  <2>4. rec \in Records /\ rec.status \in TerminalStatuses
    BY <2>2, <2>3 DEF Records
  <2>5. f \in WorkerFrames /\ f.at = "finish" /\ f.job \in Jobs /\ f.final.status \in TerminalStatuses
    BY <1>0, <2>1, <2>4 DEF WorkerFrames
  <2>6. worker' = [worker EXCEPT ![w] = f] /\ loop' = loop
    BY <1>0, <1>7 DEF ReadFlag, s
  <2> HIDE DEF f
  <2> QED
    BY <1>0, <2>5, <2>6, FrameMoves
<1>8. CASE Finish(w)
  <2> DEFINE j == worker[w].job
             f == [worker[w] EXCEPT !.at = "persist_final", !.final = registry'[j]]
  <2>1. j \in Jobs /\ registry'[j] \in Records
    BY <1>0, <1>8, StatusesSet DEF Finish, TypeOK, Sets
  <2>2. f \in WorkerFrames /\ f.at = "persist_final" /\ f.job \in Jobs /\ f.final \in Records
    BY <1>0, <2>1 DEF WorkerFrames
  <2>3. worker' = [worker EXCEPT ![w] = f] /\ loop' = loop
    BY <1>0, <1>8 DEF Finish
  <2> HIDE DEF f
  <2> QED
    BY <1>0, <2>2, <2>3, FrameMoves
<1>9. CASE PersistFinal(w)
  <2> DEFINE f == [worker[w] EXCEPT !.at = "release", !.final = Untracked]
  <2>1. f \in WorkerFrames /\ f.at = "release" /\ f.job \in Jobs
    BY <1>0, <1>9 DEF PersistFinal, TypeOK, WorkerFrames
  <2>2. worker' = [worker EXCEPT ![w] = f] /\ loop' = loop
    BY <1>0, <1>9 DEF PersistFinal
  <2> HIDE DEF f
  <2> QED
    BY <1>0, <2>1, <2>2, FrameMoves
<1>10. CASE Release(w)
  <2>1. IdleWorker \in WorkerFrames /\ IdleWorker.at = "idle"
    BY DEF IdleWorker, WorkerFrames
  <2>2. worker' = [worker EXCEPT ![w] = IdleWorker] /\ loop' = loop
    BY <1>10 DEF Release
  <2> QED
    BY <1>0, <2>1, <2>2, FrameMoves
<1> QED
  BY <1>1, <1>2, <1>3, <1>6, <1>7, <1>8, <1>9, <1>10 DEF WorkerStep

\* The frames after a step on the event loop.
LEMMA LoopFramesStep ==
  ASSUME IInv, Handler \/ \E j \in Jobs : Request(j)
  PROVE  Frames' /\ BusyOnJobs'
<1>0. /\ Frames /\ BusyOnJobs /\ TypeOK /\ loop \in LoopFrames
      /\ registry \in [Jobs -> Snapshots]
  BY DEF IInv, Frames, TypeOK, BusyOnJobs, Snapshots
<1>1. ASSUME worker' = worker, NEW f \in LoopFrames, loop' = f,
             f.at # "free" => f.job \in Jobs,
             f.at \in {"persist_queued", "persist_last"} => f.snap \in Records
      PROVE  Frames' /\ BusyOnJobs'
  BY <1>0, <1>1 DEF Frames, BusyOnJobs
<1>2. IdleLoop \in LoopFrames /\ IdleLoop.at = "free"
  BY DEF IdleLoop, LoopFrames
<1>3. CASE Submit \/ PersistLast
  <2>1. worker' = worker /\ loop' = IdleLoop
    BY <1>3 DEF Submit, PersistLast
  <2> QED
    BY <1>1, <1>2, <2>1
<1>4. CASE PersistQueued
  <2> DEFINE f == [loop EXCEPT !.at = "submit", !.snap = Untracked]
  <2>1. f \in LoopFrames /\ f.at = "submit" /\ f.job \in Jobs /\ worker' = worker /\ loop' = f
    BY <1>0, <1>4 DEF PersistQueued, LoopFrames, TypeOK
  <2> HIDE DEF f
  <2> QED
    BY <1>1, <2>1
<1>5. CASE CancelFuture
  <2> DEFINE f == [loop EXCEPT !.at = "cancel_set"]
  <2>1. f \in LoopFrames /\ f.at = "cancel_set" /\ f.job \in Jobs /\ worker' = worker /\ loop' = f
    BY <1>0, <1>5 DEF CancelFuture, LoopFrames, TypeOK
  <2> HIDE DEF f
  <2> QED
    BY <1>1, <2>1
<1>6. CASE Reject \/ CancelSet
  <2> DEFINE f == [loop EXCEPT !.at = "persist_last", !.snap = registry'[loop.job]]
  <2>1. loop.job \in Jobs /\ registry'[loop.job] \in Records
    BY <1>0, <1>6, StatusesSet DEF Reject, CancelSet, TypeOK, Sets
  <2>2. f \in LoopFrames /\ f.job \in Jobs /\ f.snap \in Records
    BY <1>0, <2>1 DEF LoopFrames
  <2>3. worker' = worker /\ loop' = f
    BY <1>6 DEF Reject, CancelSet
  <2> HIDE DEF f
  <2> QED
    BY <1>1, <2>2, <2>3
<1>7. ASSUME NEW j \in Jobs, CreateJob(j) PROVE Frames' /\ BusyOnJobs'
  <2> DEFINE f == [at |-> "persist_queued", job |-> j, kind |-> "run", snap |-> registry'[j]]
  <2>1. registry'[j] \in Records
    BY <1>7, StatusesSet DEF Sets
  <2>2. f \in LoopFrames /\ f.job \in Jobs /\ f.snap \in Records
    BY <2>1 DEF LoopFrames
  <2>3. worker' = worker /\ loop' = f
    BY <1>7 DEF CreateJob
  <2> HIDE DEF f
  <2> QED
    BY <1>1, <2>2, <2>3
<1>8. ASSUME NEW j \in Jobs, ResumeBody(j) PROVE Frames' /\ BusyOnJobs'
  <2>1. CASE ~checkpoint[j]
    <3>1. worker' = worker /\ loop' = loop
      BY <1>8, <2>1 DEF ResumeBody
    <3> QED
      BY <1>0, <3>1 DEF Frames, BusyOnJobs
  <2>2. CASE checkpoint[j]
    <3> DEFINE f == [at |-> "persist_queued", job |-> j, kind |-> "resume", snap |-> registry'[j]]
    <3>1. worker' = worker /\ loop' = f /\ SetJob(j, [status |-> "queued", cancel |-> FALSE])
      BY <1>8, <2>2 DEF ResumeBody
    <3>2. registry'[j] \in Records
      <4> DEFINE update == [status |-> "queued", cancel |-> FALSE]
      <4>1. /\ update.status \in Statuses /\ update.cancel \in BOOLEAN
            /\ "rooted" \notin DOMAIN update
        BY StatusTells
      <4>2. SetJob(j, update)
        BY <3>1
      <4> HIDE DEF update
      <4> QED
        BY <1>0, <4>1, <4>2, SetJobEffect DEF Sets
    <3>3. f \in LoopFrames /\ f.job \in Jobs /\ f.snap \in Records
      BY <3>2 DEF LoopFrames
    <3> HIDE DEF f
    <3> QED
      BY <1>1, <3>1, <3>3
  <2> QED
    BY <2>1, <2>2
<1>9. ASSUME NEW j \in Jobs, CancelCheck(j) PROVE Frames' /\ BusyOnJobs'
  <2> DEFINE f == [IdleLoop EXCEPT !.at = "cancel_future", !.job = j]
  <2>1. f \in LoopFrames /\ f.job \in Jobs /\ f.at = "cancel_future"
    BY DEF IdleLoop, LoopFrames
  <2>2. worker' = worker /\ (loop' = f \/ loop' = loop)
    BY <1>9 DEF CancelCheck
  <2> HIDE DEF f
  <2> QED
    BY <1>0, <1>1, <2>1, <2>2 DEF Frames, BusyOnJobs
<1>10. ASSUME NEW j \in Jobs, ResumeCheck(j) \/ PollJob(j) PROVE Frames' /\ BusyOnJobs'
  <2>1. worker' = worker /\ loop' = loop
    BY <1>10 DEF ResumeCheck, PollJob
  <2> QED
    BY <1>0, <2>1 DEF Frames, BusyOnJobs
<1> QED
  BY <1>3, <1>4, <1>5, <1>6, <1>7, <1>8, <1>9, <1>10 DEF Handler, Request

\* A job of which two resume requests were suspended at once is remembered until a restart.
LEMMA OverlapStep ==
  ASSUME overlapped \subseteq Jobs, [Next]_vars
  PROVE  overlapped' \subseteq Jobs /\ (Restart \/ overlapped \subseteq overlapped')
<1>1. CASE Handler \/ UNCHANGED vars \/ \E j \in Jobs : \/ CreateJob(j) \/ ResumeBody(j)
                                                        \/ CancelCheck(j) \/ PollJob(j)
  <2>1. overlapped' = overlapped
    BY <1>1, ZenonT(40) DEF Handler, PersistQueued, Submit, Reject, PersistLast, CancelFuture, CancelSet,
                   vars, CreateJob, ResumeBody, CancelCheck, PollJob
  <2> QED
    BY <2>1
<1>2. CASE \E w \in Workers : WorkerStep(w) \/ EngineCheckpoints(w)
  <2>1. overlapped' = overlapped
    BY <1>2, ZenonT(40) DEF WorkerStep, TakeTask, Start, PersistStart, EngineEnds, EngineReturns,
                   EngineInterrupted, EngineFails, ReadFlag, Finish, PersistFinal, Release,
                   EngineCheckpoints
  <2> QED
    BY <2>1
<1>3. CASE \E j \in Jobs : ResumeCheck(j)
  BY <1>3 DEF ResumeCheck, Overlapping
<1>4. CASE Restart
  BY <1>4 DEF Restart
<1> QED
  BY <1>1, <1>2, <1>3, <1>4 DEF Next, Request

\* The variables keep their types, and frames stay well formed.
LEMMA TypeStep == ASSUME IInv, [Next]_vars PROVE TypeOK' /\ Frames'
<1>0. /\ Frames /\ BusyOnJobs /\ TypeOK /\ 0 \in 0..MaxAwaiting
      /\ checkpoint \in [Jobs -> BOOLEAN] /\ result \in [Jobs -> Completions \cup {"none"}]
      /\ future \in [Jobs -> BOOLEAN] /\ awaiting \in [Jobs -> 0..MaxAwaiting]
  BY DEF IInv, BusyOnJobs, TypeOK
<1>1. Frames' /\ BusyOnJobs'
  <2>1. CASE Handler \/ \E j \in Jobs : Request(j)
    BY <2>1, LoopFramesStep
  <2>2. CASE \E w \in Workers : WorkerStep(w)
    BY <2>2, WorkerFramesStep
  <2>3. CASE UNCHANGED <<worker, loop>>
    BY <1>0, <2>3 DEF Frames, BusyOnJobs
  <2>4. CASE Restart
    <3>1. worker' = [w \in Workers |-> IdleWorker] /\ loop' = IdleLoop
      BY <2>4 DEF Restart
    <3>2. IdleWorker \in WorkerFrames /\ IdleWorker.at = "idle"
      BY DEF IdleWorker, WorkerFrames
    <3>3. IdleLoop \in LoopFrames /\ IdleLoop.at = "free"
      BY DEF IdleLoop, LoopFrames
    <3>4. worker' \in [Workers -> WorkerFrames] /\ \A w \in Workers : worker'[w] = IdleWorker
      BY <3>1, <3>2
    <3> QED
      BY <3>1, <3>2, <3>3, <3>4 DEF Frames, BusyOnJobs
  <2> QED
    BY <2>1, <2>2, <2>3, <2>4 DEF Next, vars, EngineCheckpoints
<1>2. checkpoint' \in [Jobs -> BOOLEAN] /\ result' \in [Jobs -> Completions \cup {"none"}]
  <2>1. CASE \E w \in Workers : EngineCheckpoints(w)
    BY <1>0, <2>1 DEF EngineCheckpoints
  <2>2. CASE \E w \in Workers, c \in Outcomes : EngineReturns(w, c)
    <3>1. PICK w \in Workers, c \in Outcomes : EngineReturns(w, c)
      BY <2>2
    <3>2. /\ checkpoint' = [checkpoint EXCEPT ![worker[w].job] = TRUE]
          /\ result' = [result EXCEPT ![worker[w].job] = c]
      BY <3>1 DEF EngineReturns
    <3> QED
      BY <1>0, <3>2
  <2>3. CASE UNCHANGED <<checkpoint, result>>
    BY <1>0, <2>3
  <2>4. CASE Handler \/ Restart \/ UNCHANGED vars \/ \E j \in Jobs : Request(j)
    BY <2>3, <2>4 DEF Handler, PersistQueued, Submit, Reject, PersistLast, CancelFuture, CancelSet,
                      Restart, vars, Request, CreateJob, ResumeCheck, ResumeBody, CancelCheck, PollJob
  <2>5. CASE \E w \in Workers : \/ TakeTask(w) \/ Start(w) \/ PersistStart(w) \/ ReadFlag(w)
                                \/ EngineInterrupted(w) \/ EngineFails(w)
                                \/ Finish(w) \/ PersistFinal(w) \/ Release(w)
    BY <2>3, <2>5 DEF TakeTask, Start, PersistStart, ReadFlag, EngineInterrupted, EngineFails,
                      Finish, PersistFinal, Release
  <2> QED
    BY <2>1, <2>2, <2>4, <2>5 DEF Next, WorkerStep, EngineEnds
<1>3. future' \in [Jobs -> BOOLEAN]
  <2>1. CASE \/ Submit \/ CancelFuture \/ Restart \/ \E w \in Workers : Release(w)
    BY <1>0, <2>1 DEF Submit, CancelFuture, Restart, Release
  <2>2. CASE \/ PersistQueued \/ Reject \/ PersistLast \/ CancelSet \/ UNCHANGED vars
             \/ \E j \in Jobs : Request(j)
    BY <1>0, <2>2 DEF PersistQueued, Reject, PersistLast, CancelSet, vars, Request, CreateJob,
                      ResumeCheck, ResumeBody, CancelCheck, PollJob
  <2>3. CASE \E w \in Workers : \/ TakeTask(w) \/ Start(w) \/ PersistStart(w) \/ EngineEnds(w)
                                \/ ReadFlag(w) \/ Finish(w) \/ PersistFinal(w) \/ EngineCheckpoints(w)
    BY <1>0, <2>3, ZenonT(40) DEF TakeTask, Start, PersistStart, EngineEnds, EngineReturns, EngineInterrupted,
                      EngineFails, ReadFlag, Finish, PersistFinal, EngineCheckpoints
  <2> QED
    BY <2>1, <2>2, <2>3 DEF Next, Handler, WorkerStep
<1>4. awaiting' \in [Jobs -> 0..MaxAwaiting]
  <2>1. ASSUME NEW j \in Jobs, ResumeCheck(j) PROVE awaiting' \in [Jobs -> 0..MaxAwaiting]
    <3>1. awaiting[j] + 1 \in 0..MaxAwaiting
      BY <1>0, <2>1 DEF ResumeCheck
    <3> QED
      BY <1>0, <2>1, <3>1 DEF ResumeCheck
  <2>2. ASSUME NEW j \in Jobs, ResumeBody(j) PROVE awaiting' \in [Jobs -> 0..MaxAwaiting]
    <3>1. awaiting[j] - 1 \in 0..MaxAwaiting
      BY <1>0, <2>2 DEF ResumeBody
    <3> QED
      BY <1>0, <2>2, <3>1 DEF ResumeBody
  <2>3. CASE Restart
    BY <1>0, <2>3 DEF Restart
  <2>4. CASE Handler \/ UNCHANGED vars \/ \E j \in Jobs : CreateJob(j) \/ CancelCheck(j) \/ PollJob(j)
    BY <1>0, <2>4, ZenonT(40) DEF Handler, PersistQueued, Submit, Reject, PersistLast, CancelFuture, CancelSet,
                      vars, CreateJob, CancelCheck, PollJob
  <2>5. CASE \E w \in Workers : WorkerStep(w) \/ EngineCheckpoints(w)
    BY <1>0, <2>5, ZenonT(40) DEF WorkerStep, TakeTask, Start, PersistStart, EngineEnds, EngineReturns,
                      EngineInterrupted, EngineFails, ReadFlag, Finish, PersistFinal, Release,
                      EngineCheckpoints
  <2> QED
    BY <2>1, <2>2, <2>3, <2>4, <2>5 DEF Next, Request
<1>5. /\ registry' \in [Jobs -> Snapshots] /\ file' \in [Jobs -> Snapshots]
      /\ queue' \in Seq(Tasks) /\ permits' \in 0..Capacity /\ leaked' \in Nat
  BY RegistryStep, FileStep, LoadStep
<1>6. overlapped' \subseteq Jobs
  BY OverlapStep DEF IInv, TypeOK
<1> QED
  BY <1>1, <1>2, <1>3, <1>4, <1>5, <1>6 DEF TypeOK, BusyOnJobs, Snapshots

---------------------------------------------------------------------------
(* Where the tasks go *)

\* The task submitted is the last of the queue.
LEMMA SubmitEffect ==
  ASSUME IInv, Submit
  PROVE  /\ UNCHANGED worker /\ loop.job \in Jobs /\ loop'.at = "free"
         /\ Len(queue) + 1 \in DOMAIN queue' /\ queue'[Len(queue) + 1].job = loop.job
         /\ \A n \in DOMAIN queue : n \in DOMAIN queue' /\ queue'[n] = queue[n]
         /\ \A n \in DOMAIN queue' : n \in DOMAIN queue \/ n = Len(queue) + 1
<1>1. /\ queue \in Seq(Tasks) /\ loop.job \in Jobs
      /\ [job |-> loop.job, kind |-> loop.kind] \in Tasks
  BY DEF Submit, IInv, TypeOK, Frames, Tasks, LoopFrames
<1>2. /\ queue' = Append(queue, [job |-> loop.job, kind |-> loop.kind]) /\ worker' = worker
      /\ loop'.at = "free"
  BY DEF Submit, IdleLoop
<1>3. /\ DOMAIN queue' = 1 .. Len(queue) + 1 /\ DOMAIN queue = 1 .. Len(queue) /\ Len(queue) \in Nat
      /\ \A n \in 1 .. Len(queue) : queue'[n] = queue[n]
      /\ queue'[Len(queue) + 1].job = loop.job
  BY <1>1, <1>2, AppendProperties, LenProperties
<1> QED
  BY <1>1, <1>2, <1>3

\* A cancelled task leaves the queue, and no other does.
LEMMA CancelFutureEffect ==
  ASSUME IInv, CancelFuture
  PROVE  /\ UNCHANGED worker /\ loop'.at = "cancel_set" /\ loop'.job = loop.job
         /\ \A i \in DOMAIN queue' : \E m \in DOMAIN queue : queue'[i] = queue[m]
         /\ \A i, k \in DOMAIN queue' : i # k =>
              \E m, n \in DOMAIN queue : m # n /\ queue'[i] = queue[m] /\ queue'[k] = queue[n]
         /\ \A m \in DOMAIN queue : queue[m].job # loop.job =>
              \E i \in DOMAIN queue' : queue'[i] = queue[m]
<1>1. /\ UNCHANGED worker /\ loop'.at = "cancel_set" /\ loop'.job = loop.job
  BY DEF CancelFuture, IInv, Frames, LoopFrames
<1>2. queue' = queue \/ \E n \in LastQueued(loop.job) : queue' = RemoveAt(queue, n)
  BY DEF CancelFuture
<1>3. CASE queue' = queue
  BY <1>1, <1>3
<1>4. ASSUME NEW n \in LastQueued(loop.job), queue' = RemoveAt(queue, n)
      PROVE  /\ \A i \in DOMAIN queue' : \E m \in DOMAIN queue : queue'[i] = queue[m]
             /\ \A i, k \in DOMAIN queue' : i # k =>
                  \E m, l \in DOMAIN queue : m # l /\ queue'[i] = queue[m] /\ queue'[k] = queue[l]
             /\ \A m \in DOMAIN queue : queue[m].job # loop.job =>
                  \E i \in DOMAIN queue' : queue'[i] = queue[m]
  <2> DEFINE at(i) == IF i < n THEN i ELSE i + 1
  <2>1. /\ queue \in Seq(Tasks) /\ DOMAIN queue = 1 .. Len(queue) /\ Len(queue) \in Nat
        /\ n \in 1 .. Len(queue) /\ n \in Nat /\ queue[n].job = loop.job
    <3>1. queue \in Seq(Tasks)
      BY DEF IInv, TypeOK
    <3>2. DOMAIN queue = 1 .. Len(queue) /\ Len(queue) \in Nat
      BY <3>1, LenProperties
    <3>3. n \in DOMAIN queue /\ queue[n].job = loop.job
      BY DEF LastQueued
    <3> QED
      BY <3>1, <3>2, <3>3
  <2>2. /\ queue' \in Seq(Tasks) /\ Len(queue') = Len(queue) - 1
        /\ \A i \in 1 .. Len(queue) - 1 : queue'[i] = IF i < n THEN queue[i] ELSE queue[i + 1]
    <3>1. /\ RemoveAt(queue, n) \in Seq(Tasks) /\ Len(RemoveAt(queue, n)) = Len(queue) - 1
          /\ \A i \in 1 .. Len(queue) - 1 :
                RemoveAt(queue, n)[i] = IF i < n THEN queue[i] ELSE queue[i + 1]
      BY <2>1, RemoveAtEffect, ZenonT(40)
    <3> QED
      BY <1>4, <3>1, ZenonT(40)
  <2>3. DOMAIN queue' = 1 .. Len(queue) - 1
    BY <2>2, LenProperties
  <2>4. \A i \in DOMAIN queue' : at(i) \in DOMAIN queue /\ queue'[i] = queue[at(i)]
    BY <2>1, <2>2, <2>3
  <2>5. \A i, k \in DOMAIN queue' : i # k => at(i) # at(k)
    BY <2>1, <2>3
  <2>6. ASSUME NEW m \in DOMAIN queue, queue[m].job # loop.job
        PROVE  \E i \in DOMAIN queue' : queue'[i] = queue[m]
    <3>1. m # n /\ m \in Nat
      BY <2>1, <2>6
    <3>2. CASE m < n
      <4>1. m \in DOMAIN queue' /\ at(m) = m
        BY <2>1, <2>3, <3>1, <3>2
      <4> QED
        BY <2>4, <4>1
    <3>3. CASE ~(m < n)
      <4>1. m - 1 \in DOMAIN queue' /\ at(m - 1) = m
        BY <2>1, <2>3, <3>1, <3>3
      <4> QED
        BY <2>4, <4>1
    <3> QED
      BY <3>2, <3>3
  <2> HIDE DEF at
  <2> QED
    BY <2>4, <2>5, <2>6
<1> QED
  BY <1>1, <1>2, <1>3, <1>4

\* A thread takes the oldest task.
LEMMA TakeTaskEffect ==
  ASSUME IInv, NEW w \in Workers, TakeTask(w)
  PROVE  /\ UNCHANGED loop /\ 1 \in DOMAIN queue
         /\ worker[w].at = "idle" /\ worker'[w].at = "start" /\ worker'[w].job = queue[1].job
         /\ \A v \in Workers \ {w} : worker'[v] = worker[v]
         /\ \A i \in DOMAIN queue' : i + 1 \in DOMAIN queue /\ queue'[i] = queue[i + 1]
         /\ \A m \in DOMAIN queue : m # 1 => \E i \in DOMAIN queue' : queue'[i] = queue[m]
         /\ \A i, k \in DOMAIN queue' : i # k => i + 1 # k + 1
         /\ \A i \in DOMAIN queue' : i + 1 # 1
<1>1. /\ queue \in Seq(Tasks) /\ queue # <<>> /\ DOMAIN queue = 1 .. Len(queue)
      /\ Len(queue) \in Nat \ {0} /\ worker \in [Workers -> WorkerFrames] /\ worker[w].at = "idle"
  BY LenProperties, EmptySeq DEF TakeTask, IInv, TypeOK, Frames
<1>2. /\ queue' = Tail(queue) /\ loop' = loop
      /\ worker' = [worker EXCEPT ![w] = [at |-> "start", job |-> Head(queue).job,
                                          kind |-> Head(queue).kind, final |-> Untracked]]
  BY DEF TakeTask
<1>3. /\ queue' \in Seq(Tasks) /\ Len(queue') = Len(queue) - 1
      /\ \A i \in 1 .. Len(queue') : queue'[i] = queue[i + 1]
      /\ Head(queue) = queue[1]
  BY <1>1, <1>2, HeadTailProperties
<1>4. DOMAIN queue' = 1 .. Len(queue) - 1
  BY <1>3, LenProperties
<1>5. \A i \in DOMAIN queue' : i + 1 \in DOMAIN queue /\ queue'[i] = queue[i + 1] /\ i + 1 # 1
  BY <1>1, <1>3, <1>4
<1>6. \A i, k \in DOMAIN queue' : i # k => i + 1 # k + 1
  BY <1>1, <1>4
<1>7. ASSUME NEW m \in DOMAIN queue, m # 1 PROVE \E i \in DOMAIN queue' : queue'[i] = queue[m]
  <2>1. m - 1 \in DOMAIN queue' /\ m - 1 + 1 = m
    BY <1>1, <1>4, <1>7
  <2> QED
    BY <1>5, <2>1
<1>8. /\ worker'[w].at = "start" /\ worker'[w].job = queue[1].job
      /\ \A v \in Workers \ {w} : worker'[v] = worker[v]
  BY <1>1, <1>2, <1>3
<1> QED
  BY <1>1, <1>2, <1>5, <1>6, <1>7, <1>8

\* A thread that goes on with its task keeps the job.
LEMMA ThreadGoesOn ==
  ASSUME IInv, NEW w \in Workers,
         \/ Start(w) \/ PersistStart(w) \/ EngineEnds(w) \/ ReadFlag(w) \/ Finish(w)
         \/ PersistFinal(w) \/ Release(w)
  PROVE  /\ UNCHANGED <<queue, loop, awaiting>> /\ Running(w)
         /\ \A v \in Workers \ {w} : worker'[v] = worker[v]
         /\ Running(w)' => worker'[w].job = worker[w].job
         /\ ~Finish(w) => (Working(w)' <=> Working(w))
         /\ Finish(w) => Working(w) /\ ~Working(w)'
<1>0. worker \in [Workers -> WorkerFrames]
  BY DEF IInv, Frames
<1>1. CASE Start(w)
  BY <1>0, <1>1 DEF Start, Finish, Running, Working, WorkerFrames
<1>2. CASE PersistStart(w)
  BY <1>0, <1>2 DEF PersistStart, Finish, Running, Working, WorkerFrames
<1>3. CASE \E c \in Outcomes : EngineReturns(w, c)
  BY <1>0, <1>3 DEF EngineReturns, Finish, Running, Working, WorkerFrames
<1>4. CASE EngineInterrupted(w)
  BY <1>0, <1>4 DEF EngineInterrupted, Finish, Running, Working, WorkerFrames
<1>5. CASE EngineFails(w)
  BY <1>0, <1>5 DEF EngineFails, Finish, Running, Working, WorkerFrames
<1>6. CASE ReadFlag(w)
  BY <1>0, <1>6 DEF ReadFlag, Finish, Running, Working, WorkerFrames
<1>7. CASE Finish(w)
  BY <1>0, <1>7 DEF Finish, Running, Working, WorkerFrames
<1>8. CASE PersistFinal(w)
  BY <1>0, <1>8 DEF PersistFinal, Finish, Running, Working, WorkerFrames
<1>9. CASE Release(w)
  BY <1>0, <1>9 DEF Release, Finish, Running, Working, WorkerFrames, IdleWorker
<1> QED
  BY <1>1, <1>2, <1>3, <1>4, <1>5, <1>6, <1>7, <1>8, <1>9 DEF EngineEnds

---------------------------------------------------------------------------
(* Jobs that are known have a status file *)

\* Tracked jobs but the one whose first file is being written.
LEMMA KnownStep == ASSUME IInv, [Next]_vars PROVE KnownIsOnDisk'
<1>0. /\ TypeOK /\ Frames /\ KnownIsOnDisk /\ loop \in LoopFrames
      /\ worker \in [Workers -> WorkerFrames] /\ awaiting \in [Jobs -> Nat]
      /\ queue \in Seq(Tasks) /\ DOMAIN queue = 1 .. Len(queue)
  BY LenProperties DEF IInv, TypeOK, Frames
<1>1. \A j \in Jobs : file[j] # Untracked => file'[j] # Untracked
  BY FileStep
<1>2. /\ \A n \in DOMAIN queue : queue[n].job \in Jobs /\ file[queue[n].job] # Untracked
      /\ \A w \in Workers : Running(w) => worker[w].job \in Jobs /\ file[worker[w].job] # Untracked
  <2>1. \A n \in DOMAIN queue : queue[n] \in Tasks
    BY <1>0
  <2> QED
    BY <1>0, <2>1 DEF KnownIsOnDisk, AcceptedJobIsOnDisk, Tasks, TypeOK, Running
<1>3. AcceptedJobIsOnDisk'
  <2>1. ASSUME queue' = queue PROVE \A n \in DOMAIN queue' : file'[queue'[n].job] # Untracked
    BY <1>1, <1>2, <2>1
  <2>2. ASSUME worker' = worker PROVE \A w \in Workers : Running(w)' => file'[worker'[w].job] # Untracked
    BY <1>1, <1>2, <2>2 DEF Running
  <2>3. CASE UNCHANGED <<queue, worker>>
    BY <2>1, <2>2, <2>3 DEF AcceptedJobIsOnDisk
  <2>4. CASE Submit
    <3>1. loop.job \in Jobs /\ file[loop.job] # Untracked
      BY <1>0, <2>4 DEF Submit, TypeOK, KnownIsOnDisk, Fresh
    <3>2. \A n \in DOMAIN queue' : file'[queue'[n].job] # Untracked
      BY <1>1, <1>2, <2>4, <3>1, SubmitEffect
    <3> QED
      BY <2>2, <2>4, <3>2, SubmitEffect DEF AcceptedJobIsOnDisk
  <2>5. CASE CancelFuture
    <3>1. \A n \in DOMAIN queue' : file'[queue'[n].job] # Untracked
      BY <1>1, <1>2, <2>5, CancelFutureEffect
    <3> QED
      BY <2>2, <2>5, <3>1, CancelFutureEffect DEF AcceptedJobIsOnDisk
  <2>6. ASSUME NEW w \in Workers, TakeTask(w) PROVE AcceptedJobIsOnDisk'
    <3>1. \A v \in Workers : Running(v)' => file'[worker'[v].job] # Untracked
      BY <1>1, <1>2, <2>6, TakeTaskEffect DEF Running
    <3>2. \A n \in DOMAIN queue' : file'[queue'[n].job] # Untracked
      BY <1>1, <1>2, <2>6, TakeTaskEffect
    <3> QED
      BY <3>1, <3>2 DEF AcceptedJobIsOnDisk
  <2>7. ASSUME NEW w \in Workers, \/ Start(w) \/ PersistStart(w) \/ EngineEnds(w) \/ ReadFlag(w)
                                  \/ Finish(w) \/ PersistFinal(w) \/ Release(w)
        PROVE  AcceptedJobIsOnDisk'
    <3>1. queue' = queue /\ \A v \in Workers : Running(v)' => Running(v) /\ worker'[v].job = worker[v].job
      BY <2>7, ThreadGoesOn DEF Running
    <3> QED
      BY <1>1, <1>2, <2>1, <3>1 DEF AcceptedJobIsOnDisk
  <2>8. CASE Restart
    BY <2>8, EmptySeq DEF Restart, AcceptedJobIsOnDisk, Running, IdleWorker
  <2>9. CASE \/ PersistQueued \/ Reject \/ PersistLast \/ CancelSet \/ UNCHANGED vars
             \/ \E j \in Jobs : Request(j)
             \/ \E w \in Workers : EngineCheckpoints(w)
    BY <2>3, <2>9 DEF PersistQueued, Reject, PersistLast, CancelSet, vars, Request, CreateJob,
                      ResumeCheck, ResumeBody, CancelCheck, PollJob, EngineCheckpoints
  <2> QED
    BY <2>4, <2>5, <2>6, <2>7, <2>8, <2>9 DEF Next, Handler, WorkerStep
<1>4. \A j \in Jobs : LoopFree /\ Gets(j) /\ registry'[j] # Untracked => file[j] # Untracked
  BY <1>0 DEF KnownIsOnDisk, Gets, Fresh, LoopFree
<1>5. ASSUME NEW j \in Jobs, awaiting'[j] > 0 PROVE file'[j] # Untracked
  <2>1. CASE awaiting[j] > 0
    BY <1>0, <1>1, <2>1 DEF KnownIsOnDisk
  <2>2. CASE ~(awaiting[j] > 0)
    <3>1. awaiting'[j] # awaiting[j]
      BY <1>5, <2>2
    <3>2. ~Restart
      BY <1>5 DEF Restart
    <3>3. ASSUME NEW k \in Jobs PROVE ~ResumeBody(k)
      BY <1>0, <1>5, <2>2 DEF ResumeBody
    <3>4. ASSUME NEW k \in Jobs, ResumeCheck(k) PROVE file'[j] # Untracked
      <4>1. k = j /\ registry'[j].status \in TerminalStatuses
        BY <1>0, <3>1, <3>4 DEF ResumeCheck
      <4>2. registry'[j] # Untracked
        BY <4>1, StatusTells
      <4>3. LoopFree /\ Gets(j)
        BY <3>4, <4>1, StatusesRead DEF ResumeCheck
      <4> QED
        BY <1>1, <1>4, <4>2, <4>3
    <3>5. ~Handler /\ ~UNCHANGED vars
      BY <3>1 DEF Handler, PersistQueued, Submit, Reject, PersistLast, CancelFuture, CancelSet, vars
    <3>6. \A k \in Jobs : ~CreateJob(k) /\ ~CancelCheck(k) /\ ~PollJob(k)
      BY <3>1 DEF CreateJob, CancelCheck, PollJob
    <3>7. \A w \in Workers : ~WorkerStep(w) /\ ~EngineCheckpoints(w)
      BY <3>1, ZenonT(40) DEF WorkerStep, TakeTask, Start, PersistStart, EngineEnds, EngineReturns,
                  EngineInterrupted, EngineFails, ReadFlag, Finish, PersistFinal, Release,
                  EngineCheckpoints
    <3> QED
      BY <3>2, <3>3, <3>4, <3>5, <3>6, <3>7 DEF Next, Request
  <2> QED
    BY <2>1, <2>2
<1>6. ASSUME NEW j \in Jobs, CreateJob(j) PROVE Fresh(j)'
  <2> DEFINE update == [status |-> "queued", cancel |-> FALSE, rooted |-> TRUE]
  <2>1. SetJob(j, update) /\ loop' = [at |-> "persist_queued", job |-> j, kind |-> "run", snap |-> registry'[j]]
    BY <1>6 DEF CreateJob
  <2>2. PICK reg \in Prunings : registry' = [reg EXCEPT ![j] = Merge(reg[j], update)]
    BY <2>1 DEF SetJob
  <2>3. reg \in [Jobs -> Snapshots]
    BY <1>0, PruningForgetsTerminals
  <2>4. Merge(reg[j], update).rooted
    BY DEF Merge
  <2> HIDE DEF update
  <2>5. registry'[j] = Merge(reg[j], update)
    BY <2>2, <2>3
  <2> QED
    BY <2>1, <2>4, <2>5 DEF Fresh
<1>7. \A j \in Jobs : ResumeBody(j) => file[j] # Untracked
  BY <1>0 DEF ResumeBody, KnownIsOnDisk
<1>8. ASSUME PersistQueued, Fresh(loop.job) PROVE file'[loop.job] # Untracked
  <2>1. loop.job \in Jobs /\ loop.snap \in Records /\ loop.snap.rooted
    BY <1>0, <1>8 DEF PersistQueued, Frames, TypeOK, Fresh
  <2>2. file' = [file EXCEPT ![loop.job] = loop.snap]
    BY <1>8, <2>1 DEF PersistQueued, Persist
  <2>3. file'[loop.job] = loop.snap
    BY <1>0, <2>1, <2>2 DEF TypeOK
  <2> QED
    BY <2>1, <2>3, StatusTells
<1>9. ASSUME NEW j \in Jobs, registry'[j] # Untracked, ~Fresh(j)' PROVE file'[j] # Untracked
  <2>1. ASSUME registry[j] # Untracked, ~Fresh(j) PROVE file'[j] # Untracked
    BY <1>0, <1>1, <2>1 DEF KnownIsOnDisk
  <2>2. ASSUME NEW k \in Jobs, NEW s, Sets(k, s), ~Fresh(j), file[k] # Untracked PROVE file'[j] # Untracked
    BY <1>1, <1>9, <2>1, <2>2 DEF Sets
  <2>3. ASSUME NEW k \in Jobs, Gets(k), ~Fresh(j) PROVE file'[j] # Untracked
    BY <1>1, <1>9, <2>1, <2>3 DEF Gets
  <2>4. CASE Submit
    <3>1. ~Fresh(j)
      BY <2>4 DEF Submit, Fresh
    <3> QED
      BY <2>3, <2>4, <3>1, StatusesRead
  <2>5. CASE Reject \/ CancelSet
    <3>1. ~Fresh(j) /\ ~Fresh(loop.job) /\ loop.at # "free" /\ loop.job \in Jobs
      BY <1>0, <2>5 DEF Reject, CancelSet, Fresh, TypeOK
    <3>2. file[loop.job] # Untracked
      BY <1>0, <3>1 DEF KnownIsOnDisk
    <3> QED
      BY <2>2, <2>5, <3>1, <3>2, StatusesSet
  <2>6. CASE PersistLast \/ CancelFuture
    BY <1>9, <2>1, <2>6 DEF PersistLast, CancelFuture, Fresh
  <2>7. CASE PersistQueued
    <3>1. CASE Fresh(j)
      BY <1>8, <2>7, <3>1 DEF Fresh
    <3>2. CASE ~Fresh(j)
      BY <1>9, <2>1, <2>7, <3>2 DEF PersistQueued
    <3> QED
      BY <3>1, <3>2
  <2>8. ASSUME NEW k \in Jobs, Request(k) PROVE file'[j] # Untracked
    <3>1. ~Fresh(j)
      BY <2>8 DEF Request, CreateJob, ResumeCheck, ResumeBody, CancelCheck, PollJob, LoopFree, Fresh
    <3>2. CASE CreateJob(k)
      <4>1. k # j
        BY <1>6, <1>9, <3>2
      <4> QED
        BY <1>9, <2>1, <3>1, <3>2, <4>1, StatusesSet DEF Sets
    <3>3. CASE ResumeBody(k)
      <4>1. file[k] # Untracked /\ (UNCHANGED registry \/ Sets(k, "queued"))
        BY <1>7, <3>3, StatusesSet
      <4> QED
        BY <1>9, <2>1, <2>2, <3>1, <4>1
    <3>4. CASE ResumeCheck(k) \/ CancelCheck(k) \/ PollJob(k)
      BY <2>3, <3>1, <3>4, StatusesRead
    <3> QED
      BY <2>8, <3>2, <3>3, <3>4 DEF Request
  <2>9. ASSUME NEW w \in Workers, WorkerStep(w) \/ EngineCheckpoints(w) PROVE file'[j] # Untracked
    <3>1. loop' = loop
      BY <2>9 DEF WorkerStep, TakeTask, Start, PersistStart, EngineEnds, EngineReturns,
                  EngineInterrupted, EngineFails, ReadFlag, Finish, PersistFinal, Release,
                  EngineCheckpoints
    <3>2. ~Fresh(j)
      BY <1>9, <3>1 DEF Fresh
    <3>3. CASE Start(w) \/ Finish(w)
      <4>1. worker[w].job \in Jobs /\ file[worker[w].job] # Untracked
        BY <1>2, <3>3 DEF Start, Finish, Running
      <4>2. \E s : Sets(worker[w].job, s)
        BY <3>3, StatusesSet
      <4> QED
        BY <2>2, <3>2, <4>1, <4>2
    <3>4. CASE ReadFlag(w)
      BY <2>3, <3>2, <3>4, StatusesRead
    <3>5. CASE ~Start(w) /\ ~Finish(w) /\ ~ReadFlag(w)
      <4>1. registry' = registry
        BY <2>9, <3>5 DEF WorkerStep, TakeTask, PersistStart, EngineEnds, EngineReturns,
                  EngineInterrupted, EngineFails, PersistFinal, Release, EngineCheckpoints
      <4> QED
        BY <1>9, <2>1, <3>2, <4>1
    <3> QED
      BY <3>3, <3>4, <3>5
  <2>10. CASE Restart
    BY <1>9, <2>10 DEF Restart
  <2>11. CASE UNCHANGED vars
    BY <1>9, <2>1, <2>11 DEF vars, Fresh
  <2> QED
    BY <2>4, <2>5, <2>6, <2>7, <2>8, <2>9, <2>10, <2>11 DEF Next, Handler
<1>10. ASSUME loop'.at # "free", ~Fresh(loop.job)' PROVE file'[loop'.job] # Untracked
  <2>1. ASSUME loop.at # "free", ~Fresh(loop.job) PROVE file'[loop.job] # Untracked
    BY <1>0, <1>1, <2>1 DEF KnownIsOnDisk, TypeOK
  <2>2. CASE loop' = loop
    BY <1>10, <2>1, <2>2 DEF Fresh
  <2>3. CASE PersistQueued
    <3>1. loop'.job = loop.job /\ loop.at # "free"
      BY <1>0, <2>3 DEF PersistQueued, LoopFrames
    <3> QED
      BY <1>8, <2>1, <2>3, <3>1
  <2>4. CASE Reject \/ CancelFuture \/ CancelSet
    <3>1. loop'.job = loop.job /\ loop.at \in {"submit", "cancel_future", "cancel_set"}
      BY <1>0, <2>4 DEF Reject, CancelFuture, CancelSet, LoopFrames
    <3> QED
      BY <2>1, <3>1 DEF Fresh
  <2>5. CASE Submit \/ PersistLast \/ Restart
    BY <1>10, <2>5 DEF Submit, PersistLast, Restart, IdleLoop
  <2>6. ASSUME NEW j \in Jobs, CreateJob(j) PROVE file'[loop'.job] # Untracked
    <3>1. loop'.job = j
      BY <2>6 DEF CreateJob
    <3> QED
      BY <1>6, <1>10, <2>6, <3>1
  <2>7. ASSUME NEW j \in Jobs, ResumeBody(j) PROVE file'[loop'.job] # Untracked
    <3>1. loop' = loop \/ loop'.job = j
      BY <2>7 DEF ResumeBody
    <3> QED
      BY <1>1, <1>7, <2>2, <2>7, <3>1
  <2>8. ASSUME NEW j \in Jobs, CancelCheck(j) PROVE file'[loop'.job] # Untracked
    <3>1. LoopFree /\ Gets(j)
      BY <2>8, StatusesRead DEF CancelCheck
    <3>2. CASE registry'[j].status \in Statuses \ CancelRefused
      <4>1. loop'.job = j /\ registry'[j] # Untracked
        BY <2>8, <3>2, StatusTells DEF CancelCheck, IdleLoop
      <4> QED
        BY <1>1, <1>4, <3>1, <4>1
    <3>3. CASE registry'[j].status \notin Statuses \ CancelRefused
      BY <2>2, <2>8, <3>3, SMTT(40) DEF CancelCheck
    <3> QED
      BY <3>2, <3>3
  <2>9. CASE \/ UNCHANGED vars \/ \E j \in Jobs : ResumeCheck(j) \/ PollJob(j)
             \/ \E w \in Workers : WorkerStep(w) \/ EngineCheckpoints(w)
    BY <2>2, <2>9, ZenonT(40) DEF vars, ResumeCheck, PollJob, WorkerStep, TakeTask, Start, PersistStart,
                  EngineEnds, EngineReturns, EngineInterrupted, EngineFails, ReadFlag, Finish,
                  PersistFinal, Release, EngineCheckpoints
  <2> QED
    BY <2>3, <2>4, <2>5, <2>6, <2>7, <2>8, <2>9 DEF Next, Handler, Request
<1> QED
  BY <1>3, <1>5, <1>9, <1>10 DEF KnownIsOnDisk

---------------------------------------------------------------------------
(* What is shown as queued or running is worked on *)

\* A step that keeps every task where it is, before or behind its last status.
WorkStays ==
  /\ UNCHANGED queue
  /\ \A j \in Jobs : Entering(j)' <=> Entering(j)
  /\ \A w \in Workers : /\ Working(w)' <=> Working(w)
                        /\ Working(w) => worker'[w].job = worker[w].job

\* The steps that do.
LEMMA StepsThatKeepTasks ==
  ASSUME IInv,
         \/ PersistQueued \/ PersistLast \/ CancelSet \/ UNCHANGED vars
         \/ \E j \in Jobs : \/ ResumeCheck(j) \/ CancelCheck(j) \/ PollJob(j)
                            \/ ResumeBody(j) /\ ~checkpoint[j]
         \/ \E w \in Workers : \/ Start(w) \/ PersistStart(w) \/ EngineEnds(w) \/ ReadFlag(w)
                               \/ PersistFinal(w) \/ Release(w) \/ EngineCheckpoints(w)
  PROVE  WorkStays
<1>0. loop \in LoopFrames
  BY DEF IInv, Frames
<1>1. CASE UNCHANGED <<queue, worker, loop>>
  BY <1>1 DEF WorkStays, Entering, Working
<1>2. CASE PersistQueued
  BY <1>0, <1>2 DEF PersistQueued, WorkStays, Entering, Working, LoopFrames
<1>3. CASE PersistLast
  BY <1>3 DEF PersistLast, WorkStays, Entering, Working, IdleLoop
<1>4. CASE CancelSet
  BY <1>0, <1>4 DEF CancelSet, WorkStays, Entering, Working, LoopFrames
<1>5. CASE \E j \in Jobs : CancelCheck(j)
  BY <1>5 DEF CancelCheck, LoopFree, WorkStays, Entering, Working, IdleLoop
<1>6. CASE \E w \in Workers : \/ Start(w) \/ PersistStart(w) \/ EngineEnds(w) \/ ReadFlag(w)
                              \/ PersistFinal(w) \/ Release(w)
  <2>1. PICK w \in Workers : \/ Start(w) \/ PersistStart(w) \/ EngineEnds(w) \/ ReadFlag(w)
                             \/ PersistFinal(w) \/ Release(w)
    BY <1>6, Zenon
  <2>2. ~Finish(w)
    BY <2>1 DEF Finish, Start, PersistStart, EngineEnds, EngineReturns, EngineInterrupted,
                EngineFails, ReadFlag, PersistFinal, Release
  <2>3. Working(w)' => Running(w)'
    BY DEF Working, Running
  <2> QED
    BY <2>1, <2>2, <2>3, ThreadGoesOn DEF WorkStays, Working, Entering
<1>7. CASE \/ UNCHANGED vars
           \/ \E j \in Jobs : ResumeCheck(j) \/ PollJob(j) \/ (ResumeBody(j) /\ ~checkpoint[j])
           \/ \E w \in Workers : EngineCheckpoints(w)
  BY <1>1, <1>7 DEF vars, ResumeCheck, PollJob, ResumeBody, EngineCheckpoints
<1> QED
  BY <1>2, <1>3, <1>4, <1>5, <1>6, <1>7, Zenon

\* Where tasks stay, so does the work of each job.
LEMMA WorkStaysInWork == ASSUME WorkStays PROVE \A j \in Jobs : InWork(j)' <=> InWork(j)
  BY DEF WorkStays, InWork, Queued

\* A status read is never "queued" or "running" unless it was before.
LEMMA BusyStep == ASSUME IInv, [Next]_vars PROVE BusyIsInWork'
<1> DEFINE InHandFor(k) == InWork(k) \/ (loop.at = "cancel_set" /\ loop.job = k)
<1>0. /\ TypeOK /\ loop \in LoopFrames /\ worker \in [Workers -> WorkerFrames]
      /\ \A k \in Jobs : registry[k].status \in {"queued", "running"} => InHandFor(k)
  BY DEF IInv, Frames, BusyIsInWork
<1>00. Untracked.status \notin {"queued", "running"}
  BY StatusTells DEF ActiveStatuses
<1> SUFFICES ASSUME NEW k \in Jobs, registry'[k].status \in {"queued", "running"}
             PROVE  InHandFor(k)'
  BY DEF BusyIsInWork
<1>1. ASSUME NEW j \in Jobs, Gets(j) PROVE InHandFor(k)
  BY <1>0, <1>00, <1>1 DEF Gets
<1>2. ASSUME NEW j \in Jobs, NEW s, Sets(j, s), k # j PROVE InHandFor(k)
  BY <1>0, <1>00, <1>2 DEF Sets
<1>3. ASSUME UNCHANGED registry PROVE InHandFor(k)
  BY <1>0, <1>3
<1>4. CASE PersistQueued \/ PersistLast
  <2>1. InHandFor(k) /\ loop.at # "cancel_set"
    BY <1>3, <1>4 DEF PersistQueued, PersistLast
  <2> QED
    BY <1>4, <2>1, StepsThatKeepTasks, WorkStaysInWork
<1>5. CASE CancelSet
  <2>1. Sets(loop.job, "cancellation_requested") /\ loop.job \in Jobs
    BY <1>0, <1>5, StatusesSet DEF CancelSet, TypeOK
  <2>2. k # loop.job
    BY <2>1 DEF Sets
  <2>3. InWork(k)
    BY <1>2, <2>1, <2>2
  <2> QED
    BY <1>5, <2>3, StepsThatKeepTasks, WorkStaysInWork
<1>6. CASE Submit
  <2>1. InWork(k)
    BY <1>1, <1>6, StatusesRead DEF Submit
  <2>2. CASE Entering(k)
    BY <1>6, <2>2, SubmitEffect DEF Entering, InWork, Queued
  <2>3. CASE ~Entering(k)
    <3>1. Queued(k) => Queued(k)'
      BY <1>6, SubmitEffect DEF Queued
    <3> QED
      BY <1>6, <2>1, <2>3, <3>1, SubmitEffect DEF InWork, Working
  <2> QED
    BY <2>2, <2>3
<1>7. CASE Reject
  <2>1. Sets(loop.job, "rejected") /\ loop.job \in Jobs
    BY <1>0, <1>7, StatusesSet DEF Reject, TypeOK
  <2>2. k # loop.job
    BY <2>1 DEF Sets
  <2>3. InWork(k) /\ ~Entering(k)
    BY <1>2, <1>7, <2>1, <2>2 DEF Reject, Entering
  <2> QED
    BY <1>7, <2>3 DEF Reject, InWork, Queued, Working
<1>8. CASE CancelFuture
  <2>1. CASE k = loop.job
    BY <1>8, <2>1, CancelFutureEffect
  <2>2. CASE k # loop.job
    <3>1. InWork(k) /\ ~Entering(k)
      BY <1>3, <1>8, <2>2 DEF CancelFuture, Entering
    <3>2. Queued(k) => Queued(k)'
      BY <1>8, <2>2, CancelFutureEffect DEF Queued
    <3> QED
      BY <1>8, <3>1, <3>2, CancelFutureEffect DEF InWork, Working
  <2> QED
    BY <2>1, <2>2
<1>9. ASSUME NEW j \in Jobs, CreateJob(j) \/ ResumeBody(j) PROVE InHandFor(k)'
  <2>1. loop.at = "free" /\ UNCHANGED <<queue, worker>>
    BY <1>9 DEF CreateJob, ResumeBody, LoopFree
  <2>2. CASE UNCHANGED <<registry, loop>>
    <3>1. InHandFor(k)
      BY <1>3, <2>2
    <3> QED
      BY <2>1, <2>2, <3>1 DEF InWork, Queued, Working, Entering
  <2>3. CASE ~UNCHANGED <<registry, loop>>
    <3>1. loop'.at = "persist_queued" /\ loop'.job = j /\ (UNCHANGED registry \/ Sets(j, "queued"))
      BY <1>9, <2>3, StatusesSet DEF CreateJob, ResumeBody
    <3>2. CASE k = j
      BY <3>1, <3>2 DEF InWork, Entering
    <3>3. CASE k # j
      <4>1. InWork(k) /\ ~Entering(k)
        BY <1>2, <1>3, <2>1, <3>1, <3>3 DEF Entering
      <4> QED
        BY <2>1, <4>1 DEF InWork, Queued, Working
    <3> QED
      BY <3>2, <3>3
  <2> QED
    BY <2>2, <2>3
<1>10. ASSUME NEW j \in Jobs, ResumeCheck(j) \/ CancelCheck(j) \/ PollJob(j) PROVE InHandFor(k)'
  <2>1. InWork(k)
    BY <1>1, <1>10, StatusesRead DEF ResumeCheck, CancelCheck, PollJob, LoopFree
  <2> QED
    BY SMTT(40), <1>10, <2>1, StepsThatKeepTasks, WorkStaysInWork
<1>11. ASSUME NEW w \in Workers, TakeTask(w) PROVE InHandFor(k)'
  <2>1. InHandFor(k) /\ UNCHANGED loop
    BY <1>3, <1>11 DEF TakeTask
  <2>2. CASE Queued(k)
    <3>1. PICK m \in DOMAIN queue : queue[m].job = k
      BY <2>2 DEF Queued
    <3>2. CASE m = 1
      BY <1>11, <3>1, <3>2, TakeTaskEffect DEF InWork, Working
    <3>3. CASE m # 1
      BY <1>11, <3>1, <3>3, TakeTaskEffect DEF InWork, Queued
    <3> QED
      BY <3>2, <3>3
  <2>3. CASE \E v \in Workers : Working(v) /\ worker[v].job = k
    <3>1. PICK v \in Workers : Working(v) /\ worker[v].job = k
      BY <2>3
    <3>2. v # w
      BY <1>11, <3>1, TakeTaskEffect DEF Working
    <3> QED
      BY <1>11, <3>1, <3>2, TakeTaskEffect DEF InWork, Working
  <2>4. CASE Entering(k) \/ (loop.at = "cancel_set" /\ loop.job = k)
    BY <2>1, <2>4 DEF InWork, Entering
  <2> QED
    BY <2>1, <2>2, <2>3, <2>4 DEF InWork
<1>12. ASSUME NEW w \in Workers, Start(w) PROVE InHandFor(k)'
  <2>1. UNCHANGED loop /\ worker[w].job \in Jobs /\ Working(w)
    BY <1>0, <1>12 DEF Start, TypeOK, Working
  <2>2. InHandFor(k)
    <3>1. CASE k = worker[w].job
      BY <2>1, <3>1 DEF InWork
    <3>2. CASE k # worker[w].job
      <4>1. \E s : Sets(worker[w].job, s)
        BY <1>12, StatusesSet
      <4> QED
        BY <1>2, <2>1, <3>2, <4>1
    <3> QED
      BY <3>1, <3>2
  <2> QED
    BY <1>12, <2>1, <2>2, StepsThatKeepTasks, WorkStaysInWork
<1>13. ASSUME NEW w \in Workers, Finish(w) PROVE InHandFor(k)'
  <2>1. PICK s \in TerminalStatuses : Sets(worker[w].job, s)
    BY <1>13, StatusesSet
  <2>2. /\ k # worker[w].job /\ worker[w].job \in Jobs
    BY <1>0, <1>13, <2>1, StatusTells DEF Sets, Finish, TypeOK, ActiveStatuses
  <2>3. InHandFor(k)
    BY <1>2, <2>1, <2>2
  <2>4. \A v \in Workers : Working(v) /\ worker[v].job = k => Working(v)' /\ worker'[v].job = k
    BY <1>13, <2>2, ThreadGoesOn DEF Working
  <2>5. UNCHANGED <<queue, loop>>
    BY <1>13, ThreadGoesOn
  <2> QED
    BY <2>3, <2>4, <2>5 DEF InWork, Queued, Entering
<1>14. ASSUME NEW w \in Workers, \/ PersistStart(w) \/ EngineEnds(w) \/ ReadFlag(w) \/ PersistFinal(w)
                                 \/ Release(w) \/ EngineCheckpoints(w)
       PROVE  InHandFor(k)'
  <2>1. UNCHANGED loop
    BY <1>14 DEF PersistStart, EngineEnds, EngineReturns, EngineInterrupted, EngineFails,
                 ReadFlag, PersistFinal, Release, EngineCheckpoints
  <2>2. CASE ReadFlag(w)
    <3>1. InHandFor(k)
      BY <1>1, <2>2, StatusesRead
    <3> QED
      BY <1>14, <2>1, <3>1, StepsThatKeepTasks, WorkStaysInWork
  <2>3. CASE ~ReadFlag(w)
    <3>1. UNCHANGED registry
      BY <1>14, <2>3 DEF PersistStart, EngineEnds, EngineReturns, EngineInterrupted, EngineFails,
                 PersistFinal, Release, EngineCheckpoints
    <3>2. InHandFor(k)
      BY <1>3, <3>1
    <3> QED
      BY <1>14, <2>1, <3>2, StepsThatKeepTasks, WorkStaysInWork
  <2> QED
    BY <2>2, <2>3
<1>15. CASE Restart
  BY <1>00, <1>15 DEF Restart
<1>16. CASE UNCHANGED vars
  <2>1. InHandFor(k) /\ UNCHANGED loop
    BY <1>3, <1>16 DEF vars
  <2> QED
    BY <1>16, <2>1, StepsThatKeepTasks, WorkStaysInWork
<1> QED
  BY <1>4, <1>5, <1>6, <1>7, <1>8, <1>9, <1>10, <1>11, <1>12, <1>13, <1>14, <1>15, <1>16
     DEF Next, Handler, Request, WorkerStep

---------------------------------------------------------------------------
(* The inductive invariant *)

\* It holds before the first request.
LEMMA InitIInv == Init => IInv /\ SInv
<1> SUFFICES ASSUME Init PROVE IInv /\ SInv
  OBVIOUS
<1>1. /\ IdleWorker \in WorkerFrames /\ IdleWorker.at = "idle"
      /\ IdleLoop \in LoopFrames /\ IdleLoop.at = "free"
  BY DEF IdleWorker, WorkerFrames, IdleLoop, LoopFrames
<1>2. \A w \in Workers : worker[w] = IdleWorker /\ worker[w].at = "idle"
  BY <1>1 DEF Init
<1>3. queue = <<>> /\ queue \in Seq(Tasks) /\ Len(queue) = 0 /\ DOMAIN queue = {}
  BY EmptySeq DEF Init
<1>4. TypeOK
  <2>1. permits \in 0..Capacity /\ 0 \in 0..MaxAwaiting
    BY CapacityIsANumber DEF Init
  <2> QED
    BY <1>1, <1>2, <1>3, <2>1 DEF Init, TypeOK
<1>5. Frames
  BY <1>1, <1>2 DEF Init, Frames
<1>6. PermitsMatchLoad
  <2>1. Busy = 0
    <3>1. {w \in Workers : Running(w)} = {}
      BY <1>2 DEF Running
    <3> QED
      BY <3>1, FS_EmptySet DEF Busy
  <2> QED
    BY <1>1, <1>3, <2>1, CapacityIsANumber DEF Init, PermitsMatchLoad, Busy
<1>7. KnownIsOnDisk
  BY <1>1, <1>2, <1>3 DEF Init, KnownIsOnDisk, AcceptedJobIsOnDisk, Running
<1>8. \A j \in Jobs : registry[j].status = "none"
  BY DEF Init, Untracked
<1>9. BusyIsInWork
  BY <1>8 DEF BusyIsInWork
<1>10. SInv
  BY <1>1, <1>2, <1>3 DEF Init, SInv, OneTask, WorkIsActive, Working, Queued, Entering, InWork
<1> QED
  BY <1>4, <1>5, <1>6, <1>7, <1>9, <1>10 DEF IInv

\* Every request and every step of handlers and threads preserves the part that needs no
\* assumption on the resume requests.
LEMMA InductiveStep == IInv /\ [Next]_vars => IInv'
  BY TypeStep, LoadStep, KnownStep, BusyStep DEF IInv

\* After a restart no task is left.
LEMMA RestartClears == ASSUME Restart, NEW k \in Jobs PROVE OneTask(k)' /\ ~InWork(k)'
<1>1. \A w \in Workers : ~Working(w)'
  BY DEF Restart, IdleWorker, Working
<1>2. DOMAIN queue' = {} /\ ~Entering(k)'
  BY EmptySeq DEF Restart, IdleLoop, Entering
<1> QED
  BY <1>1, <1>2 DEF OneTask, InWork, Queued, Working

\* No job gets a second task while it has one.
LEMMA OneTaskStep ==
  ASSUME IInv, [Next]_vars, NEW k \in Jobs, OneTask(k), WorkIsActive(k)
  PROVE  OneTask(k)'
<1>0. /\ TypeOK /\ OneTask(k)
      /\ InWork(k) => registry[k].status \in ActiveStatuses /\ awaiting[k] = 0
  BY DEF IInv, WorkIsActive
<1>1. CASE WorkStays
  <2>1. \A v \in Workers : Working(v)' => Working(v) /\ worker'[v].job = worker[v].job
    BY <1>1 DEF WorkStays
  <2>2. (Queued(k)' <=> Queued(k)) /\ (Entering(k)' <=> Entering(k))
    BY <1>1 DEF WorkStays, Queued
  <2> QED
    BY <1>0, <1>1, <2>1, <2>2 DEF OneTask, WorkStays
<1>2. CASE Submit
  <2>1. ~Entering(k)'
    BY <1>2, SubmitEffect DEF Entering
  <2>2. loop.job = k => ~Queued(k) /\ \A w \in Workers : Working(w) => worker[w].job # k
    BY <1>0, <1>2 DEF OneTask, Entering, Submit
  <2>3. \A m, n \in DOMAIN queue' : queue'[m].job = k /\ queue'[n].job = k => m = n
    BY <1>0, <1>2, <2>2, SubmitEffect DEF OneTask, Queued
  <2>4. \A w \in Workers : Working(w)' /\ worker'[w].job = k => ~Queued(k)'
    BY <1>0, <1>2, <2>2, SubmitEffect DEF OneTask, Queued, Working
  <2>5. \A v, w \in Workers :
          Working(v)' /\ Working(w)' /\ worker'[v].job = k /\ worker'[w].job = k => v = w
    BY <1>0, <1>2, SubmitEffect DEF OneTask, Working
  <2> QED
    BY <2>1, <2>3, <2>4, <2>5 DEF OneTask
<1>3. CASE Reject
  <2>1. ~Entering(k)'
    BY <1>3 DEF Reject, IInv, Frames, LoopFrames, Entering
  <2>2. UNCHANGED <<queue, worker>>
    BY <1>3 DEF Reject
  <2> QED
    BY <1>0, <2>1, <2>2 DEF OneTask, Queued, Working
<1>4. CASE CancelFuture
  <2>1. ~Entering(k)' /\ (Queued(k)' => Queued(k))
    BY <1>4, CancelFutureEffect DEF Entering, Queued
  <2>2. \A m, n \in DOMAIN queue' : queue'[m].job = k /\ queue'[n].job = k => m = n
    BY <1>0, <1>4, CancelFutureEffect DEF OneTask
  <2>3. worker' = worker
    BY <1>4, CancelFutureEffect
  <2> QED
    BY <1>0, <2>1, <2>2, <2>3 DEF OneTask, Working
<1>5. ASSUME NEW j \in Jobs, j = k => ~InWork(k), UNCHANGED <<queue, worker>>,
             Entering(k)' => k = j
      PROVE  OneTask(k)'
  <2>1. CASE j = k
    <3>1. ~Queued(k) /\ \A w \in Workers : Working(w) => worker[w].job # k
      BY <1>5, <2>1 DEF InWork
    <3> QED
      BY <1>0, <1>5, <3>1 DEF OneTask, Working, Queued
  <2>2. CASE j # k
    BY <1>0, <1>5, <2>2 DEF OneTask, Working, Queued
  <2> QED
    BY <2>1, <2>2
<1>6. ASSUME NEW j \in Jobs, CreateJob(j) PROVE OneTask(k)'
  <2>1. registry[j].status \notin ActiveStatuses
    BY <1>6, StatusTells DEF CreateJob
  <2>2. (j = k => ~InWork(k)) /\ UNCHANGED <<queue, worker>>
    BY <1>0, <1>6, <2>1 DEF CreateJob
  <2>3. Entering(k)' => k = j
    BY <1>6 DEF CreateJob, Entering
  <2> QED
    BY <1>5, <2>2, <2>3
<1>7. ASSUME NEW j \in Jobs, ResumeBody(j), checkpoint[j] PROVE OneTask(k)'
  <2>1. (j = k => ~InWork(k)) /\ UNCHANGED <<queue, worker>>
    BY <1>0, <1>7 DEF ResumeBody
  <2>2. Entering(k)' => k = j
    BY <1>7 DEF ResumeBody, Entering
  <2> QED
    BY <1>5, <2>1, <2>2
<1>8. ASSUME NEW w \in Workers, TakeTask(w) PROVE OneTask(k)'
  <2>1. \A v \in Workers : Working(v)' => v = w \/ (Working(v) /\ worker'[v] = worker[v])
    BY <1>8, TakeTaskEffect DEF Working
  <2>2. worker'[w].job = queue[1].job /\ Queued(queue[1].job)
    BY <1>8, TakeTaskEffect DEF Queued
  <2>3. queue[1].job = k => /\ \A v \in Workers : Working(v) => worker[v].job # k
                            /\ ~Entering(k)
    BY <1>0, <2>2 DEF OneTask
  <2>4. \A u, v \in Workers :
          Working(u)' /\ Working(v)' /\ worker'[u].job = k /\ worker'[v].job = k => u = v
    BY <1>0, <2>1, <2>2, <2>3 DEF OneTask
  <2>5. \A m, n \in DOMAIN queue' : queue'[m].job = k /\ queue'[n].job = k => m = n
    BY <1>0, <1>8, TakeTaskEffect DEF OneTask
  <2>6. queue[1].job = k => \A n \in DOMAIN queue' : queue'[n].job # k
    BY <1>0, <1>8, TakeTaskEffect DEF OneTask
  <2>7. (Queued(k)' => Queued(k)) /\ (Entering(k)' <=> Entering(k))
    BY <1>8, TakeTaskEffect DEF Queued, Entering
  <2>8. ASSUME NEW v \in Workers, Working(v)', worker'[v].job = k
        PROVE  ~Queued(k)' /\ ~Entering(k)'
    <3>1. CASE v = w
      BY <2>2, <2>3, <2>6, <2>7, <2>8, <3>1 DEF Queued
    <3>2. CASE v # w
      BY <1>0, <2>1, <2>7, <2>8, <3>2 DEF OneTask
    <3> QED
      BY <3>1, <3>2
  <2> QED
    BY <1>0, <2>4, <2>5, <2>7, <2>8 DEF OneTask
<1>9. ASSUME NEW w \in Workers, Finish(w) PROVE OneTask(k)'
  <2>1. \A v \in Workers : Working(v)' => Working(v) /\ worker'[v] = worker[v]
    BY <1>9, ThreadGoesOn DEF Working
  <2>2. UNCHANGED <<queue, loop>>
    BY <1>9, ThreadGoesOn
  <2> QED
    BY <1>0, <2>1, <2>2 DEF OneTask, Queued, Entering
<1>10. CASE \/ PersistQueued \/ PersistLast \/ CancelSet \/ UNCHANGED vars
            \/ \E j \in Jobs : \/ ResumeCheck(j) \/ CancelCheck(j) \/ PollJob(j)
                               \/ ResumeBody(j) /\ ~checkpoint[j]
            \/ \E w \in Workers : \/ Start(w) \/ PersistStart(w) \/ EngineEnds(w) \/ ReadFlag(w)
                                  \/ PersistFinal(w) \/ Release(w) \/ EngineCheckpoints(w)
  BY <1>1, <1>10, StepsThatKeepTasks
<1> QED
  BY <1>2, <1>3, <1>4, <1>6, <1>7, <1>8, <1>9, <1>10, RestartClears
     DEF Next, Handler, Request, WorkerStep

\* A job with a task on its way is active, and no resume request of it is suspended.
LEMMA ActiveStep ==
  ASSUME IInv, [Next]_vars, NEW k \in Jobs, OneTask(k), WorkIsActive(k), awaiting[k] <= 1
  PROVE  WorkIsActive(k)'
<1>0. /\ TypeOK /\ OneTask(k) /\ awaiting \in [Jobs -> Nat] /\ awaiting[k] <= 1
      /\ InWork(k) => registry[k].status \in ActiveStatuses /\ awaiting[k] = 0
  BY DEF IInv, WorkIsActive, TypeOK
<1> SUFFICES ASSUME InWork(k)'
             PROVE  registry'[k].status \in ActiveStatuses /\ awaiting'[k] = 0
  BY DEF WorkIsActive
<1>1. ASSUME InWork(k), UNCHANGED <<registry, awaiting>>
      PROVE  registry'[k].status \in ActiveStatuses /\ awaiting'[k] = 0
  BY <1>0, <1>1
<1>2. ASSUME InWork(k), NEW j \in Jobs, Gets(j) PROVE registry'[k].status \in ActiveStatuses
  BY <1>0, <1>2 DEF Gets
<1>3. ASSUME InWork(k), NEW j \in Jobs, NEW s, Sets(j, s), k # j \/ s \in ActiveStatuses
      PROVE  registry'[k].status \in ActiveStatuses
  BY <1>0, <1>3, StatusTells DEF Sets
<1>4. CASE PersistQueued \/ PersistLast \/ UNCHANGED vars
  <2>1. UNCHANGED <<registry, awaiting>>
    BY <1>4 DEF PersistQueued, PersistLast, vars
  <2> QED
    BY <1>1, <1>4, <2>1, StepsThatKeepTasks, WorkStaysInWork
<1>5. CASE CancelSet
  <2>1. UNCHANGED awaiting /\ InWork(k)
    BY <1>5, StepsThatKeepTasks, WorkStaysInWork DEF CancelSet
  <2>2. Sets(loop.job, "cancellation_requested") /\ loop.job \in Jobs
    BY <1>0, <1>5, StatusesSet DEF CancelSet, TypeOK
  <2>3. "cancellation_requested" \in ActiveStatuses
    BY StatusTells
  <2> QED
    BY <1>0, <1>3, <2>1, <2>2, <2>3
<1>6. CASE Submit
  <2>1. InWork(k)
    <3>1. CASE Queued(k)'
      <4>1. PICK n \in DOMAIN queue' : queue'[n].job = k
        BY <3>1 DEF Queued
      <4>2. CASE n \in DOMAIN queue
        BY <1>6, <4>1, <4>2, SubmitEffect DEF InWork, Queued
      <4>3. CASE n = Len(queue) + 1
        BY <1>6, <4>1, <4>3, SubmitEffect DEF InWork, Entering, Submit
      <4> QED
        BY <1>6, <4>2, <4>3, SubmitEffect
    <3>2. CASE ~Queued(k)'
      BY <1>6, <3>2, SubmitEffect DEF InWork, Entering, Working
    <3> QED
      BY <3>1, <3>2
  <2>2. UNCHANGED awaiting /\ loop.job \in Jobs /\ Gets(loop.job)
    BY <1>6, StatusesRead DEF Submit
  <2> QED
    BY <1>0, <1>2, <2>1, <2>2
<1>7. CASE Reject
  <2>1. /\ UNCHANGED <<queue, worker, awaiting>> /\ loop.job \in Jobs /\ Sets(loop.job, "rejected")
        /\ \A j : ~Entering(j)'
    BY <1>0, <1>7, StatusesSet DEF Reject, TypeOK, IInv, Frames, LoopFrames, Entering
  <2>2. InWork(k) /\ (Queued(k) \/ \E w \in Workers : Working(w) /\ worker[w].job = k)
    BY <2>1 DEF InWork, Queued, Working
  <2>3. loop.job = k => ~Queued(k) /\ \A w \in Workers : Working(w) => worker[w].job # k
    BY <1>0, <1>7, <2>1 DEF OneTask, Reject, Entering
  <2>4. k # loop.job
    BY <2>2, <2>3
  <2> QED
    BY <1>0, <1>3, <2>1, <2>2, <2>4
<1>8. CASE CancelFuture
  <2>1. UNCHANGED <<registry, awaiting>>
    BY <1>8 DEF CancelFuture
  <2>2. InWork(k)
    BY <1>8, CancelFutureEffect DEF InWork, Queued, Entering, Working
  <2> QED
    BY <1>1, <2>1, <2>2
<1>9. ASSUME NEW j \in Jobs, CreateJob(j)
      PROVE  registry'[k].status \in ActiveStatuses /\ awaiting'[k] = 0
  <2>1. /\ UNCHANGED <<queue, worker, awaiting>> /\ Sets(j, "queued") /\ "queued" \in ActiveStatuses
        /\ loop'.job = j
    BY <1>9, StatusesSet, StatusTells DEF CreateJob
  <2>2. CASE k = j
    <3>1. ~(awaiting[j] > 0)
      BY <1>9 DEF CreateJob, IInv, KnownIsOnDisk
    <3> QED
      BY <1>0, <2>1, <2>2, <3>1 DEF Sets
  <2>3. CASE k # j
    <3>1. InWork(k)
      BY <2>1, <2>3 DEF InWork, Queued, Entering, Working
    <3> QED
      BY <1>0, <1>3, <2>1, <2>3, <3>1
  <2> QED
    BY <2>2, <2>3
<1>10. ASSUME NEW j \in Jobs, ResumeBody(j)
       PROVE  registry'[k].status \in ActiveStatuses /\ awaiting'[k] = 0
  <2>1. /\ UNCHANGED <<queue, worker>>
        /\ k = j => awaiting'[k] = 0
        /\ k # j => awaiting'[k] = awaiting[k]
    <3>1. CASE k = j
      <4>1. awaiting[j] > 0 /\ awaiting[j] <= 1 /\ awaiting[j] \in Nat
        BY <1>0, <1>10, <3>1 DEF ResumeBody
      <4>2. awaiting[j] = 1 /\ awaiting[j] - 1 = 0
        BY <4>1
      <4> QED
        BY <1>0, <1>10, <3>1, <4>2 DEF ResumeBody
    <3>2. CASE k # j
      BY <1>0, <1>10, <3>2 DEF ResumeBody
    <3> QED
      BY <3>1, <3>2
  <2>2. CASE checkpoint[j]
    <3>1. loop'.at = "persist_queued" /\ loop'.job = j
      BY <1>10, <2>2 DEF ResumeBody
    <3>2. Sets(j, "queued") /\ "queued" \in ActiveStatuses
      <4> DEFINE update == [status |-> "queued", cancel |-> FALSE]
      <4>1. SetJob(j, update)
        BY <1>10, <2>2 DEF ResumeBody
      <4>2. /\ update.status = "queued" /\ update.status \in Statuses /\ update.cancel \in BOOLEAN
            /\ "rooted" \notin DOMAIN update
        BY StatusTells
      <4> HIDE DEF update
      <4>3. Sets(j, update.status)
        BY <1>0, <4>1, <4>2, SetJobEffect
      <4> QED
        BY <4>2, <4>3, StatusTells
    <3>3. CASE k = j
      BY <2>1, <3>2, <3>3 DEF Sets
    <3>4. CASE k # j
      <4>1. InWork(k)
        BY <2>1, <3>1, <3>4 DEF InWork, Queued, Entering, Working
      <4> QED
        BY <1>0, <1>3, <2>1, <3>2, <3>4, <4>1
    <3> QED
      BY <3>3, <3>4
  <2>3. CASE ~checkpoint[j]
    <3>1. UNCHANGED registry /\ InWork(k)
      BY <1>10, <2>3, StepsThatKeepTasks, WorkStaysInWork DEF ResumeBody
    <3> QED
      BY <1>0, <2>1, <3>1
  <2> QED
    BY <2>2, <2>3
<1>11. ASSUME NEW j \in Jobs, ResumeCheck(j)
       PROVE  registry'[k].status \in ActiveStatuses /\ awaiting'[k] = 0
  <2>1. InWork(k) /\ Gets(j)
    BY <1>11, StepsThatKeepTasks, WorkStaysInWork, StatusesRead
  <2>2. registry'[k].status \in ActiveStatuses
    BY <1>2, <2>1
  <2>3. awaiting'[k] = awaiting[k]
    <3>1. CASE k = j
      BY <1>11, <2>2, <3>1, StatusTells DEF ResumeCheck
    <3>2. CASE k # j
      BY <1>0, <1>11, <3>2 DEF ResumeCheck
    <3> QED
      BY <3>1, <3>2
  <2> QED
    BY <1>0, <2>1, <2>2, <2>3
<1>12. ASSUME NEW j \in Jobs, CancelCheck(j) \/ PollJob(j)
       PROVE  registry'[k].status \in ActiveStatuses /\ awaiting'[k] = 0
  <2>1. InWork(k) /\ Gets(j) /\ UNCHANGED awaiting
    BY <1>12, StepsThatKeepTasks, WorkStaysInWork, StatusesRead DEF CancelCheck, PollJob
  <2> QED
    BY SMTT(40), <1>0, <1>2, <2>1
<1>13. ASSUME NEW w \in Workers, TakeTask(w)
       PROVE  registry'[k].status \in ActiveStatuses /\ awaiting'[k] = 0
  <2>1. UNCHANGED <<registry, awaiting>>
    BY <1>13 DEF TakeTask
  <2>2. Queued(k)' => Queued(k)
    BY <1>13, TakeTaskEffect DEF Queued
  <2>3. Entering(k)' => Entering(k)
    BY <1>13, TakeTaskEffect DEF Entering
  <2>4. ASSUME NEW v \in Workers, Working(v)', worker'[v].job = k PROVE InWork(k)
    <3>1. CASE v = w
      BY <1>13, <2>4, <3>1, TakeTaskEffect DEF InWork, Queued
    <3>2. CASE v # w
      BY <1>13, <2>4, <3>2, TakeTaskEffect DEF InWork, Working
    <3> QED
      BY <3>1, <3>2
  <2>5. InWork(k)
    BY <2>2, <2>3, <2>4 DEF InWork
  <2> QED
    BY <1>1, <2>1, <2>5
<1>14. ASSUME NEW w \in Workers, Start(w)
       PROVE  registry'[k].status \in ActiveStatuses /\ awaiting'[k] = 0
  <2>1. InWork(k) /\ UNCHANGED awaiting
    BY <1>14, StepsThatKeepTasks, WorkStaysInWork DEF Start
  <2>2. PICK s \in {"running", "resuming"} : Sets(worker[w].job, s)
    BY <1>14, StatusesSet
  <2>3. worker[w].job \in Jobs /\ s \in ActiveStatuses
    BY <1>0, <1>14, StatusTells DEF Start, TypeOK
  <2> QED
    BY <1>0, <1>3, <2>1, <2>2, <2>3
<1>15. ASSUME NEW w \in Workers, Finish(w)
       PROVE  registry'[k].status \in ActiveStatuses /\ awaiting'[k] = 0
  <2>1. UNCHANGED <<queue, loop, awaiting>> /\ Working(w) /\ ~Working(w)'
        /\ \A v \in Workers \ {w} : worker'[v] = worker[v]
    BY <1>15, ThreadGoesOn
  <2>2. PICK s : Sets(worker[w].job, s)
    BY <1>15, StatusesSet
  <2>3. worker[w].job \in Jobs
    BY <1>0, <1>15 DEF Finish, TypeOK
  <2>4. worker[w].job = k => /\ ~Queued(k) /\ ~Entering(k)
                             /\ \A v \in Workers \ {w} : Working(v) => worker[v].job # k
    BY <1>0, <2>1 DEF OneTask
  <2>5. Queued(k) \/ Entering(k) \/ \E v \in Workers \ {w} : Working(v) /\ worker[v].job = k
    BY <2>1 DEF InWork, Queued, Entering, Working
  <2>6. k # worker[w].job /\ InWork(k)
    BY <2>4, <2>5 DEF InWork
  <2> QED
    BY <1>0, <1>3, <2>1, <2>2, <2>3, <2>6
<1>16. ASSUME NEW w \in Workers, ReadFlag(w)
       PROVE  registry'[k].status \in ActiveStatuses /\ awaiting'[k] = 0
  <2>1. InWork(k) /\ worker[w].job \in Jobs /\ Gets(worker[w].job) /\ UNCHANGED awaiting
    BY <1>16, StepsThatKeepTasks, WorkStaysInWork, StatusesRead DEF ReadFlag
  <2> QED
    BY <1>0, <1>2, <2>1
<1>17. ASSUME NEW w \in Workers, \/ PersistStart(w) \/ EngineEnds(w) \/ PersistFinal(w)
                                 \/ Release(w) \/ EngineCheckpoints(w)
       PROVE  registry'[k].status \in ActiveStatuses /\ awaiting'[k] = 0
  <2>1. UNCHANGED <<registry, awaiting>>
    BY <1>17 DEF PersistStart, EngineEnds, EngineReturns, EngineInterrupted, EngineFails,
                 PersistFinal, Release, EngineCheckpoints
  <2> QED
    BY <1>1, <1>17, <2>1, StepsThatKeepTasks, WorkStaysInWork
<1>18. CASE Restart
  BY <1>18, EmptySeq DEF Restart, InWork, Queued, Entering, Working, IdleWorker, IdleLoop
<1> QED
  BY <1>4, <1>5, <1>6, <1>7, <1>8, <1>9, <1>10, <1>11, <1>12, <1>13, <1>14, <1>15, <1>16, <1>17, <1>18
     DEF Next, Handler, Request, WorkerStep

\* A second suspended request of a job is recorded.
LEMMA AwaitedOnce ==
  ASSUME IInv, [Next]_vars, NEW k \in Jobs, k \notin overlapped', awaiting[k] <= 1
  PROVE  awaiting'[k] <= 1
<1>0. awaiting \in [Jobs -> Nat] /\ awaiting' \in [Jobs -> Nat]
  BY TypeStep DEF IInv, TypeOK
<1>1. CASE \E j \in Jobs : ResumeCheck(j)
  <2>1. PICK j \in Jobs : ResumeCheck(j)
    BY <1>1
  <2>2. CASE j = k
    BY <1>0, <2>1, <2>2 DEF ResumeCheck, Overlapping
  <2>3. CASE j # k
    BY <1>0, <2>1, <2>3 DEF ResumeCheck
  <2> QED
    BY <2>2, <2>3
<1>2. CASE \E j \in Jobs : ResumeBody(j)
  BY <1>0, <1>2 DEF ResumeBody
<1>3. CASE Restart
  BY <1>3 DEF Restart
<1>4. CASE Handler \/ UNCHANGED vars \/ \E j \in Jobs : CreateJob(j) \/ CancelCheck(j) \/ PollJob(j)
  <2>1. awaiting' = awaiting
    BY <1>4, ZenonT(40) DEF Handler, PersistQueued, Submit, Reject, PersistLast, CancelFuture, CancelSet,
                   vars, CreateJob, CancelCheck, PollJob
  <2> QED
    BY <2>1
<1>5. CASE \E w \in Workers : WorkerStep(w) \/ EngineCheckpoints(w)
  <2>1. awaiting' = awaiting
    BY <1>5, ZenonT(40) DEF WorkerStep, TakeTask, Start, PersistStart, EngineEnds, EngineReturns,
                   EngineInterrupted, EngineFails, ReadFlag, Finish, PersistFinal, Release,
                   EngineCheckpoints
  <2> QED
    BY <2>1
<1> QED
  BY <1>1, <1>2, <1>3, <1>4, <1>5 DEF Next, Request

\* What holds of a job alone is kept until two resume requests of it are suspended at once.
LEMMA AloneStep == ASSUME IInv, SInv, [Next]_vars PROVE SInv'
<1> SUFFICES ASSUME NEW k \in Jobs, k \notin overlapped'
             PROVE  OneTask(k)' /\ WorkIsActive(k)' /\ awaiting'[k] <= 1
  BY DEF SInv
<1>1. CASE Restart
  <2>1. OneTask(k)' /\ ~InWork(k)'
    BY <1>1, RestartClears
  <2>2. awaiting'[k] = 0
    BY <1>1 DEF Restart
  <2> QED
    BY <2>1, <2>2 DEF WorkIsActive
<1>2. CASE ~Restart
  <2>1. k \notin overlapped
    BY <1>2, OverlapStep DEF IInv, TypeOK
  <2>2. OneTask(k) /\ WorkIsActive(k) /\ awaiting[k] <= 1
    BY <2>1 DEF SInv
  <2>3. OneTask(k)'
    BY <2>2, OneTaskStep
  <2>4. WorkIsActive(k)'
    BY <2>2, ActiveStep
  <2>5. awaiting'[k] <= 1
    BY <2>2, AwaitedOnce
  <2> QED
    BY <2>3, <2>4, <2>5
<1> QED
  BY <1>1, <1>2

\* The invariants hold throughout every behaviour.
THEOREM Invariance == Spec => []IInv
<1>1. Init => IInv
  BY InitIInv
<1> QED
  BY <1>1, InductiveStep, PTL DEF Spec

\* So does the other.
LEMMA OneTaskInvariance == Spec => []SInv
<1>1. Init => SInv
  BY InitIInv
<1>2. IInv /\ SInv /\ [Next]_vars => SInv'
  BY AloneStep
<1> QED
  BY <1>1, <1>2, Invariance, PTL DEF Spec

---------------------------------------------------------------------------
(* What the runs check, for every value of the constants *)

\* The variables keep their types.
THEOREM TypeCorrect == Spec => []TypeOK
  BY Invariance, PTL DEF IInv

\* A permit is taken exactly for each task queued or running, and lost for each task
\* cancelled in the queue, whatever is requested, cancelled or restarted.
THEOREM PermitsAreKept == Spec => []PermitsMatchLoad
<1>1. IInv => PermitsMatchLoad
  BY DEF IInv
<1> QED
  BY <1>1, Invariance, PTL

\* So the tasks queued or running never exceed the capacity of the executor.
THEOREM SemaphoreCapsTheLoad ==
  Spec => [](Len(queue) + Cardinality({w \in Workers : Running(w)}) <= Capacity)
<1>1. IInv => Len(queue) + Cardinality({w \in Workers : Running(w)}) <= Capacity
  <2> SUFFICES ASSUME IInv PROVE Len(queue) + Busy <= Capacity
    BY DEF Busy
  <2>1. permits + Len(queue) + Busy + leaked = Capacity
    BY DEF IInv, PermitsMatchLoad, Busy
  <2>2. permits \in Nat /\ Len(queue) \in Nat /\ Capacity \in Nat /\ leaked \in Nat
    BY CapacityIsANumber, LenProperties DEF IInv, TypeOK
  <2>3. Busy \in Nat
    <3>1. {w \in Workers : Running(w)} \in SUBSET Workers
      OBVIOUS
    <3> QED
      BY <3>1, FS_Subset, FS_CardinalityType DEF Busy
  <2> QED
    BY <2>1, <2>2, <2>3
<1> QED
  BY <1>1, Invariance, PTL

\* A job nobody works on is not reported as queued or running.
THEOREM NobodysJobIsNotRunning == Spec => []IdleJobIsNotRunning
<1>1. IInv => IdleJobIsNotRunning
  BY DEF IInv, BusyIsInWork, InWork, Queued, Entering, Working, IdleJobIsNotRunning, InHand, Running
<1> QED
  BY <1>1, Invariance, PTL

\* A task is only handed to the pool once the job's status file exists.
THEOREM TasksHaveStatusFiles == Spec => []AcceptedJobIsOnDisk
<1>1. IInv => AcceptedJobIsOnDisk
  BY DEF IInv, KnownIsOnDisk
<1> QED
  BY <1>1, Invariance, PTL

\* Two engines meet in one job directory only where two resume requests of the job were
\* suspended at once, for any number of requests, workers and jobs.
THEOREM EnginesDoNotShareAJob == Spec => []EnginesMeetByOverlap
<1>1. IInv /\ SInv => EnginesMeetByOverlap
  <2> SUFFICES ASSUME IInv, SInv, NEW v \in Workers, NEW w \in Workers,
                      worker[v].at = "engine", worker[w].at = "engine",
                      worker[v].job = worker[w].job, worker[v].job \notin overlapped
               PROVE  v = w
    BY DEF EnginesMeetByOverlap
  <2>1. worker[v].job \in Jobs \ overlapped /\ Working(v) /\ Working(w)
    BY DEF IInv, TypeOK, Working
  <2> QED
    BY <2>1 DEF SInv, OneTask
<1> QED
  BY <1>1, Invariance, OneTaskInvariance, PTL

\* With the same exception, no engine works for a job whose status is terminal.
THEOREM TerminalJobsHaveStopped == Spec => []TerminalMeansStopped
<1>1. IInv /\ SInv => TerminalMeansStopped
  <2> SUFFICES ASSUME IInv, SInv, NEW w \in Workers, worker[w].at = "engine",
                      worker[w].job \notin overlapped
               PROVE  registry[worker[w].job].status \notin TerminalStatuses
    BY DEF TerminalMeansStopped
  <2>1. worker[w].job \in Jobs \ overlapped /\ InWork(worker[w].job)
    BY DEF IInv, TypeOK, InWork, Working
  <2> QED
    BY <2>1, StatusTells DEF SInv, WorkIsActive
<1> QED
  BY <1>1, Invariance, OneTaskInvariance, PTL

===============================================================================
