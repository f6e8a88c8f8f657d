----------------------------- MODULE LivePersistence ----------------------------
(***************************************************************************)
(* WriteBehindObserver in front of LiveNexusStore: the controller freezes  *)
(* an update on its own thread and a worker thread makes it durable, in    *)
(* the order ledger sidecar, snapshot transaction, round file, candidate   *)
(* journal, event.  The final persist of the run follows a close.  Updates *)
(* are numbered in the order they are accepted within one session (one run *)
(* on the run directory, with an observer of its own); a new session       *)
(* starts after a crash, or beside the worker that a run which raised left *)
(* in the same process: nothing stops that thread or waits for it.         *)
(* As in DurableSteps the parts of the specification have a prefix.        *)
(***************************************************************************)
EXTENDS Naturals, Sequences

CONSTANTS MaxUpdates,  \* bound on the updates of a session
          MaxSessions  \* bound on the sessions

ASSUME LivePersistenceAssumption == MaxUpdates \in Nat \ {0} /\ MaxSessions \in Nat \ {0}

VARIABLES session,   \* sessions started
          caller,    \* what the controller thread does
          accepted,  \* updates put on the queue in this session
          queue,     \* batches the worker has not taken
          stage,     \* the worker's place in LiveNexusStore.write
          batch,     \* the batch it works on
          error,     \* the worker recorded an exception
          snapshot,  \* what CURRENT holds: session, update and run result
          journal,   \* updates in candidate-journal.jsonl, this session
          events,    \* updates in events.jsonl, this session
          left       \* for the earlier sessions of this process that ended with work for
                     \* their worker: the batches whose snapshot it has not committed

LPVars == <<session, caller, accepted, queue, stage, batch, error, snapshot, journal, events, left>>

disk == <<snapshot, journal, events>>

StopItem == [update |-> 0, frozen |-> FALSE]

NoBatch == StopItem

LPInit == /\ session = 1
          /\ caller = "run"
          /\ accepted = 0
          /\ queue = <<>>
          /\ stage = "idle" /\ batch = NoBatch /\ error = FALSE
          /\ snapshot = [session |-> 0, update |-> 0, result |-> FALSE]
          /\ journal = <<>> /\ events = <<>>
          /\ left = <<>>

---------------------------------------------------------------------------
(* The controller thread: WriteBehindObserver.__call__ *)

\* Phases after which __call__ waits for the worker, or closes the observer.
Waits(phase) == CASE phase \in {"post_seeding", "error_checkpoint"} -> "flush"
                  [] phase = "final_synthesis"                      -> "close"
                  [] OTHER                                          -> "run"

Phases == {"post_seeding", "post_ranking_critique", "post_mutation", "error_checkpoint",
           "final_synthesis"}

\* frozen is FALSE when no checkpoint could be built, which only an error checkpoint
\* survives (the failure is written to a file of its own).
Notify(phase, frozen) ==
    /\ caller = "run" /\ ~error /\ accepted < MaxUpdates
    /\ frozen \/ phase = "error_checkpoint"
    /\ accepted' = accepted + 1
    /\ queue' = LET q == Append(queue, [update |-> accepted + 1, frozen |-> frozen])
                IN IF phase = "final_synthesis" THEN Append(q, StopItem) ELSE q
    /\ caller' = Waits(phase)
    /\ UNCHANGED <<session, stage, batch, error, disk, left>>

\* The checkpoint cannot be built in another phase, or the worker failed earlier.
NotifyRaises ==
    /\ caller = "run"
    /\ caller' = "raised"
    /\ UNCHANGED <<session, accepted, queue, stage, batch, error, disk, left>>

\* Mutant: the batch in work is not waited for.
DrainedQueue == queue = <<>>

Drained == queue = <<>> /\ stage \in {"idle", "stopped"}

\* flush: queue.join, then the worker's error is raised here.
FlushReturns ==
    /\ caller = "flush" /\ Drained
    /\ caller' = IF error THEN "raised" ELSE "run"
    /\ UNCHANGED <<session, accepted, queue, stage, batch, error, disk, left>>

\* Mutant: close does not join the worker.
CloseReturnsAtOnce ==
    /\ caller = "close"
    /\ caller' = IF error THEN "raised" ELSE "persist"
    /\ UNCHANGED <<session, accepted, queue, stage, batch, error, disk, left>>

\* close: the stop item is queued, the queue and then the worker are joined.
CloseReturns ==
    /\ caller = "close" /\ Drained /\ stage = "stopped"
    /\ caller' = IF error THEN "raised" ELSE "persist"
    /\ UNCHANGED <<session, accepted, queue, stage, batch, error, disk, left>>

\* NexusRuntimeServices.persist: the closing transaction carries run-result.json.
PersistResult ==
    /\ caller = "persist"
    /\ snapshot' = [session |-> session, update |-> accepted, result |-> TRUE]
    /\ caller' = "done"
    /\ UNCHANGED <<session, accepted, queue, stage, batch, error, journal, events, left>>

---------------------------------------------------------------------------
(* The worker thread: WriteBehindObserver._run and LiveNexusStore.write *)

\* Mutants: batches after an error are written; the worker stops on an error.
TakeAfterError ==
    /\ stage = "idle" /\ queue # <<>>
    /\ queue' = Tail(queue)
    /\ IF Head(queue) = StopItem THEN stage' = "stopped" /\ UNCHANGED batch
                                 ELSE stage' = "sidecar" /\ batch' = Head(queue)
    /\ UNCHANGED <<session, caller, accepted, error, disk, left>>
TakeUnlessError == ~error /\ TakeAfterError

\* The stop item ends the thread; after an error batches are discarded.
Take ==
    LET item == Head(queue)
    IN /\ stage = "idle" /\ queue # <<>>
       /\ queue' = Tail(queue)
       /\ IF item = StopItem
          THEN stage' = "stopped" /\ UNCHANGED batch
          ELSE IF error THEN UNCHANGED <<stage, batch>>
          ELSE stage' = "sidecar" /\ batch' = item
       /\ UNCHANGED <<session, caller, accepted, error, disk, left>>

Worker == <<session, caller, accepted, queue, batch, error, left>>

\* Mutant: no snapshot follows the sidecar.
WriteSidecarOnly ==
    /\ stage = "sidecar" /\ stage' = "round_file"
    /\ UNCHANGED Worker /\ UNCHANGED disk

WriteSidecar ==
    /\ stage = "sidecar"
    /\ stage' = IF batch.frozen THEN "snapshot" ELSE "round_file"
    /\ UNCHANGED Worker /\ UNCHANGED disk

CommitSnapshot ==
    /\ stage = "snapshot"
    /\ snapshot' = [session |-> session, update |-> batch.update, result |-> FALSE]
    /\ stage' = "round_file"
    /\ UNCHANGED Worker /\ UNCHANGED <<journal, events>>

WriteRoundFile ==
    /\ stage = "round_file"
    /\ stage' = "journal"
    /\ UNCHANGED Worker /\ UNCHANGED disk

AppendJournal ==
    /\ stage = "journal"
    /\ journal' = Append(journal, batch.update)
    /\ stage' = "event"
    /\ UNCHANGED Worker /\ UNCHANGED <<snapshot, events>>

AppendLiveEvent ==
    /\ stage = "event"
    /\ events' = Append(events, batch)
    /\ stage' = "idle" /\ batch' = NoBatch
    /\ UNCHANGED <<session, caller, accepted, queue, error, snapshot, journal, left>>

WriteFails ==
    /\ stage \notin {"idle", "stopped"}
    /\ error' = TRUE
    /\ stage' = "idle" /\ batch' = NoBatch
    /\ UNCHANGED <<session, caller, accepted, queue, disk, left>>

---------------------------------------------------------------------------

\* Another run resumes from the snapshot, with an observer of its own.
NewSession ==
    /\ session < MaxSessions
    /\ session' = session + 1
    /\ caller' = "run" /\ accepted' = 0
    /\ queue' = <<>> /\ stage' = "idle" /\ batch' = NoBatch /\ error' = FALSE
    /\ journal' = <<>> /\ events' = <<>>
    /\ UNCHANGED snapshot

\* The process dies, and the daemon threads with it.
Restart == NewSession /\ left' = <<>>

\* What the worker has yet to commit, the stop item included; after an error it commits nothing.
Uncommitted ==
    IF error THEN <<>> ELSE (IF stage \in {"sidecar", "snapshot"} THEN <<batch>> ELSE <<>>) \o queue

\* A run that raised, or that was finished, is resumed in the same process.
ResumeInProcess ==
    /\ caller \in {"raised", "done"} /\ NewSession
    /\ left' = IF Uncommitted = <<>> THEN left
               ELSE [s \in DOMAIN left \cup {session} |-> IF s = session THEN Uncommitted ELSE left[s]]

\* The worker of an earlier session goes through its queue, until a write fails.
EarlierWorkerWrites(s) ==
    LET item == Head(left[s])
    IN /\ left[s] # <<>>
       /\ left' = [left EXCEPT ![s] = Tail(@)]
       /\ snapshot' = IF item.frozen THEN [session |-> s, update |-> item.update, result |-> FALSE]
                                     ELSE snapshot
       /\ UNCHANGED <<session, caller, accepted, queue, stage, batch, error, journal, events>>

EarlierWorkerFails(s) ==
    /\ left[s] # <<>>
    /\ left' = [left EXCEPT ![s] = <<>>]
    /\ UNCHANGED <<session, caller, accepted, queue, stage, batch, error, disk>>

ControllerStep == \/ \E p \in Phases, f \in BOOLEAN : Notify(p, f)
                  \/ NotifyRaises \/ FlushReturns \/ CloseReturns \/ PersistResult

WorkerStep == Take \/ WriteSidecar \/ CommitSnapshot \/ WriteRoundFile \/ AppendJournal
              \/ AppendLiveEvent \/ WriteFails

EarlierWorkerStep == \E s \in DOMAIN left : EarlierWorkerWrites(s) \/ EarlierWorkerFails(s)

LPNext == ControllerStep \/ WorkerStep \/ EarlierWorkerStep \/ Restart \/ ResumeInProcess

LPSpec == LPInit /\ [][LPNext]_LPVars

\* Both threads are scheduled by the operating system.
LPFairSpec == LPSpec /\ WF_LPVars(WorkerStep) /\ WF_LPVars(FlushReturns \/ CloseReturns)

---------------------------------------------------------------------------
(* Properties *)

LeftOK == /\ DOMAIN left \subseteq 1..(session - 1)
          /\ \A s \in DOMAIN left : left[s] \in Seq([update : 0..MaxUpdates, frozen : BOOLEAN])

LPTypeOK ==
    /\ session \in 1..MaxSessions
    /\ caller \in {"run", "flush", "close", "persist", "done", "raised"}
    /\ accepted \in 0..MaxUpdates
    /\ queue \in Seq([update : 0..MaxUpdates, frozen : BOOLEAN])
    /\ stage \in {"idle", "stopped", "sidecar", "snapshot", "round_file", "journal", "event"}
    /\ batch \in [update : 0..MaxUpdates, frozen : BOOLEAN]
    /\ error \in BOOLEAN
    /\ snapshot \in [session : 0..MaxSessions, update : 0..MaxUpdates, result : BOOLEAN]
    /\ journal \in Seq(1..MaxUpdates)
    /\ events \in Seq([update : 1..MaxUpdates, frozen : BOOLEAN])
    /\ LeftOK

\* The published snapshot is of a session whose worker was left behind in this process.
Overtaken == snapshot.session \in DOMAIN left

\* "Lossless FIFO": what is on disk is a prefix of what was accepted, with no gap even
\* after a failed write, and the journal runs at most one update ahead of the events.
PersistedInOrder ==
    /\ \A i \in DOMAIN events : events[i].update = i
    /\ \A i \in DOMAIN journal : journal[i] = i
    /\ Len(journal) \in Len(events)..(Len(events) + 1)
    /\ Len(journal) <= accepted

\* An event never announces a checkpoint that a crash could take back: the snapshot of the
\* update, or a later one, is published before its event is appended, and then only a worker
\* that an earlier run of the process left behind replaces it.
EventsFollowSnapshots ==
    \A i \in DOMAIN events :
        events[i].frozen => Overtaken \/ (snapshot.session = session /\ snapshot.update >= events[i].update)

\* A flush or close that returns without raising left every accepted update durable:
\* post-seeding, error checkpoints and the final synthesis survive a crash from then on.
FlushMeansDurable ==
    [][(FlushReturns \/ CloseReturns) /\ caller' # "raised" => Len(events) = accepted]_LPVars

\* Once run-result.json is published no live checkpoint of its session replaces the
\* generation, and no other, but from a worker that was left behind.
ResultIsLast ==
    [][snapshot.session = session /\ snapshot.result => UNCHANGED snapshot \/ Overtaken']_LPVars

\* The published snapshot never goes back in time, but to what a worker that was left behind
\* commits.
SnapshotIsMonotonic ==
    [][\/ snapshot'.session > snapshot.session
       \/ snapshot'.session = snapshot.session /\ snapshot'.update >= snapshot.update
       \/ Overtaken']_LPVars

\* Waiting on the worker ends, also when it failed.
WaitsEnd == caller \in {"flush", "close"} ~> caller \notin {"flush", "close"}
---------------------------------------------------------------------------
(* The inductive invariant behind the safety properties *)

\* The worker holds a batch.
AtWork == stage \notin {"idle", "stopped"}

HasStop == queue # <<>> /\ queue[Len(queue)] = StopItem

\* Batches accepted and not yet taken.
Pending == IF HasStop THEN Len(queue) - 1 ELSE Len(queue)

\* The queue holds the last updates accepted, in their order, then at most the stop item.
QueueIsTheRest ==
    /\ Pending <= accepted
    /\ \A i \in 1..Pending : queue[i].update = accepted - Pending + i

\* Until a write fails every accepted update is written, in work, or on the queue; after
\* that nothing is in work, and what is on disk stays behind what was accepted.
WorkerIsNext ==
    /\ ~error => /\ Len(events) + (IF AtWork THEN 1 ELSE 0) + Pending = accepted
                 /\ AtWork => batch.update = Len(events) + 1
                 /\ Len(journal) = Len(events) + (IF stage = "event" THEN 1 ELSE 0)
    /\ error => /\ ~AtWork
                /\ Len(journal) \in Len(events)..(Len(events) + 1)
                /\ Len(journal) + Pending <= accepted

\* Only a close stops the worker, and the run result is published only after it stopped.
StopFollowsClose ==
    /\ stage = "stopped" => queue = <<>>
    /\ caller \in {"run", "flush"} => ~HasStop /\ stage # "stopped"
    /\ caller \in {"persist", "done"} => stage = "stopped" /\ ~error
    /\ snapshot.session = session /\ snapshot.result => caller = "done"

\* The snapshot is of this session or an earlier one, and no further than the worker.
SnapshotIsCurrent ==
    /\ snapshot.session <= session
    /\ snapshot.session = session =>
           /\ snapshot.update <= accepted
           /\ ~snapshot.result => snapshot.update <= Len(events) + 1
    /\ stage \in {"round_file", "journal", "event"} /\ batch.frozen =>
           Overtaken \/ (snapshot.session = session /\ snapshot.update = batch.update)

LPIInv == /\ LPTypeOK /\ QueueIsTheRest /\ WorkerIsNext /\ StopFollowsClose /\ SnapshotIsCurrent
          /\ PersistedInOrder /\ EventsFollowSnapshots
==================================================================================
