------------------------------- MODULE JobService -------------------------------
(***************************************************************************)
(* The HTTP job API: the in-memory job registry (_JOBS), the job-status    *)
(* file that outlives the process, the bounded executor and the handlers   *)
(* that create, resume and cancel jobs.                                    *)
(*                                                                         *)
(* Handlers are coroutines of one event loop, so two handlers interleave   *)
(* only at an await; worker threads interleave with a handler anywhere.    *)
(* Registry updates happen under _JOBS_LOCK and are atomic; the status     *)
(* file is written after the lock is released, as a step of its own.       *)
(* The engine is external here: it may write a checkpoint, and ends with a *)
(* run result or an exception.                                             *)
(***************************************************************************)
EXTENDS Naturals, Sequences, FiniteSets

CONSTANTS Jobs,        \* job ids
          Workers,     \* pool threads (COGEV_API_JOB_WORKERS)
          MaxQueue,    \* queue slots beyond the workers (COGEV_API_JOB_QUEUE)
          MaxAwaiting, \* bound: resume requests of one job inside `await request.json()`
          Requests,    \* the requests and events explored, of RequestKinds
          Outcomes     \* the completion statuses explored, of Completions

RequestKinds == {"create", "resume", "cancel", "restart"}

\* Completion statuses stand for the groups the code treats alike: "completed" is
\* not named in run-result.json's override list, "needs_continuation" is.
Completions == {"completed", "needs_continuation"}

ASSUME JobServiceAssumption ==
    /\ IsFiniteSet(Workers) /\ Workers # {}
    /\ MaxQueue \in Nat /\ MaxAwaiting \in Nat
    /\ Requests \subseteq RequestKinds /\ Outcomes \subseteq Completions

VARIABLES registry,   \* _JOBS: a record per tracked job
          file,       \* job-status.json
          checkpoint, \* nexus-runtime/checkpoint.json exists
          result,     \* completion status in nexus-runtime/run-result.json
          queue,      \* submitted tasks no thread has taken
          worker,     \* each pool thread's frame
          permits,    \* value of the BoundedExecutor semaphore
          future,     \* a future is registered in _JOB_FUTURES
          loop,       \* frame of the handler that holds the event loop
          awaiting,   \* resume handlers suspended in `await request.json()`
          \* history, for the properties only
          leaked,       \* permits whose task was cancelled in the queue
          overlapped  \* jobs of which two resume requests were suspended at once

vars == <<registry, file, checkpoint, result, queue, worker, permits, future, loop, awaiting,
          leaked, overlapped>>

Capacity == Cardinality(Workers) + MaxQueue

TerminalStatuses == Completions \cup {"failed", "cancelled", "rejected", "interrupted"}

ActiveStatuses == {"queued", "running", "cancellation_requested", "resuming"}

\* The statuses cancel_job answers without cancelling: "rejected" and
\* "interrupted" are terminal for the registry but not listed here.
CancelRefused == TerminalStatuses \ {"rejected", "interrupted"}

Statuses == TerminalStatuses \cup ActiveStatuses

Records == [status : Statuses, cancel : BOOLEAN, rooted : BOOLEAN]

Untracked == [status |-> "none", cancel |-> FALSE, rooted |-> FALSE]

Tasks == [job : Jobs, kind : {"run", "resume"}]

IdleWorker == [at |-> "idle", job |-> "none", kind |-> "run", final |-> Untracked]

IdleLoop == [at |-> "free", job |-> "none", kind |-> "run", snap |-> Untracked]

Init == /\ registry = [j \in Jobs |-> Untracked]
        /\ file = [j \in Jobs |-> Untracked]
        /\ checkpoint = [j \in Jobs |-> FALSE]
        /\ result = [j \in Jobs |-> "none"]
        /\ queue = <<>>
        /\ worker = [w \in Workers |-> IdleWorker]
        /\ permits = Capacity
        /\ future = [j \in Jobs |-> FALSE]
        /\ loop = IdleLoop
        /\ awaiting = [j \in Jobs |-> 0]
        /\ leaked = 0
        /\ overlapped = {}

---------------------------------------------------------------------------
(* The registry *)

\* _prune_jobs_locked: terminal jobs past their time-to-live or over the limit go;
\* which ones is a matter of clock and load.
Prunable(j) == registry[j].status \in TerminalStatuses

Prunings == {[j \in Jobs |-> IF j \in gone THEN Untracked ELSE registry[j]] :
                gone \in SUBSET {j \in Jobs : Prunable(j)}}

\* _JOBS.setdefault(...).update(...): a pruned job starts from a bare record, which
\* has no artifact_root and so is not persisted.
Merge(rec, update) ==
    [status |-> update.status,
     cancel |-> IF "cancel" \in DOMAIN update THEN update.cancel ELSE rec.cancel,
     rooted |-> IF "rooted" \in DOMAIN update THEN update.rooted ELSE rec.rooted]

\* _set_job up to the release of the lock; the caller persists registry'[j] later.
SetJob(j, update) ==
    \E reg \in Prunings : registry' = [reg EXCEPT ![j] = Merge(reg[j], update)]

\* _write_json(root / "job-status.json"): only a job that knows its root has one.
Persist(j, rec) ==
    file' = IF rec.rooted THEN [file EXCEPT ![j] = rec] ELSE file

\* _status_from_nexus_data
StatusFromResult(completion, fallback) ==
    IF completion = "needs_continuation" THEN completion ELSE fallback

\* Mutant: an active status is taken over from the file.
RehydratedAsRead(j) ==
    [status |-> StatusFromResult(result[j], file[j].status),
     cancel |-> file[j].cancel, rooted |-> TRUE]

\* _rehydrate_job_from_artifact: an active status read back is "interrupted" - but
\* "resuming" is not in the list.
Rehydrated(j) ==
    LET lost == file[j].status \in {"queued", "running", "cancellation_requested"}
        base == IF lost THEN "interrupted" ELSE file[j].status
    IN [status |-> StatusFromResult(result[j], base),
        cancel |-> file[j].cancel /\ ~lost, rooted |-> TRUE]

\* _get_job: prune, then the tracked record or the one rehydrated from the file.
GetJob(j) ==
    \E reg \in Prunings :
       registry' = IF reg[j] = Untracked /\ file[j] # Untracked
                   THEN [reg EXCEPT ![j] = Rehydrated(j)] ELSE reg

---------------------------------------------------------------------------
(* Handlers on the event loop *)

LoopFree == loop.at = "free"

\* create_job: a fresh id is queued.
CreateJob(j) ==
    /\ "create" \in Requests
    /\ LoopFree /\ registry[j] = Untracked /\ file[j] = Untracked
    /\ SetJob(j, [status |-> "queued", cancel |-> FALSE, rooted |-> TRUE])
    /\ loop' = [at |-> "persist_queued", job |-> j, kind |-> "run", snap |-> registry'[j]]
    /\ UNCHANGED <<file, checkpoint, result, queue, worker, permits, future, awaiting, leaked, overlapped>>

Overlapping(j) == IF awaiting'[j] > 1 THEN overlapped \cup {j} ELSE overlapped

\* Mutant: active jobs may be resumed.
ResumeUnchecked(j) ==
    /\ "resume" \in Requests
    /\ LoopFree /\ awaiting[j] < MaxAwaiting
    /\ GetJob(j)
    /\ awaiting' = IF registry'[j] # Untracked THEN [awaiting EXCEPT ![j] = @ + 1] ELSE awaiting
    /\ overlapped' = Overlapping(j)
    /\ UNCHANGED <<file, checkpoint, result, queue, worker, permits, future, loop, leaked>>

\* resume_job up to `await request.json()`: 404 and 409 leave no trace.
ResumeCheck(j) ==
    /\ "resume" \in Requests
    /\ LoopFree /\ awaiting[j] < MaxAwaiting
    /\ GetJob(j)
    /\ awaiting' = IF registry'[j].status \in TerminalStatuses
                   THEN [awaiting EXCEPT ![j] = @ + 1] ELSE awaiting
    /\ overlapped' = Overlapping(j)
    /\ UNCHANGED <<file, checkpoint, result, queue, worker, permits, future, loop, leaked>>

\* resume_job after the await: the status is not read again.
ResumeBody(j) ==
    /\ LoopFree /\ awaiting[j] > 0
    /\ awaiting' = [awaiting EXCEPT ![j] = @ - 1]
    /\ IF checkpoint[j]
       THEN /\ SetJob(j, [status |-> "queued", cancel |-> FALSE])
            /\ loop' = [at |-> "persist_queued", job |-> j, kind |-> "resume",
                        snap |-> registry'[j]]
       ELSE UNCHANGED <<registry, loop>>
    /\ UNCHANGED <<file, checkpoint, result, queue, worker, permits, future, leaked, overlapped>>

PersistQueued ==
    /\ loop.at = "persist_queued"
    /\ Persist(loop.job, loop.snap)
    /\ loop' = [loop EXCEPT !.at = "submit", !.snap = Untracked]
    /\ UNCHANGED <<registry, checkpoint, result, queue, worker, permits, future, awaiting, leaked, overlapped>>

\* BoundedExecutor.submit and _register_job_future, then the job is read for the reply.
Submit ==
    /\ loop.at = "submit" /\ permits > 0
    /\ permits' = permits - 1
    /\ queue' = Append(queue, [job |-> loop.job, kind |-> loop.kind])
    /\ future' = [future EXCEPT ![loop.job] = TRUE]
    /\ GetJob(loop.job)
    /\ loop' = IdleLoop
    /\ UNCHANGED <<file, checkpoint, result, worker, awaiting, leaked, overlapped>>

\* QueueFullError: the job is marked "rejected".
Reject ==
    /\ loop.at = "submit" /\ permits = 0
    /\ SetJob(loop.job, [status |-> "rejected", cancel |-> FALSE])
    /\ loop' = [loop EXCEPT !.at = "persist_last", !.snap = registry'[loop.job]]
    /\ UNCHANGED <<file, checkpoint, result, queue, worker, permits, future, awaiting, leaked, overlapped>>

PersistLast ==
    /\ loop.at = "persist_last"
    /\ Persist(loop.job, loop.snap)
    /\ loop' = IdleLoop
    /\ UNCHANGED <<registry, checkpoint, result, queue, worker, permits, future, awaiting, leaked, overlapped>>

\* cancel_job: read, test the status ...
CancelCheck(j) ==
    /\ "cancel" \in Requests
    /\ LoopFree
    /\ GetJob(j)
    /\ loop' = IF registry'[j].status \in Statuses \ CancelRefused
               THEN [IdleLoop EXCEPT !.at = "cancel_future", !.job = j] ELSE loop
    /\ UNCHANGED <<file, checkpoint, result, queue, worker, permits, future, awaiting, leaked, overlapped>>

LastQueued(j) == {n \in DOMAIN queue : queue[n].job = j /\ \A m \in DOMAIN queue :
                                                 queue[m].job = j => m <= n}

RemoveAt(s, n) == SubSeq(s, 1, n - 1) \o SubSeq(s, n + 1, Len(s))

\* ... cancel the registered future - a queued one never runs, and only
\* _run_and_release gives its permit back ...
CancelFuture ==
    /\ loop.at = "cancel_future"
    /\ IF future[loop.job] /\ LastQueued(loop.job) # {}
       THEN \E n \in LastQueued(loop.job) :
               /\ queue' = RemoveAt(queue, n)
               /\ future' = [future EXCEPT ![loop.job] = FALSE]
               /\ leaked' = leaked + 1
       ELSE UNCHANGED <<queue, future, leaked>>
    /\ loop' = [loop EXCEPT !.at = "cancel_set"]
    /\ UNCHANGED <<registry, file, checkpoint, result, worker, permits, awaiting, overlapped>>

\* Mutant: a cancelled job is terminal before its engine stopped.
CancelAtOnce ==
    /\ loop.at = "cancel_set"
    /\ SetJob(loop.job, [status |-> "cancelled", cancel |-> TRUE])
    /\ loop' = [loop EXCEPT !.at = "persist_last", !.snap = registry'[loop.job]]
    /\ UNCHANGED <<file, checkpoint, result, queue, worker, permits, future, awaiting, leaked, overlapped>>

\* ... and set the status, whatever a worker did in the meantime.
CancelSet ==
    /\ loop.at = "cancel_set"
    /\ SetJob(loop.job, [status |-> "cancellation_requested", cancel |-> TRUE])
    /\ loop' = [loop EXCEPT !.at = "persist_last", !.snap = registry'[loop.job]]
    /\ UNCHANGED <<file, checkpoint, result, queue, worker, permits, future, awaiting, leaked, overlapped>>

---------------------------------------------------------------------------
(* Worker threads *)

TakeTask(w) ==
    /\ worker[w].at = "idle" /\ queue # <<>>
    /\ worker' = [worker EXCEPT ![w] = [at |-> "start", job |-> Head(queue).job,
                                        kind |-> Head(queue).kind, final |-> Untracked]]
    /\ queue' = Tail(queue)
    /\ UNCHANGED <<registry, file, checkpoint, result, permits, future, loop, awaiting, leaked, overlapped>>

\* _set_job(status="running" / "resuming"): the cancellation flag is kept, the
\* status is overwritten.
Start(w) ==
    LET j == worker[w].job
    IN /\ worker[w].at = "start"
       /\ SetJob(j, [status |-> IF worker[w].kind = "run" THEN "running" ELSE "resuming"])
       /\ worker' = [worker EXCEPT ![w].at = "persist_start", ![w].final = registry'[j]]
       /\ UNCHANGED <<file, checkpoint, result, queue, permits, future, loop, awaiting, leaked, overlapped>>

PersistStart(w) ==
    /\ worker[w].at = "persist_start"
    /\ Persist(worker[w].job, worker[w].final)
    /\ worker' = [worker EXCEPT ![w].at = "engine", ![w].final = Untracked]
    /\ UNCHANGED <<registry, checkpoint, result, queue, permits, future, loop, awaiting, leaked, overlapped>>

\* A live checkpoint publishes a generation without run-result.json.
EngineCheckpoints(w) ==
    /\ worker[w].at = "engine"
    /\ checkpoint' = [checkpoint EXCEPT ![worker[w].job] = TRUE]
    /\ result' = [result EXCEPT ![worker[w].job] = "none"]
    /\ UNCHANGED <<registry, file, queue, worker, permits, future, loop, awaiting, leaked, overlapped>>

Final(status, cancel) == [status |-> status, cancel |-> cancel, rooted |-> FALSE]

\* The engine returns with its run result on disk (a finished run also has a
\* checkpoint); a first run then reads the cancellation flag, a resumed one never does.
EngineReturns(w, completion) ==
    LET j == worker[w].job
    IN /\ worker[w].at = "engine"
       /\ checkpoint' = [checkpoint EXCEPT ![j] = TRUE]
       /\ result' = [result EXCEPT ![j] = completion]
       /\ worker' = [worker EXCEPT ![w].at = IF worker[w].kind = "run" THEN "read_flag" ELSE "finish",
                                   ![w].final = Final(completion, FALSE)]
       /\ UNCHANGED <<registry, file, queue, permits, future, loop, awaiting, leaked, overlapped>>

ReadFlag(w) ==
    LET j == worker[w].job
    IN /\ worker[w].at = "read_flag"
       /\ GetJob(j)
       /\ worker' = [worker EXCEPT ![w].at = "finish",
                       ![w].final.status = IF registry'[j].cancel THEN "cancelled" ELSE @]
       /\ UNCHANGED <<file, checkpoint, result, queue, permits, future, loop, awaiting, leaked, overlapped>>

\* InterruptedError, raised only where the cancellation callback saw the flag.
EngineInterrupted(w) ==
    /\ worker[w].at = "engine" /\ worker[w].kind = "run"
    /\ registry[worker[w].job].cancel
    /\ worker' = [worker EXCEPT ![w].at = "finish", ![w].final = Final("cancelled", TRUE)]
    /\ UNCHANGED <<registry, file, checkpoint, result, queue, permits, future, loop, awaiting, leaked, overlapped>>

\* Mutant: the worker does not catch the exception.
EngineFailsUncaught(w) ==
    /\ worker[w].at = "engine"
    /\ worker' = [worker EXCEPT ![w].at = "release"]
    /\ UNCHANGED <<registry, file, checkpoint, result, queue, permits, future, loop, awaiting, leaked, overlapped>>

EngineFails(w) ==
    /\ worker[w].at = "engine"
    /\ worker' = [worker EXCEPT ![w].at = "finish", ![w].final = Final("failed", FALSE)]
    /\ UNCHANGED <<registry, file, checkpoint, result, queue, permits, future, loop, awaiting, leaked, overlapped>>

\* The last _set_job: a resumed run also restores artifact_root, unless it failed.
Finish(w) ==
    LET j == worker[w].job
        final == worker[w].final
    IN /\ worker[w].at = "finish"
       /\ SetJob(j, IF final.cancel THEN [status |-> final.status, cancel |-> TRUE]
                    ELSE IF worker[w].kind = "resume" /\ final.status # "failed"
                         THEN [status |-> final.status, rooted |-> TRUE]
                         ELSE [status |-> final.status])
       /\ worker' = [worker EXCEPT ![w].at = "persist_final", ![w].final = registry'[j]]
       /\ UNCHANGED <<file, checkpoint, result, queue, permits, future, loop, awaiting, leaked, overlapped>>

PersistFinal(w) ==
    /\ worker[w].at = "persist_final"
    /\ Persist(worker[w].job, worker[w].final)
    /\ worker' = [worker EXCEPT ![w].at = "release", ![w].final = Untracked]
    /\ UNCHANGED <<registry, checkpoint, result, queue, permits, future, loop, awaiting, leaked, overlapped>>

\* Mutant: the permit is not given back.
ReleaseNoPermit(w) ==
    /\ worker[w].at = "release"
    /\ future' = [future EXCEPT ![worker[w].job] = FALSE]
    /\ worker' = [worker EXCEPT ![w] = IdleWorker]
    /\ UNCHANGED <<registry, file, checkpoint, result, queue, permits, loop, awaiting, leaked, overlapped>>

\* _run_and_release's finally, and the done callback that pops the future.
Release(w) ==
    /\ worker[w].at = "release"
    /\ permits' = permits + 1
    /\ future' = [future EXCEPT ![worker[w].job] = FALSE]
    /\ worker' = [worker EXCEPT ![w] = IdleWorker]
    /\ UNCHANGED <<registry, file, checkpoint, result, queue, loop, awaiting, leaked, overlapped>>

---------------------------------------------------------------------------

\* The API process dies and starts again: memory is lost, files stay.
Restart ==
    /\ "restart" \in Requests
    /\ registry' = [j \in Jobs |-> Untracked]
    /\ queue' = <<>>
    /\ worker' = [w \in Workers |-> IdleWorker]
    /\ permits' = Capacity
    /\ future' = [j \in Jobs |-> FALSE]
    /\ loop' = IdleLoop
    /\ awaiting' = [j \in Jobs |-> 0]
    /\ leaked' = 0
    /\ overlapped' = {}
    /\ UNCHANGED <<file, checkpoint, result>>

\* The status endpoint.
PollJob(j) ==
    /\ LoopFree /\ file[j] # Untracked
    /\ GetJob(j)
    /\ UNCHANGED <<file, checkpoint, result, queue, worker, permits, future, loop, awaiting, leaked, overlapped>>

Handler == PersistQueued \/ Submit \/ Reject \/ PersistLast \/ CancelFuture \/ CancelSet

Request(j) == CreateJob(j) \/ ResumeCheck(j) \/ ResumeBody(j) \/ CancelCheck(j) \/ PollJob(j)

EngineEnds(w) ==
    \/ \E c \in Outcomes : EngineReturns(w, c)
    \/ EngineInterrupted(w) \/ EngineFails(w)

WorkerStep(w) ==
    \/ TakeTask(w) \/ Start(w) \/ PersistStart(w) \/ EngineEnds(w)
    \/ ReadFlag(w) \/ Finish(w) \/ PersistFinal(w) \/ Release(w)

Next == \/ Handler
        \/ \E j \in Jobs : Request(j)
        \/ \E w \in Workers : WorkerStep(w) \/ EngineCheckpoints(w)
        \/ Restart

Spec == Init /\ [][Next]_vars

\* The event loop runs the handler it holds and pool threads run; the engine always
\* returns or raises (every model call and every sandboxed test has a timeout).
FairSpec == Spec /\ WF_vars(Handler) /\ \A w \in Workers : WF_vars(WorkerStep(w))

---------------------------------------------------------------------------
(* Properties *)

TypeOK ==
    /\ registry \in [Jobs -> Records \cup {Untracked}]
    /\ file \in [Jobs -> Records \cup {Untracked}]
    /\ checkpoint \in [Jobs -> BOOLEAN]
    /\ result \in [Jobs -> Completions \cup {"none"}]
    /\ queue \in Seq(Tasks)
    /\ \A w \in Workers : worker[w].at # "idle" => worker[w].job \in Jobs
    /\ permits \in 0..Capacity
    /\ future \in [Jobs -> BOOLEAN]
    /\ loop.at # "free" => loop.job \in Jobs
    /\ awaiting \in [Jobs -> 0..MaxAwaiting]
    /\ leaked \in Nat
    /\ overlapped \subseteq Jobs

Running(w) == worker[w].at # "idle"

\* A permit is taken exactly while a task is queued or running: "The semaphore caps
\* running plus queued jobs" (executor.py:18-20).  The one exception is a task whose
\* future was cancelled in the queue: it never runs, so nobody gives its permit back.
PermitsMatchLoad ==
    permits + Len(queue) + Cardinality({w \in Workers : Running(w)}) + leaked = Capacity

InHand(j) == \/ \E n \in DOMAIN queue : queue[n].job = j
             \/ \E w \in Workers : Running(w) /\ worker[w].job = j
             \/ loop.at # "free" /\ loop.job = j

\* A tracked job whose status says it is active has a task or a handler that will
\* move it on; otherwise it answers 409 "Job is already active." for ever
\* (openai_compat.py:243-244).
ActiveJobIsInHand ==
    \A j \in Jobs : registry[j].status \in ActiveStatuses => InHand(j)

\* A job nobody works on is not reported as queued or running: a status file left by a
\* process that died does not pass for a live job (jobs.py:247-254).
IdleJobIsNotRunning ==
    \A j \in Jobs : ~InHand(j) => registry[j].status \notin {"queued", "running"}

\* Two engines never work in one job directory: resume answers 409 "Job is already
\* active." (openai_compat.py:243-244).  It does not hold: two requests may both have
\* read the status before the first of them went on (run JobServiceDoubleResume).
OneEnginePerJob ==
    \A v, w \in Workers : worker[v].at = "engine" /\ worker[w].at = "engine"
                          /\ worker[v].job = worker[w].job => v = w

\* Two engines meet in one job directory in that way only: whatever is created, resumed,
\* cancelled, pruned or restarted, a job of which no two resume requests were suspended at
\* once has one engine (openai_compat.py:239-290).
EnginesMeetByOverlap ==
    \A v, w \in Workers : worker[v].at = "engine" /\ worker[w].at = "engine"
                          /\ worker[v].job = worker[w].job => v = w \/ worker[v].job \in overlapped

\* A client that reads a terminal status may rely on the engine having stopped, unless
\* two resume requests of the job were suspended at once.
TerminalMeansStopped ==
    \A w \in Workers : worker[w].at = "engine" =>
        registry[worker[w].job].status \notin TerminalStatuses \/ worker[w].job \in overlapped

\* A task is only handed to the pool once the job's status file exists, so a job the
\* client was told of is found again after a restart (rehydration, jobs.py:247-254).
AcceptedJobIsOnDisk ==
    /\ \A n \in DOMAIN queue : file[queue[n].job] # Untracked
    /\ \A w \in Workers : Running(w) => file[worker[w].job] # Untracked

\* Every accepted job reaches a terminal status (or is pruned, once terminal).  Two
\* statuses may stay behind when nobody works on the job any more: that of a job whose
\* task was cancelled in the queue, and "resuming" read back from a file.
JobsTerminate ==
    \A j \in Jobs : registry[j].status \in ActiveStatuses
                    ~> \/ registry[j].status \notin ActiveStatuses
                       \/ registry[j].status \in {"cancellation_requested", "resuming"} /\ ~InHand(j)

---------------------------------------------------------------------------
(* The inductive invariant behind the safety properties *)

WorkerFrames == [at : {"idle", "start", "persist_start", "engine", "read_flag", "finish",
                       "persist_final", "release"},
                 job : Jobs \cup {"none"}, kind : {"run", "resume"},
                 final : Records \cup {Untracked}]

LoopFrames == [at : {"free", "persist_queued", "submit", "persist_last", "cancel_future",
                     "cancel_set"},
               job : Jobs \cup {"none"}, kind : {"run", "resume"},
               snap : Records \cup {Untracked}]

Frames ==
    /\ worker \in [Workers -> WorkerFrames] /\ loop \in LoopFrames
    /\ \A w \in Workers :
         /\ worker[w].at \in {"persist_start", "persist_final"} => worker[w].final \in Records
         /\ worker[w].at \in {"read_flag", "finish"} => worker[w].final.status \in TerminalStatuses
    /\ loop.at \in {"persist_queued", "persist_last"} => loop.snap \in Records

\* A job whose first status file is about to be written.
Fresh(j) == loop.at = "persist_queued" /\ loop.job = j /\ loop.snap.rooted

KnownIsOnDisk ==
    /\ AcceptedJobIsOnDisk
    /\ \A j \in Jobs : awaiting[j] > 0 => file[j] # Untracked
    /\ \A j \in Jobs : registry[j] # Untracked /\ ~Fresh(j) => file[j] # Untracked
    /\ loop.at # "free" /\ ~Fresh(loop.job) => file[loop.job] # Untracked

Queued(j) == \E n \in DOMAIN queue : queue[n].job = j

Working(w) == worker[w].at \in {"start", "persist_start", "engine", "read_flag", "finish"}

Entering(j) == loop.at \in {"persist_queued", "submit"} /\ loop.job = j

\* A task of the job is ahead of its last status.
InWork(j) == Queued(j) \/ Entering(j) \/ \E w \in Workers : Working(w) /\ worker[w].job = j

BusyIsInWork ==
    \A j \in Jobs : registry[j].status \in {"queued", "running"}
                    => InWork(j) \/ (loop.at = "cancel_set" /\ loop.job = j)

IInv == TypeOK /\ Frames /\ PermitsMatchLoad /\ KnownIsOnDisk /\ BusyIsInWork

\* What holds beside it for a job of which no two resume requests were suspended at once.
OneTask(j) ==
    /\ \A m, n \in DOMAIN queue : queue[m].job = j /\ queue[n].job = j => m = n
    /\ \A v, w \in Workers :
         Working(v) /\ Working(w) /\ worker[v].job = j /\ worker[w].job = j => v = w
    /\ \A w \in Workers : Working(w) /\ worker[w].job = j => ~Queued(j) /\ ~Entering(j)
    /\ Entering(j) => ~Queued(j)

WorkIsActive(j) == InWork(j) => registry[j].status \in ActiveStatuses /\ awaiting[j] = 0

SInv == \A j \in Jobs \ overlapped : OneTask(j) /\ WorkIsActive(j) /\ awaiting[j] <= 1
==================================================================================
