# CognitiveEvolve in TLA+

TLA+ modules for the parts of `cognitive_evolve_runtime` whose correctness depends on
interleavings, crashes, retries, the order of writes, or long sequences of legal steps on shared
state; TLC configurations that check them on small instances; and TLAPS proofs of the guarantees
of the storage protocols, the job service, the evolution loop, the model calls, the latent
ledger, the rounds of a generation and the breeding of offspring. Paths below are relative to
`src/cognitive_evolve_runtime/` unless they start with `src/`.

## 1. Inventory

A run takes a text, research or project input, evolves a population of candidates round by round
under a budget (`NexusRuntime`, `EvolutionLoopController`), writes checkpoints behind the loop's
back, and can be resumed after an interruption, a quota pause or a crash. An HTTP service runs
such runs as jobs. Most of the package's lines are sequential computation on text and
scores; the behaviour that is hard to test sits in the components of this section.

### 1.1 Components with a protocol

**Durable step execution** (`durable/step_runner.py`, `checkpoint_store.py`, `step_state.py`,
`resume_planner.py`, `reaper.py`).
State: `input.json`, `output.json` and `status.json` of one step directory. Operations:
`StepRunner.run_step`, which skips a step committed with the same input, resets it for a changed
input, and otherwise stamps, runs and commits it; `DurableReaper.reap`, which marks stale
`inflight` steps `retryable_failed`. Interaction: only through the files; nothing locks a whole
call. Hard: a crash between any two writes; a reaper beside a live call; retries.
Correct when: a call returns the output of its own input; a commit is never separated from its
output; a terminal status stays.

**Event store** (`persistence/event_store.py`).
State: `events.jsonl`, and the byte offset each snapshot recorded. Operations: `append`,
`append_once`, `append_many_once`, `committed_offset`, `reconcile`, all under the log's file lock.
Hard: the process dies inside a write and leaves half a line, half a character or a whole event
without its newline; the caller retries; the next append must neither join nor repeat it.
Correct when: an acknowledged event keeps its line for ever, `append_once` logs an identity that
replay can read once, an audit's verdict never goes back.

**Snapshot transaction** (`persistence/transactional_snapshot.py`).
State: `.staging-*` directories, `generations/`, the `CURRENT` symlink, the transaction lock.
Operations: `commit` (stage, rename, fsync, replace the pointer, fsync, prune), `snapshot_reader`,
`read_snapshot_json`. Used by: the live store and the final persist of a run. Hard: process death
and power loss at any step; a reader whose generation is pruned. Correct when: it behaves as one
atomic register, and a leased reader never misses a file.

**Write-behind checkpointing** (`durable/async_writer.py`, `nexus/live_store.py`).
State: a FIFO queue between the controller's thread and one worker, the worker's error, the
snapshot, candidate journal and live events. Operations: `__call__` (freeze and enqueue), `flush`,
`close`, the worker's `write`. Interaction: feeds the snapshot transaction and the event store;
`NexusRuntimeServices.persist` follows `close`. Hard: a write that fails in the worker while the
loop waits; a session that dies with batches queued; a run that raises and leaves its worker to
write on beside the next run of the process. Correct when: persistence is a prefix of
what was accepted, events announce only published snapshots, flush and close mean durable,
nothing of its session replaces the final result, waits end.

**Job service** (`api/jobs.py`, `api/executor.py`, the job routes of `api/openai_compat.py`).
State: `_JOBS`, `_JOB_FUTURES`, the executor's semaphore and queue, `job-status.json`. Operations:
create, poll, resume, cancel; worker start, end and release; expiry; a restart with rehydration.
Interaction: coroutines of one event loop with pool threads; memory with the status file. Hard:
a check before an `await` used after it; status writes of two threads; cancellation of a task
that has not started; a restart at any point. Correct when: permits match the load, engines meet in
a job directory only where the known race lets them, no status claims what is not so, every job ends.

**Evolution loop and resume** (`nexus/loop/controller.py`, `nexus/loop/budget.py`,
`nexus/loop/closure.py`, `nexus/stop_decision.py`, `nexus/budget_factory.py`, `nexus/runtime.py`,
`durable/resume_assembly.py`).
State: the budget (round, limit, phase, stop reason, history) in memory and in each checkpoint.
Operations: seeding, a round (evaluate, record, reproduce), interruption, cancellation, final
synthesis and persist, resume with or without an extension. Hard: a checkpoint of any phase of
any round may be the one a resume starts from. Correct when: no round is ranked twice or skipped
without a record, no durably ranked round is lost, exit sweeps alternate with exploration.

**Model calls** (`llm/transport.py`, `budget.py`, `retry.py`, `governor.py`, `response_cache.py`,
`session.py`, `telemetry.py`, `fanout.py`; `durable/provider_circuit_breaker.py`).
State: booked spend, the reservation and the call lock of a session; the governor's semaphore; the
stored answers of logical calls on disk; the circuit's unlocked fields. Operations: `llm_json` with
its reservation, preflight, replay, circuit, attempts, storing, booking and last check. Interaction:
the threads of a fan-out share session, governor and circuit. Hard: the price of a call is known
only after it; a crash between payment and booking; every exception must return lock,
reservation and slot. Correct when: concurrent calls do not spend the same headroom, a booked
answer is never paid again, the circuit can always reopen or close, every call ends.

**Rounds: stages, fates, archives, plan** (`nexus/loop/evaluate_stage.py`,
`nexus/loop/reproduce_stage.py`, `nexus/population_control.py`, `nexus/repair_reactivation.py`,
`nexus/generation_plan.py`, `archives/`, `candidates/`, `ranking/parent_selection.py`).
State: the live population, the lanes of the archives, the plan of the round with its id (a hash of
its own fields), the recorded plans in the budget's history, the repair parents. Operations: admit
and evaluate, rank, apply the plan's fates, compact, diagnose and reactivate, select parents, plan
mutations, generate, verify and integrate, record. Hard: nothing is concurrent, but one candidate
exists in several copies (live, answer lane, niche, cell, dormant), fates of one stage are read two
stages later, an exception leaves a round half done, and whether the record of a round is valid shows
only when a later launch restores it. Correct when: lanes agree with the newest fate, nobody is
lost, the best answer and the newborn survive a compaction, recorded plans replay.

**Seeding and breeding** (`nexus/loop/seeding.py`, `nexus/loop/offspring.py`, `nexus/reproduction.py`,
`nexus/search_kernel/harvesting.py`, `nexus/search_kernel/branch_allocator.py`, `nexus/semantic_dedupe.py`).
State: a harvest (targets, windows, stop reason), the deduper, branch slots with their lineages,
the credit of each lineage. Operations: a window of concurrent model requests and its ordered
consumption; allocation of slots; one request per slot, or one batch for all with a fallback;
binding of children to slots; strategy restarts; recording. Hard: requests of one window are told of
an older population; some of them fail; a harvest without a batch limit must end; credit is
recomputed from records and from whoever is still found. Correct when: no two candidates alike, each
request and slot accounted for once, credit only for what was allocated, the seeding ends.

**Latent ledger** (`outcomes/latent_ledger.py`, `outcomes/posterior_update.py`,
`outcomes/runtime_bridge.py`, part of `nexus/live_store.py` and `persistence/checkpoint.py`).
State: the ledger of evidence and the posterior in the contract's metadata; decision traces pinned
to a posterior; on disk a sidecar, an event log and, in the checkpoint, the ledger's hash. Operations:
ingest, rank, freeze, the four writes of the worker, restoration. Hard: three files that a crash may
leave in any prefix of their order; sessions that fork from an old checkpoint and write into the
log of the session before. Correct when: whatever a cache holds is in the log once; a remembered
decision follows from the ledger it was pinned to.

**Streaming response** (`api/streaming.py`). A bounded event queue between a worker and a slow
client, heartbeats, a time limit, and a cancellation when the client leaves. *Not modelled; see 5.*

**Evidence authority, obligations, patch sandbox** (`evidence/`, `verification/`,
`tools/patch_sandbox.py`). Challenge memory, the authority of an evidence record, obligations, copy and
patch of a project under a lock for each candidate. *Not modelled but for verdicts; see 5.*

### 1.2 The other components

`PROJECT.json` lists every source file under one component. The rest are pure computation
(scores, policies, ranking arithmetic, pool clustering, theory layer), serialisation (records,
reports, artifacts, stores), or input and output (prompts, providers, request parsing, command
line, external program runners). They keep no state that interleaves with anything; the loop's
model leaves their outcomes free.

### 1.3 How the components meet

    HTTP handler -> job table -> bounded executor -> engine = NexusRuntime
                       |                              |
                 job-status.json            EvolutionLoopController -> seeding, then rounds:
                                                      |                 evaluate .. record
                                                      |  checkpoints    -> archives, plan
                                                      |                 -> allocator, offspring
                                                      |                        -> LlmCall
                                            WriteBehindObserver -> LiveNexusStore
                                                                    |          |
                                                       SnapshotTransaction   EventStore
                                                                               | latent ledger

Each module models one box and states, at its upper edge, what the box above may rely on:
`SnapshotTransaction` implements `AtomicSnapshot`, so `LivePersistence` takes a commit as one step;
`LivePersistence` shows that checkpoints land in order and that a flush waits for all, which is
the disk of `EvolutionLoop`; `EvolutionLoop` ends, fails or pauses, which is the engine of
`JobService`. `Generation` and `Breeding` open up one round of `EvolutionLoop`: the first follows the
fates and archives of few candidates and lets offspring appear, the second follows where
offspring come from and keeps of fates what the credit of a lineage can see. `LatentLedger` uses the
actions of `EventStore` for its log, so that a torn write is the one modelled there.

## 2. Modules

| Module | Models | State | Actions |
|---|---|---|---|
| `DurableSteps` | run_step and reap on one step | `status`, `output` (files), `stale` (age of the status), `call` and `reap` (frames) | one per file access of `run_step`; the function's return or failure; crash; plan, re-read and mark of the reaper; the clock |
| `EventStore` | the event log | `log` as chunks between newlines, `acked`, `watermark` | append_once and append_many_once, append, a crash inside either, taking a watermark |
| `AtomicSnapshot` | what a snapshot promises | `value`, `survivors` | publish, make durable, power loss |
| `SnapshotTransaction` | commit and the readers | directories (`staging`, `published`, `files`), `current`, what a power loss may leave (`renamed`, `survivors`), `lock`, frames | one per file-system step of commit, its failure path, resolve, read and close of a reader, process death, power loss |
| `LivePersistence` | the observer and its worker | `queue`, worker stage and `error`, `snapshot`, `journal`, `events`, the caller's place, `left` (what workers of earlier sessions still hold) | notify, flush, close, final persist; take and each write of the worker; its failure; restart; resumption in the same process, and the writes of the worker left behind |
| `EvolutionLoop` | the controller and resume | budget variables, `pc`, `pending` checkpoints, `disk` | launch, seeding failure, round start, evaluate, reproduce, interruption, cancellation, synthesis, conclude, persist, crash, resume, returning a stored result |
| `JobService` | the job API | `registry`, `file`, `checkpoint`, `result`, `queue`, `worker`, `permits`, `future`, `loop`, `awaiting`; `leaked` and `overlapped` (history) | one per uninterrupted section of each handler and worker; restart |
| `LlmCall` | model calls of several threads | `spent`, `largest`, `reserved`, `gate` (session), `breaker`, `expired` (circuit), `slots`, `responses` (disk), `call` (frames) | begin, reserve, preflight, look up, the two halves of `before_call`, slot, provider's failure or answer, the three parts of `record_failure`, store, `record_success`, book, check, leave; the circuit's clock; crash |
| `Archives` | the archive manager and registry as operators: routing to lanes, removal, waking, best answer, survivors of a capacity | a record `arch` of the lanes | (operators) |
| `GenerationPlan` | a plan: order of its stages, its id as a hash of its fields, validation when built, applied and restored | a plan record | (operators) |
| `Generation` | the rounds of one run over few candidates, with `Archives` and `GenerationPlan` | `pool`, `arch`, `applied`, `plan`, `history`, `repair`, `hand`, `born` | evaluate, rank, assess, select parents, plan mutations, generate, no offspring, integrate, refuse a receipt, interrupt |
| `Harvest` | the harvester and the deduper as operators: what an answer adds, when a harvest stops, a window | a harvest record | (operators) |
| `Breeding` | seeding and the making of offspring, with `Harvest` | `issued`, `harvest`, `replies`, `live`, `stored`, `slots`, `refusal`, `hand`, `history` | open, answer and close a window, end or failure of the seeding, resume, measure, allocate, answer by slots or by a batch, integrate, interrupt |
| `LatentLedger` | the ledger in memory, its persistence and restoration, with `EventStore` | `ledger`, `posterior`, `traces`, `ref`; `pending`, `stage` of the worker; `sidecar`, `checkpoint`, the log | ingest, rank, freeze; log, sidecar, posterior and commit of the worker; restart, death inside a write to the log |
| `MCGeneration`, `MCBreeding`, `MCLatentLedger` | profiles of the small instances (niches, scores, meanings, keys) | | |
| `PersistenceProofs` | proofs about `SnapshotTransaction`, `DurableSteps` and `LivePersistence` | | |
| `EventStoreProofs`, `EvolutionLoopProofs`, `JobServiceProofs`, `LlmCallProofs`, `LatentLedgerProofs` | proofs about the module of that name; the last uses the proofs of `EventStore` through an instance | | |
| `GenerationProofs`, `BreedingProofs` | proofs about the module of that name, with `Archives` and `GenerationPlan`, and with `Harvest` | | |

Notes on the correspondence.

* *DurableSteps.* Each file is replaced atomically, so one action is one read or write. A hash
  stands for its input, an output for the input it was computed from. `input.json` is written and
  never read back, so it is not kept.
* *EventStore.* The file lock makes one call one action. A byte offset behind a newline is the
  number of chunks before it. `Multiline` events hold a character at which `str.splitlines` breaks and
  which `json.dumps(ensure_ascii=False)` leaves alone. A crash leaves a fragment of a line, one cut
inside a character, a whole event without its newline, or the newline or nothing of what a repair
writes first (`Tear`). The events of a batch that are kept are
  enumerated by their place in it (`Nth`, `At`).
* *SnapshotTransaction.* A file's content is named by the transaction that wrote it, so a
  generation is the set of files it holds. `renamed` and `survivors` are history variables for a
  power loss: which renames an fsync covers, and to which targets the pointer may fall back. The code
  swallows what goes wrong in a removal, so `Prune` and the cleaning of `Fail` may leave any part of any
  directory behind (`RemoveFiles`).
* *LivePersistence.* Updates are numbered within a session; the order of the writes inside
  `LiveNexusStore.write` is the order of the actions. The worker is a daemon thread that nothing stops when
  a run raises; a resumption in the same process builds an observer of its own
  (`nexus/runtime.py:490, 531`). What such a worker still holds is in `left`, by session, and it may write
  that at any time until the process dies (`EarlierWorkerWrites`); of its writes the commit of the
  snapshot is kept, since the two logs of the module are those of the session at hand.
* *EvolutionLoop.* A round's effect on the population is left out: its outcomes (a decision to
  stop, stagnation, offspring or none, a provider failure) are choices. A live checkpoint has an
  empty stop reason, as `freeze` builds it from the budget of the launch's start.
* *JobService.* A handler runs without interruption up to an `await`; worker threads interleave
  anywhere; a registry update is atomic and the write of the status file is a later step. That
  write succeeds here, while `_set_job` goes on without it (`api/jobs.py:197-200`). Pruning may take any
  terminal job at any time: which ones depends on age and on `max_tracked_jobs`. `leaked` counts the
  permits of tasks cancelled in the queue, `overlapped` holds the jobs of which two resume requests were
  suspended at once since the process started; no action reads either.
* *LlmCall.* A caller is one slot of a fan-out with one logical call, which it repeats after a
  failure or a crash. CPython switches threads only where a call is made, so the assignments of
  `record_success` are one action, and `record_failure` and `before_call` break where they read the
  clock. `expired` holds the threads whose reading is past the time the circuit was open for.
  `booked` is a history variable. Costs are whole units and 0 is an answer without a price.
* *Generation and Archives.* A candidate is an id with a profile fixed for the instance, and a body that changes.
  The profile has the orders the code compares by, one each: `Final` (`candidate_quality`, for the best
  answer, the capacity and the active floor), `Quality` (the score of a niche, which no smaller than that
  by its other terms, `archives/quality_diversity.py:20-57`), `Score` (the evaluators' metric, for the incumbent and
  the re-entry), and `Uncertainty`, `Value` and `Confidence` (for the admission). It also has the niches, cell, bin,
  root and whether there is an evidence delta (`Delta`), which lifts a freeze. Where `max` of
  Python takes the first of equals in the order of a dictionary, any of them may be taken (`BestAnswers`). The
  body is: fate, verdict of evaluators and
  verification, measured or not, new or not. Copies of a body are kept in a lane where the code reads the
  copy, and the id alone where it does not. What rankers and evaluators answer is a choice; what
  the stages do with the answer is not. A plan's id is the value that was hashed, so "the id fits" is an
  equality; the archive writes of a plan are made of its assignments and add nothing to that. `slots` are the slots of
  the branch allocation, beside the plan, and `receipts` those its intervention receipts name.
  `applied` is the part of the archive history a plan's witness is looked up in.
  Candidates are numbered from 1, and an update of the archives is a function by recursion over the
  numbers: the assignments are routed in the order of the code's loop, each seeing what the one
  before it left.
* *Breeding and Harvest.* A candidate is a text; two texts are alike by meaning or by artifact. A deduper is
  made anew for each harvest, and the population is given to it as if it were new: a candidate like one
  that is registered registers nothing (`Registered`, for every order of the list). A child that names no
  slot, or a parent that is not its slot's, is bound to one or marked, and the credit passes over who is
  marked, so that a child without a slot gives no inferred pull here; one with the claim of another lineage gives
  none either (`Earned`). The
  answers to a window arrive in any order and are consumed in the order of the requests, as
  `run_ordered_fanout` returns them. Of a child's later life three outcomes are kept: good (live or
  stored with a reward), dull, and bad (not found any more). The upper confidence bound is a choice
  among the lineages that are not fresh. Taking the candidates of an answer, consuming a window and
  binding the children of a batch to its slots are functions by recursion over a sequence.
* *LatentLedger.* The hash of a ledger is the ledger. An event's id is the event with its sequence
  number. A posterior carries the time it was made, which its session and cursor name: two
  sessions that fork never make the same one. The two events of a posterior, appended together, are one;
  the posterior's own file is written and never read, and left out. The texts in the ledger are free, so which of
  its rows replay would cut in two is a constant (`Multiline`); the instance takes those of one critique.

Definitions that start with a comment `Mutant:` are broken variants of the operator that follows
them. No specification uses them; the project substitutes each one for the operator named in
`PROJECT.json` to see that the property it is listed for notices the difference.

## 3. Runs

Passing runs. Every property also fails under one mutant of the code's translation:

| Run | Instance | What it shows |
|---|---|---|
| `DurableStepsRetried` | 1 runner, 1 reaper, 2 inputs, 3 attempts | own output, commit beside its output, only a reaper undoes a terminal status |
| `EventStoreOnce` | 3 events, one of them also appended plainly and one that replay cuts in two, 6 chunks, every kind of torn tail | no duplicate of a readable `append_once` event, acknowledged events keep their line |
| `LivePersistence` | 4 updates, 2 sessions | order, events after snapshots, flush is durable, the result is last, waits end, with a worker left behind by the first session |
| `SnapshotTransaction` | 2 writers, a leased and an unleased reader, 2 files, 3 commits | pointers name whole generations, leases hold, pruning spares a commit, refinement of `AtomicSnapshot` |
| `LlmCall` | 1 logical and 1 plain caller, 3 calls each, prices 0, 2 and 3, budget 6, 1 slot, 2 attempts, threshold 2 | spend stays within headroom, reservations return, booked answers are not paid again, the circuit is consistent, every call ends |
| `JobServiceAll` | 1 job, 2 workers, 2 suspended requests; create, resume, cancel, restart | permits match the load, engines meet and ends are reported early only by overlapping resumptions, no idle job reported running, every job ends |
| `EvolutionLoopRuns` | limit 2, extensions to 1 or 3, both budget modes, 3 launches, round limit at most 3 | each round ranked once, and explained by the checkpoint that counts it |
| `GenerationRounds` | 3 candidates of 2 qualities, 2 niches, 3 rounds, capacity 1, 2 places for parents | lanes follow fates, nobody vanishes, never empty, recorded plans replay, compaction spares the newborn and the best measured, the best answer survives |
| `Breeding` | 5 texts, 3 concurrent requests, no batch limit, 2 slots, 2 rounds | no two alike, windows are drained, the seeding wears out, slots are bound once, credit is earned, answers are accounted for |
| `LatentLedger` | 3 items with 2 keys, 5 ledger events, 7 log chunks, 2 sessions | caches are in the log once, decisions replay |

Two runs end in a counterexample, against the sentence they quote:

| Run | Sentence | What happens |
|---|---|---|
| `GenerationResume` | "When the exact id is absent, require a compatible archive witness instead of rejecting an otherwise valid checkpoint" (`nexus/generation_plan.py:254-255`) | a parent that came back from an archive is among the parents of the recorded plan and in none of its assignments; the checkpoint the program wrote is refused when it is restored |
| `JobServiceDoubleResume` | "Job is already active." (`api/openai_compat.py:243-244`) | two resume requests read a terminal status before either has its body, both are queued, and two engines work in one job directory |

Further properties are stated in the modules, hold on the same instances and are in no
configuration. A proof of section 4 covers the `TypeOK` and `IInv` of each module with a next-state
relation, `EventStore!AuditOnlyAdvances`, `SnapshotTransaction!PInv`,
`SnapshotTransaction!TwoGenerationsRemain`, `LivePersistence!SnapshotIsMonotonic`, `JobService!SInv`,
`JobService!AcceptedJobIsOnDisk`, `EvolutionLoop!RankedRoundsAreKept`, `Generation!HandIsNew`,
`Generation!NichesAgree`, `Breeding!RoundsHaveSeeds` and `Breeding!QuotaStopsSeeding`.
`JobService!ActiveJobIsInHand` (with create and resume requests only: cancellation and restart break it
as the list in 3.3 says) and `EvolutionLoop!SweepsAreApart` have none. Three fail, and 3.3 says how: `EvolutionLoop!PausedRoundIsNotCompleted`,
`Breeding!QuotaIsACleanPause`, `LatentLedger!LedgerIsRestored`.

### 3.1 Bounds, and why they are enough

* *DurableSteps*: three attempts give a first call, a retry after a failure, crash or reaping, and
  a call with another input after a commit; two inputs are what "another input" needs. One runner
  because the code gives two no protection: with two runners of one step `ReturnsOwnOutput` fails.
* *EventStore*: three events are one of each sort (readable, cut by replay, also appended plainly); batches
  of two give a batch with a repeated event and a retry behind a quarantined tail; six chunks hold two torn
  tails with their markers.
* *SnapshotTransaction*: three commits are what pruning needs to remove a generation; two
  writers and both kinds of reader cover every contention for the lock.
* *LivePersistence*: four updates let a flush, a failed write, a queue behind it and a close occur in one
  session; the second session resumes from the snapshot of the first, or beside its worker.
* *LlmCall*: two prices apart and one unknown are what an underestimated reservation needs; three calls
  give two priced ones that calibrate and two more that overlap, and the bound of
  `SpendWithinHeadroom` (8) is reached from a spend of 4; threshold 2 lets one thread fail while the other
  succeeds, waits in `before_call` or tries a half-open circuit. Three callers with two calls each pass too, in
  five minutes.
* *JobService*: one job is enough for the races on a job, and two workers with no place in the queue beyond
  them for two engines and for a full executor, which overlapping resumptions and permits lost to cancellations
  fill. Two suspended resume requests are what an overlap needs. The engine ends in an exception, an
  interruption, or with a result that asks for a continuation; "completed" differs only in what a
  rehydration reads, and there stands beside a missing result. With two jobs the state space is too large
  for a run; the proofs are for any number.
* *EvolutionLoop*: limit 2 gives a round that is last and one that is not; limit 3 is what an
  extension gives; a limit asked for that is behind the run is also tried. Three launches are a
  run, a resume and a resume of the resume.
* *Generation*: three candidates, two of them seeds, are an incumbent, a rival and a child; capacity 1
  makes every compaction choose; an admission limit of 2 defers one; three rounds let a candidate be
  put to sleep, woken and integrated again, and fail after it was an answer. The first two candidates
  are in one niche each and the third is in both, two are of equal quality, the orders of `Final`,
  `Quality` and `Score` disagree, and cells and roots overlap in part: a candidate is displaced in a niche by a better one or by its equal, and not in its cell. One may be
  an answer while asleep, and has an evidence delta (`Frontier`, `Delta`). One cell elite is kept for a bin. One is bound to a blocked source; nothing admits
  `negative_archive_only`, whose routing is in the module. 540 thousand states. Without the exception for an
  answer held by niches only, `AnswerSurvives` fails on this instance (3.3).
* *Breeding*: five texts give one pair alike by meaning, one by artifact and one apart; a window of three is
  what a low gain and a fatal error of one window need, with an answer behind them; `MaxBatches = 0` is the
  code's unlimited mode, in which only the counters of the harvest end it; two rounds are what credit
  needs to be read. One text is an incumbent of the operator, so that no two of them are alike there; that
  the deduper registers not all of alike ones is for the proof. The batch mode is on, and its fallback
  reaches the slots. 1.2 million states.
* *LatentLedger*: two items share a key, so one is a duplicate of the other in either order
  (the two are symmetric), and the rows of a third are cut in two by replay; five events hold an item, a
  posterior, a ranking and a duplicate; seven chunks hold the ledger, torn tails and their markers; one queued
  batch and two sessions are a fork. Two million states. Two queued batches or three sessions are too many
  for a search to end.

Deadlock checking is off where the system may stop: a committed step, a full bounded log, an
ended run, a server without requests, a full ledger.

### 3.2 Fairness

`LivePersistence!LPFairSpec`: the worker's thread runs, and the controller's thread returns from a
wait whose condition holds. Notifying, failing and resuming are not fair.
`JobService!FairSpec`: a handler that holds the event loop goes on, and each pool thread runs; an
engine returns or raises, because every model call and every sandboxed test has a timeout.
Requests, restarts and live checkpoints are not fair.
`LlmCall!FairSpec`: each thread goes on when it can, and a request ends, because it has a timeout
(`llm/retry.py:29`). Weak fairness is enough for the lock and the slots because a fan-out makes finitely many
calls; crashes, new calls and the circuit's clock are not fair. `JobsTerminate` is checked with
cancellation and restart, and names the two statuses that may stay behind: see 3.3.
`Generation`, `Breeding` and `LatentLedger` state no fairness: what they promise is safety. That a seeding
ends is `SeedingWearsOut`, a bound on the requests it may issue, which needs none.

### 3.3 Known behaviours the models keep

Reachable in the modules. First, those that contradict a sentence of the repository and need another
instance, or another property, than the runs above:

* An event with a Unicode line separator is unreadable to replay, so `append_once` writes it again;
  "preventing duplicate final progress/pipeline events" (`persistence/event_store.py:35-36`).
  `LoggedOnce` excepts the events of `Multiline`, and `CachesAreLogged` asks one copy or more of a row of
  the ledger in `Multiline`.
* A cancelled queued job never releases its permit; "The semaphore caps running plus queued jobs"
  (`api/executor.py:18-20`, and line 50). Restarts aside, each such cancellation lowers the capacity for
  good. `PermitsMatchLoad` counts these permits as `leaked`, and says that nothing else loses one.
* Two resumes pass the check before either leaves its `await`, and two engines work in one directory:
  run `JobServiceDoubleResume`. `EnginesMeetByOverlap` says that two engines meet in no other way, and
  `TerminalMeansStopped` excepts such a job, whose first engine to end reports an end.
* A run that raises, say with a `ValueError`, which no boundary of the loop catches, leaves its worker
  with what is queued. If the run is resumed in the same process, as the job service
  does, that worker replaces the snapshots and even the result of the new session by its older ones;
  "Lossless FIFO" (`durable/async_writer.py:1`). `EventsFollowSnapshots` and `ResultIsLast` fail without
  `Overtaken`, and say with it that only such a worker does this.
* A dormant candidate that a diagnosis wakes still carries the branch slot it was born in. Its
  intervention receipt then names a slot that the plan of the round does not have, and
  `append_intervention_receipt` raises `ReceiptValidationError` (`nexus/receipts.py:201-205`), after the
  population and the archives have changed; "Record reproduction facts without changing the
  intervention itself" (`nexus/receipts.py:548`). No boundary of the loop catches it, and the run ends: the action
  `RefuseReceipt`, which the run `GenerationRounds` takes.
* A run paused in its last round resumes with no round left and is reported completed;
  "resume the run after quota resets" (`nexus/loop/controller.py:528-531`). With limit 2, a fixed budget,
  no extension and two launches, `PausedRoundIsNotCompleted` fails.
* A batch of offspring refused for quota falls back to one request per slot, and the remaining slots
  are asked after a 429, since only the first error decides on a pause (`nexus/loop/offspring.py:337`);
  "quota and rate-limit failures must become a clean pause" (`nexus/model_errors.py:3-6`).
  `QuotaIsACleanPause` fails on the instance of `Breeding` after 13 steps.
* The worker replaces the sidecar of the ledger before it commits the snapshot that holds the ledger's
  hash. A crash or a failed write between the two leaves a sidecar that the older checkpoint refuses,
  and the next launch starts without a ledger; "Write one immutable batch with full crash-atomic
  durability" (`nexus/live_store.py:216`). `LedgerIsRestored` fails on the instance of
  `LatentLedger` after 10 steps. Rankings stay pinned to a posterior whose evidence the ledger no
  longer holds, which is why `DecisionsReplay` excepts a lost ledger; the event log, which holds every event, has
  no reader at run time.

Then, those no sentence excludes:

* A failed candidate's copy stays in its descriptor cell (`archives/registry.py:79` clears every lane but
  the cells), and the re-entry of elites reads cells: a tombstoned candidate may be a parent again
  (`plan.parents` meets `arch.tomb` after 14 steps of `GenerationRounds`), although "the failed
  candidate is not a live parent" (`nexus/fate_semantics.py:85`).
* Waking a dormant candidate takes it from every lane. If the deduper then refuses it, or an exception
  ends the round first, it is nowhere, even if it was the only answer: `NobodyVanishes` and
  `AnswerSurvives` except who was woken.
* A niche goes to a newcomer that ties its holder (`archives/quality_diversity.py:274`), be it fit for an
  answer or not. An answer that only niches hold, because it is active or its source keeps it out of
  the answer lane, may lose them to candidates that are parked, and then no answer as good may be left:
  the clause `Displaced` of `AnswerSurvives`.
* Incumbents the operator provides enter without the deduper (`nexus/loop/seeding.py:152-163`), so two
  of them may be alike. The deduper is then given both and registers neither the meaning nor the artifact
  of the one it refuses (`nexus/semantic_dedupe.py:21-40`), so that a later text like that one, by the trait
  that the two do not share, is accepted, and one like it in turn once it is itself refused.
  `CandidatesDiffer` speaks of those sets of texts that no other text is like and in which the
  incumbents differ.
* Pruning and the cleaning after a failed commit swallow what goes wrong in them
  (`persistence/transactional_snapshot.py:258-264`): any number of generations and parts of them may stay.
  `TwoGenerationsRemain` says only that the new one and the one it replaced are whole.
* A fatal error later in a window writes "model_error" over a stop for low gain
  (`nexus/search_kernel/harvesting.py:172-173`), and the answers behind the stop stay unread:
  `WindowsAreDrained` looks at the streak, not at the reason.
* A candidate the admission deferred may be compacted away unmeasured. While the reservations fill the
  admission limit a candidate of low uncertainty is deferred for ever.
* A child the verification failed stays in the live population until the next round.
* A restart child that is refused books its risk on the new lineage it would have opened
  (`candidates/mutation.py:432-433`), while its slot was a pull of another arm
  (`nexus/search_kernel/branch_allocator.py:399-406`): `CreditIsEarned` allows such a lineage one risk
  beyond its pulls.
* Low gain ends a harvest in the middle of a window, and answers already paid for are dropped:
  `WindowsAreDrained` excepts it.
* The slots of an interrupted round are no pulls, and the risk of a culled child is not found again:
  `CreditIsEarned` speaks of recorded slots.
* A seeding that met a quota error but has some candidates goes straight on to the rounds, which a
  test of the repository expects.
* A queued resumption that is cancelled stays `cancellation_requested` for ever, and is refused
  as active (`api/openai_compat.py:284-292`).
* After a restart a job in `resuming` keeps that status and is refused as active
  (`api/jobs.py:283`): the list of lost statuses there does not hold it. `IdleJobIsNotRunning`
  therefore speaks of `queued` and `running` only.
* Two status writes of one job may reach the file in the other order (`api/jobs.py:195`).
* A job that expired between a handler's check and its update comes back as a record without a
  task directory, whose statuses are not written (`api/jobs.py:189`).
* A tail cut inside a multi-byte character makes every later replay raise (`event_store.py:188`), and with
  it every `append_once`. The events before it keep their lines (`AckedEventsStay`), and no code repairs
  the line that prevents them from being read.
* An acknowledged event with a separator of lines keeps its line and is never replayed.
* An answer that was paid for and refused is not booked, and of several paid attempts only the last
  is (`llm/transport.py:575`): `SpendWithinHeadroom` speaks of booked spend. A resumption starts a new session,
  with nothing booked.
* `before_call` raises `TypeError` when another thread's success removes `opened_at` while it reads the
  clock (`durable/provider_circuit_breaker.py:36`); the call fails without a record.
* A stop for review decided in the last checkpointed round does not survive a crash before the
  final persist (`nexus/live_store.py:114`): the resumption evolves on.

## 4. Proofs

Checked by TLAPS for every value of the constants that satisfies the modules' assumptions.

**`PersistenceProofs`**, in three parts. The module extends all three specifications, and so the names of
`DurableSteps` and `LivePersistence` that would clash carry the prefixes `DS` and `LP`.

*SnapshotTransaction*. Without further assumptions: `TypeCorrect`, `Invariance`,
`SnapshotsAreWhole`, `LeasesHold`, `OneCommitIsSpared`, `TwoRemain`, and `TransactionIsAtomic` (the
specification implements `AtomicSnapshot`). The invariant ties a writer's place to what is on disk
(`CommitProgress`), the lock to the frame that holds it (`LockIsHeld`), ids to one transaction each
(`IdsAreFresh`), and every pointer a power loss may bring back to a generation whose rename an fsync
covers (`PointersAreDurable`); without the last, `PointersAreWhole` breaks at a power loss.
`TwoRemain` holds of a pruning that may leave anything behind and of failures at any place: it says what is
never removed.
`StepSimulation` maps each step: the pointer's replacement is the abstract publish, the fsync of
the root the abstract make-durable, a power loss the abstract one, and all others stutter.
A reader without a lease is safe for one commit because of `RootIsSpared`: until a commit publishes, its
root is the current generation, and then the predecessor that this commit keeps. That needs
`CommitKnowsItsPlace`, since the predecessor is read at the start of the commit and used at its end.

*DurableSteps*. `DSTypeCorrect`: any number of runners and reapers. Under
`SingleRunner` (one process at a time runs the step, which is how callers use it and which
nothing in the code enforces), with any number of reapers: `DSInvariance`, `CommitsKeepTheirOutput`, `CallsReturnTheirOutput`, `RunnersKeepTerminal`.
That a terminal status stays is not among these: a reaper that read `inflight` before a commit
writes `retryable_failed` over it (`durable/resume_planner.py:93`), although its plan says
"committed_step_will_not_rerun"; `OnlyReapersUndoTerminal` says that nothing else does.

The invariant `DSIInv` is needed because `CommittedHasItsOutput` is not inductive: at the last write
of a commit one must know that the output on disk is the one of the call's input, and at every
earlier write that the file cannot already be committed. `CallIsSound` says so for each place of
the call: the copy of the status it holds is not committed and carries its input's hash from the
stamp on. `FrameKnowsTerminal` adds that a copy never lags behind a terminal status: reapers may
change the file under a call, but only from `inflight`, or by a late mark, which is not terminal.
`DSInductiveStep` proves the first part step by step, `KnowledgeStep` the second on top of it, and
`TerminalStep` the action property from both.

*LivePersistence*. For any numbers of updates and sessions and any capacity of the queue:
`LPTypeCorrect`, `LPInvariance`, `DiskIsAPrefix`, `EventsAreBacked`, `WaitsMeanDurable`, `ResultStaysLast`,
`SnapshotOnlyAdvances`. The updates accepted are one sequence cut in three: events on disk, the batch of
the worker, the queue (`QueueIsTheRest`, `WorkerIsNext`). After a failed write the cut has a gap,
and nothing is taken any more; that is why a flush must raise. `StopFollowsClose` orders the stop
item, the end of the worker and the publication of the result, from which the result stays last. Workers of
earlier sessions that the process still has touch the snapshot only (`LeftUntouched`), and a snapshot of theirs
shows by its session (`EarlierWorkersOvertake`), which is the clause `Overtaken` of three of the properties.

**`EventStoreProofs`.** For any events, batches and bounds: `TypeCorrect`, `Invariance`,
`EventsAreLoggedOnce` (an event that replay can read, and that only `append_once` writes, is
in the log at most once), `AcknowledgedStays` (what was acknowledged keeps a line of its own) and
`AuditsAreStable`, for any texts and any torn tail. What replay returns is left out on purpose: see 3.3 for texts and
tails it cannot read. The audit and once-only logging need the
invariant that only the last chunk may lack its newline (`OnlyTheTailIsTorn`), since a repair looks at
that one only. `WriteGrows` and `TearGrows` reduce every operation, and every death inside one, to
`Grown`: every chunk keeps its kind and event, whole ones keep everything, and the event chunks that
follow are the events of the batch, each once and in order. `NthEnumerates` shows that the enumeration of a
batch's kept events meets each once; its induction is the choice of a least counterexample, which the
library's well-foundedness of the naturals allows.

**`EvolutionLoopProofs`.** For any limits, extensions and numbers of launches: `TypeCorrect`,
`Invariance`, `NoRoundIsRankedTwice`, `CheckpointsExplainTheirRounds`, `DurableRankingsStay`. A history
tells of the first n rounds when each has a record and at most one ranking (`TellsOf`). The history in
memory does, for the round before the one under way while that is evaluated; each queued checkpoint and
the one on disk do for their own counter, so a resumption from any of them counts on.
`RankingsOnlyGrow` orders the three: a crash loses what was not written and nothing else.

**`JobServiceProofs`.** For any jobs, workers and requests: `TypeCorrect`, `Invariance`,
`SemaphoreCapsTheLoad` (tasks queued or running never exceed the capacity), `NobodysJobIsNotRunning`,
`TasksHaveStatusFiles`, `PermitsAreKept`, `EnginesDoNotShareAJob` and `TerminalJobsHaveStopped`, none of them
under a further assumption. The count of the permits is exact, cancellations included, as the history
variable `leaked` names the permits of tasks that were cancelled in the queue. Any number of resume requests may be
suspended; two engines share a job, or work behind a terminal status, only for a job in `overlapped`. Reported states are backed by
`BusyIsInWork`: a job that is `queued` or `running` in the table is with a handler, in the queue or with a
worker. That the status file exists before a worker reads it needs `KnownIsOnDisk`, through every
request that works on a snapshot of the record. That engines meet by overlap only needs `SInv`: no job outside
`overlapped` is twice in queue and hands, and one that is anywhere there is active in the table, which the
check of a resumption reads before its `await`, and has nobody suspended.

**`LlmCallProofs`.** Without further assumptions: `TypeCorrect`, `Invariance`,
`ReservationFollowsCalls`, `GateFollowsCalls`, `ConcurrentSpendIsBounded`, `BookedIsNotPaidAgain` and
`CircuitStaysConsistent`, for any number of callers, prices, slots and attempts. That a booked answer is not
paid again is inductive only together with `StoredBeforeBooked`: the look-up must find what any
process booked. The circuit needs `CountExplainsCircuit`: a thread whose clock reading has expired may
set it half open later, and the count must still be at the threshold then, although others fail and
succeed meanwhile. The reservation is counted as a set of units, one for each unit of budget that a
call holds, so that a change of one call is the union with, or the difference of, a disjoint
set. The bound on the spend rests on `HeadroomIsKept`: what is booked and what may yet be booked on
reservations fits the budget, but for the calls that left their reservation behind, each of
which may have cost the spread of the prices more than it held; and on `HoldingsFollowPrices`, since a
first call of unknown price reserves nothing and holds the lock instead. `MoneySteps` lists what a
step may do to the account, and `AccountStep`, `HoldingsStep`, `KeptStep`, `PaymentStep` and
`CircuitStep` prove the parts from it and from `TypeStep`.

**`LatentLedgerProofs`.** For any evidence, keys, sessions and bounds: `TypeCorrect`, `Invariance`,
`CachesAreInTheLog`, `DecisionsCanBeReplayed`, and `LogIsAnEventStore`: to the log, the worker and
its restarts are a behaviour of `EventStore`, whichever rows are `Multiline`. The refinement lets the invariant of the log be taken over
from `EventStoreProofs` instead of proved again (`LogIsKept`). `LogGoesFirst` adds that a ledger
is acknowledged before the sidecar or a checkpoint names it, also one that a batch names by its hash
only. `NothingIsForgotten` adds that every batch and the checkpoint carry the ledger their
decisions replay from; an event more leaves the replay up to an earlier cursor as it was
(`LedgerGrows`). It is assumed, and named as assumption, that the value for "no ledger" is no ledger.

**`GenerationProofs`.** For any candidates with any profiles, capacities, limits and rounds: `TypeCorrect`,
`Invariance`, `LanesFollow`, `NobodyIsLost`, `PopulationLives`, `RecordsReplay`, `CompactionsSpare` and
`AnswerStays`. An update of the archives is a function by recursion over the numbers of the
candidates. The library's induction takes an operator and cannot be used; `Induction`, of a set of
numbers, follows from the well-foundedness of the naturals, and with it `UpdateUnfolds` derives the
recursive equation and `UpdateRoutes` what an update does to every lane: the lanes of those routed are
those of their fates, and all others keep theirs (`Routed`). What a compaction does follows from two such
updates (`CompactionEffect`). The inductive invariant `IInv` has these parts beside the properties
themselves. `TerminalIsIndexed`: from the ranking on, whom the live object calls terminal the index calls terminal
too, for a compaction tombstones by the index and drops the live one. `SomebodyStays`: one live candidate is not
terminal and no compaction of this round ends it; without it `NeverEmpty` says nothing about the next
step.
`OffspringAreApart`: who is in hand is not live, active, and not recorded otherwise in the index, so that
its failure or its joining takes nobody else's lane. `PlanIsApplied`: the plan at hand has the stages of its place, the id
its fields give now, no receipts yet, and an entry in the archive history.

`CompactionsSpare` needs `HandIsNew` besides: a child keeps the mark by which the compaction spares it. Its
argument is that the incumbent is the best measured candidate under a total order (`BetterOrders`,
`IncumbentIsBest`) and is protected, so that whoever the capacity turns away leaves a better one. `AnswerStays`
needs `NichesAgree`: the copies one candidate has in several niches are the same, hence it does not matter which
of them an answer is judged by. `UpdateNiches` says by the same induction who holds a niche after an
update, `SameAnswers` that terminal candidates which are no answers do not change the set of answers, and
`CompactionAnswers` that the best one is protected from the capacity but not from losing its niches, which is
why the property has the clause of 3.3.

**`BreedingProofs`.** For any texts, likeness, workers, patience, targets, slots and rounds: `TypeCorrect`,
`Invariance`, `PopulationDiffers`, `EveryAnswerIsRead`, `RequestsAreBounded`, `SeedsFirst` (`RoundsHaveSeeds`),
`OneChildPerSlot`, `CreditIsDue`, `RecordsAccount` and `QuotaEndsSeeding` (`QuotaStopsSeeding`). The recursive
functions of `Harvest` and the binding of a batch are treated as above: a lemma unfolds each, a lemma says by
induction what it makes of a harvest. That no two candidates are alike needs the same of what the harvest has
accepted and of the children in hand, relative to whom the deduper registered (`AreApart`), and that whoever differs
from these differs from all of whom the deduper was told, among texts where the operator's differ
(`JoinersDiffer`). The bound on the
requests is inductive only with a measure of progress: a harvest that goes on has consumed every window it
issued, and each of these raised the count of qualified candidates or the streak (`WindowsProgress`). That a slot
has one child needs every place a child can be to be disjoint from the others: live, stored, refused and in
hand (`ChildrenAreBound`, `RefusalsAreBound`), and the ids of a round to be those after all earlier rounds
(`SlotsArePlanned`), which an interruption does not disturb as it records no slots. `CreditIsDue` follows from
that by counting: rewarded, risky and refused slots inject into the planned ones, but for the founder of a
lineage. `RecordsAccount` needs `HandIsAccounted` at the time a round is recorded.

**Only model-checked**: liveness under fairness (`WaitsEnd`, `JobsTerminate`, `CallsEnd`), which the prover
does not treat; the counterexamples (`CheckpointCanBeRestored`, `OneEnginePerJob` and the failing
properties of 3.3); and
`EvolutionLoop!SweepsAreApart` and `JobService!ActiveJobIsInHand`, which nobody has proved yet. Every other invariant
and action property of the passing runs, and the refinement, is a theorem; those of `DurableSteps` assume
one runner, and no other assumes more than its module does.

## 5. Plan

Order by how much of the system rests on a part and how hard it is to test.

1. Done: the three storage protocols, `JobService`, `EvolutionLoop` and `LlmCall`; `Archives`,
   `GenerationPlan`, `Generation`, `Harvest`, `Breeding`; `LatentLedger`; the proofs of section 4.
2. Proof of `SweepsAreApart` of `EvolutionLoop`, from the phases a checkpoint may hold.
3. `StreamResponse`: the bounded queue between worker and client. Read so far: with room for at least
   eight events (`api/streaming.py`, `_stream_queue_size`) the event dropped for the answer, and then for
   the end marker, is always a progress event; a stream that is abandoned or timed out while queued has its
   future cancelled, and loses its permit as a job does.
4. `PatchSandbox` (two locks around a copy, one process for each candidate) and `ChallengeMemory`
   (authority of an evidence record); both are sequential under their locks and come last.

## 6. Not modelled, and why

The modules stand for about a tenth of the package's lines. Of its 68 thousand, most build prompts and
repair answers, compute scores, ratings and policies in floating point, compile objectives into
contracts, serialise records, or write reports. None of that keeps state between two calls that another
step could see half done; a module of it would copy it line for line and say nothing a unit test does not
say sooner.

* Texts, prompts, scores, ratings and policies: their results are free choices where a protocol
  depends on them (fates a ranking gives, verdicts, answers, upper confidence bounds).
* Islands (`nexus/search_kernel/islands.py`): an allocation by ratios of scores. An island without
  parents loses its slots without a record, which a reader of the allocation should know.
* Lanes for novelty, rarity, mechanism, latent candidates and patches: filled and cleared with the
  others, read by scoring and reports only. Of mutation and crossover, the rewriting of text.
* Of the ledger: retraction, supersession and compaction, which no code calls. The ledger of problem
  models, obligations and the runners of verification.
* The cache of verification results (`verification/cache.py`): a table under the hash of artifact and
  verifier, filled and read inside one lock, so that the pool of verifiers runs one after the other
  there; a result stays for the whole run, also that of a verifier whose tool failed.
* The rate windows of `llm/governor.py` and of `api/guards.py`, the gain-token control of the budget, the
  chat-completion route and project mode, which differs from text mode in its inputs.
* External programs and providers: only how they end.
* The file system beyond atomic replacement, rename, fsync and advisory locks, which are taken
  to do what POSIX says.
* Two runs in one run directory: `JobServiceDoubleResume` is where it starts; what two loops then do
  to one directory is not followed, but for the worker one leaves behind when it has raised
  (`LivePersistence`).
* A failure to write `job-status.json`, which the service logs and passes over: then
  `AcceptedJobIsOnDisk` does not hold.
* Children without a branch slot: those of the deterministic operators and of checkpoints written by earlier versions.
