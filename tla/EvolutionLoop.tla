------------------------------ MODULE EvolutionLoop ------------------------------
(***************************************************************************)
(* EvolutionLoopController: the rounds of a Nexus run, its interruptions,  *)
(* what each checkpoint says, and NexusRuntime.resume_from_checkpoint.     *)
(* A launch is one call of run_text/run_project or of the resume.  What a  *)
(* round does to the population is left out: its outcomes are choices.     *)
(* The path of a checkpoint to the disk is LivePersistence, of which this  *)
(* module keeps what that one promises: checkpoints land in order, some of *)
(* the latest are lost with the process, and a flush waits for them all.   *)
(***************************************************************************)
EXTENDS Naturals, Sequences, FiniteSets, SequencesExt

CONSTANTS Limit,       \* max_rounds, or the safety limit, of the first launch
          Modes,       \* the values of budget.adaptive explored
          MinRounds,   \* budget.min_rounds_before_stop
          Extensions,  \* the max_rounds a resume may ask for
          MaxRound,    \* bound on the round limit
          MaxLaunches  \* bound on the launches

ASSUME EvolutionLoopAssumption ==
    /\ {Limit, MinRounds, MaxRound, MaxLaunches} \subseteq Nat \ {0}
    /\ Limit <= MaxRound /\ Modes \subseteq BOOLEAN /\ Extensions \subseteq Nat \ {0}

VARIABLES adaptive,     \* budget.adaptive, which every checkpoint carries on
          pc,           \* where the controller is
          launches,     \* launches so far
          seeded,       \* the population is not empty
          current,      \* budget.current_round
          limit,        \* budget.round_limit
          phase,        \* budget.search_phase
          stop,         \* budget.stop_reason
          interrupted,  \* controller.interrupted
          history,      \* budget.history
          pending,      \* checkpoints handed to the live observer, not yet durable
          disk          \* the durable checkpoint, with the run result it came with

vars == <<adaptive, pc, launches, seeded, current, limit, phase, stop, interrupted, history,
          pending, disk>>
budget == <<adaptive, current, limit, phase, stop, interrupted, history>>

Phases == {"explore", "exit_sweep"}
ErrorStops == {"cancelled", "quota", "model"}
Stops == ErrorStops \union {"", "review", "unsolved", "exhausted", "max_rounds", "completed"}

Ranked(round, evaluated, why) ==
    [round |-> round, ranked |-> TRUE, phase |-> evaluated, limit |-> limit,
     receipt |-> FALSE, stop |-> why]
Error(round, why) ==
    [round |-> round, ranked |-> FALSE, phase |-> phase, limit |-> limit,
     receipt |-> FALSE, stop |-> why]

\* Mutant: the checkpoint names the round before.
LiveCheckpointBehind(round, hist, ph) ==
    [round |-> IF round = 0 THEN 0 ELSE round - 1, limit |-> limit, phase |-> ph,
     stop |-> "", status |-> "none", seeded |-> seeded, history |-> hist]

\* A live checkpoint: the observer keeps the budget of the launch's start, whose stop
\* reason is empty, and refreshes the round and the search phase only.
LiveCheckpoint(round, hist, ph) ==
    [round |-> round, limit |-> limit, phase |-> ph, stop |-> "", status |-> "none",
     seeded |-> seeded, history |-> hist]

Status == IF interrupted
          THEN IF stop = "quota" THEN "paused_quota" ELSE "interrupted_checkpointed"
          ELSE IF stop = "unsolved" THEN "needs_continuation" ELSE "completed"

\* The checkpoint of the final persist, committed with run-result.json.
FinalCheckpoint ==
    [round |-> current, limit |-> limit, phase |-> phase, stop |-> stop, status |-> Status,
     seeded |-> seeded, history |-> history]

NoCheckpoint == [round |-> 0, limit |-> Limit, phase |-> "explore", stop |-> "",
                 status |-> "absent", seeded |-> FALSE, history |-> <<>>]

Init == /\ adaptive \in Modes
        /\ pc = "new" /\ launches = 0 /\ seeded = FALSE
        /\ current = 0 /\ limit = Limit /\ phase = "explore" /\ stop = ""
        /\ interrupted = FALSE /\ history = <<>>
        /\ pending = <<>> /\ disk = NoCheckpoint

---------------------------------------------------------------------------
(* A launch *)

\* The first launch seeds the population and writes the post_seeding checkpoint.
Launch == /\ pc = "new"
          /\ launches' = 1
          /\ seeded' \in BOOLEAN
          /\ pc' = "loop"
          /\ pending' = <<[LiveCheckpoint(0, <<>>, phase) EXCEPT !.seeded = seeded']>>
          /\ UNCHANGED <<budget, disk>>

\* Mutant: no error record.
InterruptWithoutRecord(round, why) ==
    /\ interrupted' = TRUE /\ stop' = why
    /\ pending' \in {pending, Append(pending, LiveCheckpoint(round, history, phase))}
    /\ UNCHANGED <<adaptive, limit, phase, history>>

\* The error record, the stop reason and the error checkpoint of an interruption; an
\* observer that fails is ignored.
Interrupt(round, why) ==
    /\ interrupted' = TRUE /\ stop' = why
    /\ history' = Append(history, Error(round, why))
    /\ pending' \in {pending, Append(pending, LiveCheckpoint(round, history', phase))}
    /\ UNCHANGED <<adaptive, limit, phase>>

\* run() meets a seeding that failed before any round.
SeedingFailed == /\ pc = "loop" /\ pending = <<>>
                 /\ current = 0 /\ ~seeded
                 /\ \E why \in {"quota", "model"} : Interrupt(0, why)
                 /\ pc' = "synthesis"
                 /\ UNCHANGED <<launches, seeded, current, disk>>

MayRun == /\ pc = "loop" /\ (history = <<>> => pending = <<>>)
          /\ seeded \/ current > 0
          /\ current < limit

\* _raise_if_cancelled, before the round is entered; a resume passes no callback.
CancelRound == /\ MayRun /\ launches = 1
               /\ Interrupt(current + 1, "cancelled")
               /\ pc' = "synthesis"
               /\ UNCHANGED <<launches, seeded, current, disk>>

StartRound == /\ MayRun
              /\ current' = current + 1
              /\ pc' = "evaluate"
              /\ UNCHANGED <<adaptive, launches, seeded, limit, phase, stop, interrupted,
                             history, pending, disk>>

LoopEnds == /\ pc = "loop" /\ (history = <<>> => pending = <<>>)
            /\ seeded \/ current > 0
            /\ ~(current < limit)
            /\ pc' = "synthesis"
            /\ UNCHANGED <<launches, seeded, budget, pending, disk>>

---------------------------------------------------------------------------
(* One round *)

\* Stagnation receipts of the last record are consumed by the transition they cause.
NewReceipts == history # <<>> /\ Last(history).receipt

\* costTail: what is left of the cost budget is at most one call's cost.
NextPhase(why, costTail) ==
    CASE why # "" \/ ~(current < limit) -> phase
      [] OTHER -> IF phase = "exit_sweep" THEN "explore"
                  ELSE IF NewReceipts \/ limit - current = 1 \/ costTail THEN "exit_sweep"
                  ELSE phase

\* The stop decision of the round, forbidden before the minimum of rounds.
Decisions == IF current < MinRounds THEN {""} ELSE {"", "review", "unsolved"}

\* Evaluation, phase boundary, record and post_ranking_critique checkpoint.  The reason
\* "max_rounds" reaches the record only after that checkpoint was frozen.
Evaluate ==
    /\ pc = "evaluate"
    /\ \E why \in Decisions, costTail \in BOOLEAN :
         LET record == Ranked(current, phase, why)
             ending == IF why # "" THEN why ELSE IF current >= limit THEN "max_rounds" ELSE ""
         IN /\ phase' = NextPhase(why, costTail)
            /\ pending' = Append(pending, LiveCheckpoint(current, Append(history, record), phase'))
            /\ history' = Append(history, [record EXCEPT !.stop = ending])
            /\ stop' = ending
            /\ pc' = IF ending = "" THEN "reproduce" ELSE "synthesis"
    /\ UNCHANGED <<adaptive, launches, seeded, current, limit, interrupted, disk>>

\* Reproduction yields offspring, or stops the run without a post_mutation checkpoint.
Reproduce ==
    /\ pc = "reproduce"
    /\ \E receipt, fruitless \in BOOLEAN :
         LET record == [Last(history) EXCEPT !.receipt = receipt,
                                             !.stop = IF fruitless THEN "exhausted" ELSE ""]
         IN /\ history' = Append(Front(history), record)
            /\ stop' = record.stop
            /\ pc' = IF fruitless THEN "synthesis" ELSE "loop"
            /\ pending' = IF fruitless THEN pending
                          ELSE Append(pending, LiveCheckpoint(current, history', phase))
    /\ UNCHANGED <<adaptive, launches, seeded, current, limit, phase, interrupted, disk>>

\* A model boundary error in the round.
RoundFails == /\ pc \in {"evaluate", "reproduce"}
              /\ \E why \in {"quota", "model"} : Interrupt(current, why)
              /\ pc' = "synthesis"
              /\ UNCHANGED <<launches, seeded, current, disk>>

---------------------------------------------------------------------------
(* _finalize, and the final persist of the runtime *)

\* The synthesis model fails recoverably; after an interruption no model is asked.
SynthesisFails == /\ pc = "synthesis" /\ ~interrupted
                  /\ \E why \in {"quota", "model"} : Interrupt(current, why)
                  /\ UNCHANGED <<pc, launches, seeded, current, disk>>

\* The default stop reason and the final_synthesis checkpoint.
Conclude == /\ pc = "synthesis" /\ (interrupted => pending = <<>>)
            /\ stop' = IF stop # "" THEN stop
                       ELSE IF current >= limit THEN "max_rounds" ELSE "completed"
            /\ pending' = Append(pending, LiveCheckpoint(current, history, phase))
            /\ pc' = "persist"
            /\ UNCHANGED <<adaptive, launches, seeded, current, limit, phase, interrupted,
                           history, disk>>

Persist == /\ pc = "persist" /\ pending = <<>>
           /\ disk' = FinalCheckpoint
           /\ pc' = "done"
           /\ UNCHANGED <<launches, seeded, budget, pending>>

\* The worker of the live observer commits the oldest checkpoint.
CheckpointLands == /\ pending # <<>>
                   /\ disk' = Head(pending)
                   /\ pending' = Tail(pending)
                   /\ UNCHANGED <<pc, launches, seeded, budget>>

\* The process dies, or leaves the launch by an exception nobody recovers from.
Crash == /\ pc \notin {"new", "done", "down"}
         /\ pc' = "down" /\ pending' = <<>>
         /\ seeded' = FALSE /\ current' = 0 /\ limit' = Limit /\ phase' = "explore"
         /\ stop' = "" /\ interrupted' = FALSE /\ history' = <<>>
         /\ UNCHANGED <<adaptive, launches, disk>>

---------------------------------------------------------------------------
(* resume_from_checkpoint; ask = 0 when no max_rounds is given *)

Larger(m, n) == IF m >= n THEN m ELSE n

\* resume_evolution_budget
ResumeLimit(ask) == IF ask # 0 THEN Larger(ask, disk.round + 1)
                    ELSE IF adaptive THEN disk.round + disk.limit
                    ELSE Larger(disk.limit, disk.round)

MayResume == pc \in {"down", "done"} /\ disk.status # "absent" /\ launches < MaxLaunches

\* restore_budget puts back the history that resume_evolution_budget leaves empty.
RestoredHistory == disk.history

\* A terminal checkpoint that is not extended returns the persisted run result.
Terminal(ask) == disk.stop = "review" /\ (ask = 0 \/ ask <= disk.limit)

ReturnStored == /\ MayResume
                /\ \E ask \in Extensions \union {0} : Terminal(ask)
                /\ launches' = launches + 1
                /\ pc' = "done"
                /\ UNCHANGED <<seeded, budget, pending, disk>>

Resume == /\ MayResume
          /\ \E ask \in Extensions \union {0} :
               /\ ~Terminal(ask)
               /\ ResumeLimit(ask) <= MaxRound
               /\ limit' = ResumeLimit(ask)
          /\ launches' = launches + 1
          /\ current' = disk.round
          /\ phase' = disk.phase /\ history' = RestoredHistory
          /\ stop' = "" /\ interrupted' = FALSE
          /\ seeded' \in {disk.seeded} \union (IF disk.round = 0 THEN {TRUE} ELSE {})
          /\ pc' = "loop"
          /\ UNCHANGED <<adaptive, pending, disk>>

Next == \/ Launch \/ SeedingFailed \/ CancelRound \/ StartRound \/ LoopEnds
        \/ Evaluate \/ Reproduce \/ RoundFails
        \/ SynthesisFails \/ Conclude \/ Persist \/ CheckpointLands
        \/ Crash \/ ReturnStored \/ Resume

Spec == Init /\ [][Next]_vars

---------------------------------------------------------------------------
(* Properties *)

Records == [round : 0..MaxRound, ranked : BOOLEAN, phase : Phases, limit : 1..MaxRound,
            receipt : BOOLEAN, stop : Stops]
Checkpoints == [round : 0..MaxRound, limit : 1..MaxRound, phase : Phases, stop : Stops,
                status : {"none", "absent", "completed", "needs_continuation", "paused_quota",
                          "interrupted_checkpointed"},
                seeded : BOOLEAN, history : Seq(Records)]

\* The variables keep their types, and the budget never runs past its limit.
TypeOK == /\ adaptive \in BOOLEAN
          /\ pc \in {"new", "loop", "evaluate", "reproduce", "synthesis", "persist", "done",
                    "down"}
          /\ launches \in 0..MaxLaunches /\ seeded \in BOOLEAN
          /\ limit \in 1..MaxRound /\ current \in 0..limit /\ phase \in Phases
          /\ stop \in Stops /\ interrupted \in BOOLEAN
          /\ history \in Seq(Records) /\ pending \in Seq(Checkpoints) /\ disk \in Checkpoints

RankedRounds(hist) == {hist[i].round : i \in {j \in DOMAIN hist : hist[j].ranked}}
RankedCount(hist) == Cardinality({i \in DOMAIN hist : hist[i].ranked})

\* Crashes, interruptions and resumes never make the run evaluate a round twice: the
\* history, in memory and on disk, ranks each round at most once.
EachRoundRankedOnce ==
    \A hist \in {history, disk.history} : RankedCount(hist) = Cardinality(RankedRounds(hist))

\* A checkpoint that says a round is behind the run has the record of that round,
\* its ranking or the error that cut it short, whatever was lost with the process.
CheckpointExplainsItsRounds ==
    \A r \in 1..disk.round : \E i \in DOMAIN disk.history : disk.history[i].round = r

\* A round that is durably ranked stays in the history of every later checkpoint.
RankedRoundsAreKept ==
    [][RankedRounds(disk.history) \subseteq RankedRounds(disk'.history)]_vars

\* Within one launch an exit sweep is followed by an exploring round; two sweeps are
\* adjacent only where a launch had stopped, or reached its limit, in between.
SweepsAreApart ==
    \A i \in 1 .. Len(history) - 1 :
      /\ history[i].ranked /\ history[i].phase = "exit_sweep"
      /\ history[i+1].ranked /\ history[i+1].phase = "exit_sweep"
      => history[i].stop # "" \/ history[i].round = history[i].limit

\* A run that paused on quota in the middle of a round is to be resumed ("resume the run
\* after quota resets", controller.py:528-531), not concluded: no result says "completed"
\* when its last record is such a pause.  (A resume of a run that paused in its last
\* round breaks this.)
PausedRoundIsNotCompleted ==
    disk.status = "completed" /\ disk.history # <<>> /\ Last(disk.history).stop = "quota"
      => disk.round \in RankedRounds(disk.history)

---------------------------------------------------------------------------
(* The inductive invariant behind the safety properties *)

RankedOnce(hist) ==
    \A i, j \in DOMAIN hist :
      hist[i].ranked /\ hist[j].ranked /\ hist[i].round = hist[j].round => i = j

RankedUpTo(hist, n) == \A i \in DOMAIN hist : hist[i].ranked => hist[i].round <= n

ExplainedUpTo(hist, n) == \A r \in 1..n : \E i \in DOMAIN hist : hist[i].round = r

\* A history that tells of the first n rounds: each has a record, at most one ranking.
TellsOf(hist, n) == RankedOnce(hist) /\ RankedUpTo(hist, n) /\ ExplainedUpTo(hist, n)

\* The record of the round under way is the one still missing.
HistoryTellsOfTheRounds ==
    /\ pc = "new" => history = <<>>
    /\ pc = "evaluate" => current > 0
    /\ TellsOf(history, IF pc = "evaluate" THEN current - 1 ELSE current)
    /\ pc = "reproduce" => history # <<>>

CheckpointsTellOfTheirs ==
    /\ TellsOf(disk.history, disk.round)
    /\ \A i \in DOMAIN pending : TellsOf(pending[i].history, pending[i].round)

\* From the disk over the queue to the memory of the run, rankings are only added.
RankingsOnlyGrow ==
    /\ \A i, j \in DOMAIN pending :
         i <= j => RankedRounds(pending[i].history) \subseteq RankedRounds(pending[j].history)
    /\ \A i \in DOMAIN pending :
         RankedRounds(disk.history) \subseteq RankedRounds(pending[i].history)
    /\ IF pc \in {"down", "done"}
       THEN pending = <<>>
       ELSE /\ RankedRounds(disk.history) \subseteq RankedRounds(history)
            /\ \A i \in DOMAIN pending :
                 RankedRounds(pending[i].history) \subseteq RankedRounds(history)

IInv == TypeOK /\ HistoryTellsOfTheRounds /\ CheckpointsTellOfTheirs /\ RankingsOnlyGrow
===============================================================================
