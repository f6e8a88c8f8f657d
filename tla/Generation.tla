------------------------------- MODULE Generation -------------------------------
(***************************************************************************)
(* One round of EvolutionRoundPipeline after the other: the evaluation of  *)
(* the live population, its ranking and the fates the plan applies, the    *)
(* compaction, the choice of parents, the offspring and their              *)
(* verification.  The population, the archives and the plans of the        *)
(* history are what a checkpoint carries from one round to the next.       *)
(* Model answers, evaluator verdicts and scores are choices or profiles.   *)
(***************************************************************************)
EXTENDS Integers, Archives, GenerationPlan

CONSTANTS Seeds,          \* the candidates of the initial population, the first ids
          MaxRound,       \* bound on the rounds
          MaxChildren,    \* bound on the unique children of a round
          AdmissionLimit, \* pre_rank_admission_limit
          UncertaintyFloor,
          Uncertainty, Value, Confidence, \* the admission signals of each candidate
          Score,          \* its score by the evaluator
          Axes,           \* its seed axis and its family, those it has
          Bin, Group,     \* the descriptor bin of a candidate, and the group its bin is of
          Capacity,       \* bin capacity and rare reserve of a group
          CellElites,     \* cell_elite_reserve
          ActiveFloor,    \* the least active candidates the stage policy asks for
          RankFates,      \* the fates the ranking gives in this instance
          Branch,         \* branch limit
          Reentry,        \* archive_elite_reentry_limit
          Verdicting      \* the verdicts evaluators give in this instance

ASSUME GenerationAssumption ==
    /\ Seeds # {} /\ Seeds = Cands \intersect (1 .. Cardinality(Seeds))
    /\ {MaxRound, MaxChildren, AdmissionLimit, UncertaintyFloor, ActiveFloor, Reentry}
           \subseteq Nat
    /\ {Capacity, CellElites, Branch} \subseteq Nat \ {0}
    /\ RankFates \subseteq Fates \ Terminal /\ {"dormant", "incubating"} \subseteq RankFates
    /\ Verdicting \subseteq Verdicts /\ DOMAIN Axes = Cands
    /\ {Uncertainty, Value, Confidence, Score} \subseteq [Cands -> Nat]

VARIABLES pc,       \* the stage the round has reached
          round,
          pool,     \* the live population: the body of each candidate in it
          arch,     \* the archives
          applied,  \* archive history entries written by a plan
          plan,     \* last_generation_plan
          history,  \* budget.history: the plan of each round that was recorded
          repair,   \* repair_parent_candidates that may still be parents
          hand,     \* offspring generated and not yet integrated
          born      \* candidates that exist so far

vars == <<pc, round, pool, arch, applied, plan, history, repair, hand, born>>

Live == Held(pool)
Empty == [c \in Cands |-> Absent]
Newborn == [fate |-> "active", verdict |-> "sound", measured |-> FALSE, new |-> TRUE]

Init == /\ pc = "idle" /\ round = 0 /\ plan = NoPlan
        /\ pool = [c \in Cands |-> IF c \in Seeds THEN [Newborn EXCEPT !.new = FALSE] ELSE Absent]
        /\ arch = EmptyArchives /\ applied = {} /\ history = <<>>
        /\ repair = {} /\ hand = Empty /\ born = Seeds

-----------------------------------------------------------------------------
(* evaluate: admission, evaluators, critique and verification.             *)

Deferrals(c) == Cardinality({i \in DOMAIN history : c \in history[i].deferred})

\* The order of Python tuples of one length.
Exceeds(s, t) == \E i \in DOMAIN s : s[i] > t[i] /\ \A j \in 1 .. (i - 1) : s[j] = t[j]

\* priority of _pre_rank_admission_view: TRUE when c goes before d.
Before(c, d) ==
    LET key(x) == <<Deferrals(x), IF pool[x].measured THEN 0 ELSE 1, Uncertainty[x],
                    Value[x], -Confidence[x], x>>
    IN  Exceeds(key(c), key(d))

\* The first n of S in an order.
Top(S, n, Precedes(_, _)) == {c \in S : Cardinality({d \in S : Precedes(d, c)}) < n}

\* The first of each axis and family and the most uncertain candidates are reserved a place,
\* and the limit grows to hold them; the priority fills what is left.
Reserved ==
    UNION {Top({c \in Live : a \in Axes[c]}, 1, Before) : a \in UNION Range(Axes)}
    \union Top(Live, UncertaintyFloor,
               LAMBDA c, d : Uncertainty[c] > Uncertainty[d]
                             \/ (Uncertainty[c] = Uncertainty[d] /\ Before(c, d)))

Admitted ==
    LET floor == Reserved
        free == IF AdmissionLimit > Cardinality(floor)
                THEN AdmissionLimit - Cardinality(floor) ELSE 0
    IN  floor \union Top(Live \ floor, free, Before)

\* EvaluateStage.evaluate up to the ranking: a candidate that is not admitted stays, and
\* waits for a later round unmeasured.
Evaluate ==
    /\ pc = "idle" /\ round < MaxRound
    /\ round' = round + 1 /\ pc' = "evaluated"
    /\ \E verdict \in [Admitted -> Verdicting] :
          pool' = [c \in Cands |->
              IF c \notin Live THEN Absent
              ELSE IF c \in Admitted
                   THEN [pool[c] EXCEPT !.new = FALSE, !.measured = TRUE, !.verdict = verdict[c]]
                   ELSE [pool[c] EXCEPT !.new = FALSE]]
    /\ plan' = [NoPlan EXCEPT !.deferred = Live \ Admitted]
    /\ UNCHANGED <<arch, applied, history, repair, hand, born>>

-----------------------------------------------------------------------------
(* rank: fates by policy, the plan, and its application to the archives.   *)

\* evaluator_selection_key: passed before unmeasured before failed, then the score.
Tier(b) == IF ~b.measured THEN 1 ELSE IF Passed(b) THEN 2 ELSE 0
Better(b, c, d, e) ==
    \/ Tier(b) > Tier(d)
    \/ Tier(b) = Tier(d) /\ (Score[c] > Score[e] \/ (Score[c] = Score[e] /\ c > e))

\* select_preliminary_incumbent: the best of the measured candidates, 0 for none.
Incumbent(p) ==
    LET measured == {c \in Held(p) : p[c].measured}
    IN  IF measured = {} THEN 0
        ELSE CHOOSE c \in measured : \A d \in measured \ {c} : Better(p[c], c, p[d], d)

\* The chain of assign_by_policy, with what the scores decide left open.
PolicyFates(c, b, best) ==
    IF b.fate \in Terminal /\ Blocked(b) THEN {b.fate}
    ELSE IF b.verdict # "sound" THEN {"incubating", "dormant"}
    ELSE IF c = best THEN {"elite"} ELSE RankFates

\* _apply_stage_adaptive_active_floor: with two or more parked candidates that are still
\* viable, the best of them are made active until the floor is reached.
RaiseFloor(fates) ==
    LET ids == DOMAIN fates
        active == Cardinality({c \in ids : fates[c] = "active"})
        viable == {c \in ids : fates[c] \in {"incubating", "dormant"} /\ ~Blocked(pool[c])}
        raised == IF Cardinality(viable) < 2 \/ active >= ActiveFloor THEN {}
                  ELSE Top(viable, ActiveFloor - active,
                           LAMBDA c, d : Final[c] > Final[d]
                                         \/ (Final[c] = Final[d] /\ c < d))
    IN  [c \in ids |-> IF c \in raised THEN "active" ELSE fates[c]]

\* assign_by_policy for the whole population: the measured incumbent is the best answer,
\* and without one the rater names any candidate, or none.
Assignments ==
    LET best == IF Incumbent(pool) # 0 THEN {Incumbent(pool)} ELSE Live \union {0}
    IN  {RaiseFloor(f) : f \in {g \in [Live -> RankFates \union Terminal \union {"elite"}] :
            \E b \in best : \A c \in Live : g[c] \in PolicyFates(c, pool[c], b)}}

\* mark_fate on each candidate an assignment names.
WithFates(bodies, fates) ==
    [c \in Cands |-> IF c \in DOMAIN fates THEN [bodies[c] EXCEPT !.fate = fates[c]]
                     ELSE bodies[c]]

\* rank: the plan is built, validated, and applied with the id it has then.
Rank ==
    /\ pc = "evaluated"
    /\ \E fates \in Assignments :
          LET built == NewPlan(round, fates)
              bodies == WithFates(pool, fates)
          IN  /\ PlanValid(built, Live)
              /\ plan' = [built EXCEPT !.deferred = plan.deferred]
              /\ pool' = bodies
              /\ arch' = Update(arch, bodies, Live)
              /\ applied' = applied \union {[round |-> round, fates |-> fates, id |-> built.id]}
    /\ pc' = "ranked"
    /\ UNCHANGED <<round, history, repair, hand, born>>

-----------------------------------------------------------------------------
(* compact_live_population.                                                *)

\* Mutant: a child of this round is compacted like any other candidate.
AwaitingNone(b) == FALSE

\* Born in this round and not measured yet.
Awaiting(b) == b.new /\ ~b.measured

IndexFate(A, c, b) == IF A.fate[c] = "none" THEN b.fate ELSE A.fate[c]

\* Mutant: a structural block alone ends a candidate.
DoomedWhenBlocked(p, A) == {c \in Held(p) : ~Awaiting(p[c]) /\ Blocked(p[c])}

\* Terminal candidates to tombstone: those the index calls terminal and that are blocked.
Doomed(p, A) ==
    {c \in Held(p) : ~Awaiting(p[c]) /\ IndexFate(A, c, p[c]) \in Terminal /\ Blocked(p[c])}

\* What stays before the capacity is applied; a terminal fate that is not blocked reopens.
Retained(p, A) ==
    [c \in Cands |->
        IF c \in Doomed(p, A) THEN Absent
        ELSE IF p[c] # Absent /\ ~Awaiting(p[c]) /\ IndexFate(A, c, p[c]) \in Terminal
             THEN [p[c] EXCEPT !.fate = "dormant"] ELSE p[c]]

\* Mutant: the best answer has to compete like any other candidate.
ProtectedButTheAnswer(p, A, answer) ==
    {Incumbent(p)} \union
    {c \in Held(p) : Awaiting(p[c]) \/ (p[c].fate = "dormant" /\ Eligible(A, c, p[c]))}

\* Exempt from the capacity: the best answer, the incumbent, the newborn, and a dormant
\* candidate that may be the answer.
Protected(p, A, answer) ==
    {answer, Incumbent(p)} \union
    {c \in Held(p) : Awaiting(p[c]) \/ (p[c].fate = "dormant" /\ Eligible(A, c, p[c]))}

\* quality_diversity_survivors: the best CellElites of each bin, and then as many of each
\* group as its capacity, or as it has bins; the scores of the entropy choose the rest.
Survivors(S) ==
    LET inGroup(g) == {c \in S : Group[c] = g}
        inBin(k) == {c \in S : Bin[c] = k}
        groups == {Group[c] : c \in S}
        bins(g) == {Bin[c] : c \in inGroup(g)}
        kept(g) == Max({Cardinality(bins(g)), Min({Cardinality(inGroup(g)), Capacity})})
        elites(g) == MapThenSumSet(LAMBDA k : Min({Cardinality(inBin(k)), CellElites}), bins(g))
        target == Max({MapThenSumSet(kept, groups), MapThenSumSet(elites, groups)})
    IN  {T \in SUBSET S : /\ Cardinality(T) = target
                          /\ \A c \in S \ T : CellElites <= Cardinality(
                                {d \in T \intersect inBin(Bin[c]) : Final[d] >= Final[c]})}

\* Whom the capacity may turn away, given the answer that is found.
Parkings(p, A) ==
    UNION {LET competing == Held(p) \ Protected(p, A, answer)
           IN  {competing \ s : s \in Survivors(competing)} : answer \in BestAnswers(A, p)}

\* Mutant: what the capacity turns away is dropped, not parked.
CompactionsDropping(p, A) ==
    LET doomed == Doomed(p, A)
        tombs == Update(A, [c \in Cands |-> [p[c] EXCEPT !.fate = IndexFate(A, c, p[c])]], doomed)
        kept == Retained(p, A)
    IN  {[pool |-> [c \in Cands |-> IF c \in away THEN Absent ELSE kept[c]],
          arch |-> tombs] : away \in Parkings(kept, tombs)}

\* The outcomes of a compaction: the live population and the archives it leaves.
Compactions(p, A) ==
    LET doomed == Doomed(p, A)
        tombs == Update(A, [c \in Cands |-> [p[c] EXCEPT !.fate = IndexFate(A, c, p[c])]], doomed)
        kept == Retained(p, A)
        parked == [c \in Cands |-> [kept[c] EXCEPT !.fate = "dormant"]]
    IN  {[pool |-> [c \in Cands |-> IF c \in away THEN Absent ELSE kept[c]],
          arch |-> Update(tombs, parked, away)] : away \in Parkings(kept, tombs)}

\* evaluate after the ranking: compaction, diagnosis and the decision to stop.  The
\* population before it is remembered for the repair parents.
Assess ==
    /\ pc = "ranked"
    /\ StageReady("compact", plan.done)
    /\ \E after \in Compactions(pool, arch) : pool' = after.pool /\ arch' = after.arch
    /\ repair' = {c \in Live : ~Blocked(pool[c])}
    /\ plan' = Complete(Complete(Complete(plan, "compact"), "diagnose"), "stop_check")
    /\ history' = Append(history, plan')
    /\ \E stop \in BOOLEAN : pc' = IF stop THEN "stopped" ELSE "assessed"
    /\ UNCHANGED <<round, applied, hand, born>>

-----------------------------------------------------------------------------
(* reproduce.                                                              *)

\* _archive_elite_admission_view: stored copies of candidates that are not live.
Readmitted ==
    LET key(e) == <<Tier(e.body), Score[e.id], Quality[e.id], e.id>>
    IN  {e.id : e \in Top(StoredElites(arch, pool), Reentry,
                          LAMBDA d, e : Exceeds(key(d), key(e)))}

\* Candidates a parent selection may draw on: the selector and the ranked fallback.
Selectable ==
    {c \in Live : ~Blocked(pool[c]) /\ pool[c].fate # "auxiliary"} \union Readmitted \union repair

DormantSeeds == {c \in Held(arch.dormant) : ~Blocked(arch.dormant[c])}

\* A seed synthesised from a failure record is a candidate of its own.
Synthesised == {Cardinality(Cands) + c : c \in arch.failure}

\* The chain of _select_reproduction_parents; an empty link hands over to the next one.
Selections ==
    LET upTo(S) == {P \in SUBSET S : P # {} /\ Cardinality(P) <= Branch}
    IN  upTo(Selectable)
        \union (IF DormantSeeds # {} THEN upTo(DormantSeeds) ELSE upTo(Synthesised) \union {{}})

\* _with_incumbent: first in an exit sweep, last, when there is room, in exploration.
WithIncumbent(P, sweep) ==
    LET inc == Incumbent(pool)
    IN  IF inc = 0 \/ Blocked(pool[inc]) THEN {P}
        ELSE IF sweep THEN {Q \in SUBSET (P \union {inc}) : inc \in Q
                               /\ Cardinality(Q) = Min({Branch, Cardinality(P \union {inc})})}
        ELSE {IF Cardinality(P) < Branch THEN P \union {inc} ELSE P}

\* The plan once its parents are chosen and the branches are allocated: the ids of the slots
\* are hashes over the round.
Selected(parents) ==
    LET chosen == [plan EXCEPT !.parents = parents]
        allocated == [chosen EXCEPT !.slots = {round}]
    IN  Complete(Refresh(allocated), "select_parents")

\* reproduce up to select_parents; the allocation gives a slot to some of the parents.
SelectParents ==
    /\ pc = "assessed" /\ StageReady("select_parents", plan.done)
    /\ \E P \in Selections, sweep \in BOOLEAN : \E chosen \in WithIncumbent(P, sweep) :
          IF chosen = {} THEN pc' = "stopped" /\ UNCHANGED plan
          ELSE /\ pc' = "parents"
               /\ plan' = Selected(chosen)
    /\ repair' = {}
    /\ UNCHANGED <<round, pool, arch, applied, history, hand, born>>

PlanMutations ==
    /\ pc = "parents" /\ StageReady("plan_mutations", plan.done)
    /\ pc' = "planned"
    /\ plan' = Complete(Refresh([plan EXCEPT !.objectives = TRUE]), "plan_mutations")
    /\ UNCHANGED <<round, pool, arch, applied, history, repair, hand, born>>

Unborn == Cands \ born

\* _build_reproduction_offspring and the deduplication: new children, and the dormant
\* candidate a diagnosis wants back.  What is live already, or reads like it, is refused.
Generate ==
    /\ pc = "planned" /\ StageReady("generate_offspring", plan.done)
    /\ \E k \in 0 .. Min({MaxChildren, Cardinality(Unborn)}), refused \in BOOLEAN :
       \E back \in Reactivable(arch) \union {0} :
          LET children == Top(Unborn, k, <)
              woken == Reactivate(arch, back)
              accepted == back # 0 /\ pool[back] = Absent /\ ~refused
          IN  /\ refused => back # 0
              /\ born' = born \union children
              /\ arch' = IF back = 0 THEN arch ELSE woken.arch
              /\ hand' = [c \in Cands |-> IF c \in children THEN Newborn
                                          ELSE IF accepted /\ c = back
                                               THEN [woken.body EXCEPT !.new = TRUE]
                                               ELSE Absent]
    /\ plan' = Complete(plan, "generate_offspring")
    /\ pc' = "offspring"
    /\ UNCHANGED <<round, pool, applied, history, repair>>

\* _record_reproduction_result: the round's record takes the plan as it stands now.
Record(p) == [history EXCEPT ![Len(history)] = p]

\* Nothing to integrate: the run stops with no_new_unique_offspring, or goes on when the
\* model abstained and the evaluators accept the incumbent.
NoOffspring ==
    /\ pc = "offspring" /\ Held(hand) = {}
    /\ history' = Record(plan)
    /\ \/ pc' = "stopped"
       \/ pc' = "idle" /\ Incumbent(pool) # 0 /\ Passed(pool[Incumbent(pool)])
    /\ UNCHANGED <<round, pool, arch, applied, plan, repair, hand, born>>

\* What verify_offspring makes of an offspring.
Verified(b, result) ==
    CASE result = "passed" -> b
      [] result = "repairable" -> [b EXCEPT !.fate = "incubating", !.verdict = "flawed"]
      [] result = "failed" -> [b EXCEPT !.fate = "failed", !.verdict = "broken"]

\* Mutant: the receipts are written after the id is refreshed.
CompletedStale(p, named) == [Refresh(Complete(p, "verify_offspring")) EXCEPT !.receipts = named]

\* The plan at the end of reproduce: its receipts are in it when its id is refreshed.
Completed(p, named) == Refresh([Complete(p, "verify_offspring") EXCEPT !.receipts = named])

\* A slot of an earlier round, whichever it was.
EarlierSlot == 0

\* The slots that intervention receipts may name, one for each offspring that is bound to a
\* slot and none without a diagnosed pressure.  A child is bound to a slot of its round; a
\* sleeper that was such a child keeps the slot it was born in.
SlotsNamed ==
    {round : c \in {d \in Held(hand) : arch.fate[d] = "none"}}
    \union {EarlierSlot : c \in {d \in Held(hand) \ Seeds : arch.fate[d] # "none"}}

\* _verify_and_integrate_offspring: failures go to the archives, all join the population,
\* which is compacted again.
JoinPopulation ==
    /\ pc = "offspring" /\ Held(hand) # {}
    /\ StageReady("verify_offspring", plan.done)
    /\ \E result \in [Held(hand) -> {"passed", "repairable", "failed"}] :
          LET verified == [c \in Cands |-> IF c \in Held(hand) THEN Verified(hand[c], result[c])
                                           ELSE Absent]
              failed == {c \in Held(hand) : result[c] = "failed"}
              joined == [c \in Cands |-> IF c \in Held(hand) THEN verified[c] ELSE pool[c]]
          IN  \E after \in Compactions(joined, Update(arch, verified, failed)) :
                 pool' = after.pool /\ arch' = after.arch
    /\ hand' = Empty
    /\ UNCHANGED <<round, applied, repair, born>>

\* The end of a round: the integration, the receipts, and the record of the round.
Integrate ==
    /\ JoinPopulation /\ pc' = "idle"
    /\ \E named \in SUBSET SlotsNamed :
          ReceiptsBacked(named, plan) /\ plan' = Completed(plan, named)
    /\ history' = Record(plan')

\* append_intervention_receipt raises after the integration when a receipt names a slot the
\* plan does not have, which no boundary of the loop catches: the run ends (README 3.3).
RefuseReceipt ==
    /\ JoinPopulation /\ pc' = "stopped"
    /\ \E named \in SUBSET SlotsNamed : ~ReceiptsBacked(named, plan)
    /\ UNCHANGED <<plan, history>>

\* An exception of a model call, a tool or the verifier: the offspring are gone, the record
\* of the round stays what the evaluation made it, and a later launch goes on from here.
Interrupt ==
    /\ pc \in {"parents", "planned", "offspring"}
    /\ pc' = "idle" /\ hand' = Empty /\ plan' = NoPlan
    /\ UNCHANGED <<round, pool, arch, applied, history, repair, born>>

Done == pc = "stopped" \/ (pc = "idle" /\ round = MaxRound)
Rest == Done /\ UNCHANGED vars

Next == Evaluate \/ Rank \/ Assess \/ SelectParents \/ PlanMutations \/ Generate
        \/ NoOffspring \/ Integrate \/ RefuseReceipt \/ Interrupt \/ Rest

Spec == Init /\ [][Next]_vars

-----------------------------------------------------------------------------

\* The shapes of the state; a round has at most one record.
TypeOK ==
    /\ pc \in {"idle", "evaluated", "ranked", "assessed", "parents", "planned", "offspring",
               "stopped"}
    /\ round \in 0 .. MaxRound /\ Len(history) <= round
    /\ Range(pool) \union Range(hand) \subseteq Bodies \union {Absent}
    /\ Range(arch.answer) \union Range(arch.dormant) \subseteq Bodies \union {Absent}
    /\ Range(arch.fate) \subseteq Fates \union {"none"}
    /\ born \subseteq Cands /\ Live \union Held(hand) \subseteq born

\* Each lane holds only candidates whose newest fate is the lane's: an answer is elite, a
\* sleeper dormant, a tombstone terminal, and no niche is held by a failed candidate
\* (remove_candidate_from_archives before every routing).
LanesFollowFates == LanesAgree(arch)

\* A candidate the search has seen is live, in hand, asleep or recorded as a failure: the
\* compactions lose nobody.  Excepted are a child an interruption caught before it joined,
\* and a sleeper that was woken and then refused (README 3.3).
NobodyVanishes ==
    \A c \in born \ (Live \union Held(hand)) :
        c \in Held(arch.dormant) \union arch.failure \/ arch.fate[c] \in {"none", "active"}

\* The live population is never empty, whatever is culled, compacted or interrupted: the
\* emergency reseed of the parent selection is never needed after a seeded start.
NeverEmpty == Live # {}

\* Each recorded plan passes the validation of a resume but for its parents: its id is the
\* hash of what it says now, its stages are in order, and the archive history witnesses it,
\* at whichever boundary the record was last written.
HistoryReplays == \A i \in DOMAIN history : RecordReplays(history[i], applied)

\* "When the exact id is absent, require a compatible archive witness instead of rejecting
\* an otherwise valid checkpoint": a checkpoint this program wrote can be restored by it.
CheckpointCanBeRestored == HistoryValid(history, applied)

\* The children of a recorded round are live when it ends, measured or not, whatever the
\* capacity is; and a measured candidate leaves by the capacity only while a better measured
\* one stays.
CompactionSpares ==
    [][/\ history' # history =>
             \A c \in Held(hand) : hand[c].measured \/ pool'[c] # Absent
       /\ \A c \in Live : (pool'[c] = Absent /\ pool[c].measured /\ arch'.fate[c] \notin Terminal)
             => \E d \in Held(pool') : pool'[d].measured /\ Better(pool'[d], d, pool[c], c)]_vars

\* The answer b is woken from its sleep.
Woken(b) == arch.dormant[b] # Absent /\ arch'.dormant[b] = Absent

\* When A becomes B, the answer b, held by niches only, loses all of them to candidates at
\* least as good by the score of the niches.
Displaced(A, B, b) ==
    /\ A.answer[b] = Absent
    /\ \A n \in DOMAIN A.elite : A.elite[n].id = b =>
          B.elite[n].id \notin {0, b} /\ Quality[B.elite[n].id] >= Quality[b]

\* Between a ranking and the next evaluation the best answer is not lost and not replaced by
\* a worse one, unless it is woken itself, or displaced by candidates that are parked in its
\* niches and need not be answers (README 3.3).
AnswerSurvives ==
    [][pc \notin {"idle", "evaluated"} =>
         \E b \in BestAnswers(arch, pool) :
            b = 0 \/ Woken(b) \/ Displaced(arch, arch', b) \/ AsGood(arch', pool', b)]_vars

-----------------------------------------------------------------------------
(* The inductive invariant behind the properties.                          *)

Stages == {"ranked", "assessed", "parents", "planned", "offspring"}

\* The values of the population, the offspring and the archives.
ValuesTyped ==
    /\ pool \in [Cands -> Copies] /\ hand \in [Cands -> Copies] /\ arch \in ArchiveStates
    /\ round \in Nat /\ history \in Seq(Range(history))
    /\ pc \in {"evaluated", "ranked"} => Len(history) < round

\* Offspring are born and not live; they are active, and no archive holds them.
OffspringAreApart ==
    /\ Held(hand) \intersect Live = {}
    /\ \A c \in Held(hand) : hand[c].fate = "active" /\ arch.fate[c] \in {"none", "active"}
    /\ \A c \in Cands \ born : arch.fate[c] = "none"

\* Nobody is in hand before the offspring stage, and who is in hand is new.
HandIsNew ==
    /\ pc # "offspring" => Held(hand) = {}
    /\ \A c \in Held(hand) : hand[c].new

\* The niches hold copies of candidates that are born and not in hand, and those of one
\* candidate are the same.
NichesAgree ==
    /\ \A n \in DOMAIN arch.elite : arch.elite[n].id \notin Held(hand) \union (Cands \ born)
    /\ CopiesAgree(arch)

\* From the ranking to the end of the round a live candidate that is terminal is so in the
\* index as well: a compaction looks at the index alone.
TerminalIsIndexed ==
    pc \in Stages => \A c \in Live : pool[c].fate \in Terminal => arch.fate[c] \in Terminal

\* Somebody is live whom no ranking may call terminal, and no compaction of this round ends.
SomebodyStays ==
    \E c \in Live : /\ pool[c].fate \notin Terminal
                    /\ pc \in Stages => ~(arch.fate[c] \in Terminal /\ Blocked(pool[c]))

\* How many stages of the plan are completed where the round stands.
StagesDone ==
    CASE pc = "ranked" -> 5 [] pc = "assessed" -> 8 [] pc = "parents" -> 9
      [] pc = "planned" -> 10 [] pc = "offspring" -> 11 [] OTHER -> 0

IsPlan(p) ==
    p = [round |-> p.round, fates |-> p.fates, parents |-> p.parents,
         objectives |-> p.objectives, receipts |-> p.receipts, id |-> p.id, done |-> p.done,
         deferred |-> p.deferred, slots |-> p.slots]

\* The plan is applied, its id is current, and its stages are the first ones in their order.
PlanIsApplied ==
    pc \in Stages =>
        /\ IsPlan(plan) /\ plan.id = Hashed(plan) /\ DOMAIN plan.fates # {}
        /\ plan.receipts = {}
        /\ Witnessed(plan, applied)
        /\ plan.done = SubSeq(Ops, 1, StagesDone)

\* What the stages keep of the candidates.
CandidatesKept ==
    /\ TypeOK /\ ValuesTyped /\ OffspringAreApart /\ TerminalIsIndexed /\ SomebodyStays
    /\ LanesFollowFates /\ NobodyVanishes

IInv == CandidatesKept /\ PlanIsApplied /\ HistoryReplays
=============================================================================
