-------------------------------- MODULE Breeding -------------------------------
(***************************************************************************)
(* How candidates come to be.  seed_population harvests concurrent windows *)
(* of model batches; then each round allocates branch slots to lineages,   *)
(* asks the model for their children, slot by slot or in one batch that    *)
(* may fall back to the slots, binds each child to the slot it may claim,  *)
(* and records what the next allocation reads as credit.  What the round   *)
(* does with fates and archives is module Generation: here a candidate is  *)
(* live, or stored where the credit still finds it, or a failure that is   *)
(* not found any more.                                                     *)
(***************************************************************************)
EXTENDS Harvest, FiniteSetsExt

CONSTANTS Incumbents,    \* the texts an operator may provide
          SeedTarget,    \* the seeds asked for
          Workers,       \* fanout of the seeding
          MaxBatches,    \* safety limit of the batches, 0 for none
          SeedAnswers,   \* the answers to a seed request in this instance
          Branch,        \* slots of a round
          Floor,         \* coverage floor slots
          Restarting,    \* which slots of a round may carry a strategy restart
          Outcomes,      \* the outcomes of children in this instance
          SingleBatch,   \* offspring_parallel_mode is single_batch
          ChildTexts,    \* the texts of children in this instance
          MaxRound       \* bound on the rounds

ASSUME BreedingAssumption ==
    /\ Incumbents \union ChildTexts \subseteq Texts /\ SeedAnswers \subseteq Seq(Texts)
    /\ {SeedTarget, Workers, Branch} \subseteq Nat \ {0}
    /\ {MaxBatches, Floor, MaxRound} \subseteq Nat
    /\ Restarting \subseteq SUBSET (1 .. Branch) /\ Restarting # {} /\ SingleBatch \in BOOLEAN
    /\ Outcomes \subseteq {"good", "dull", "bad"}

VARIABLES phase,
          enrolled,  \* the incumbents the deduper of the seeding registered
          issued,    \* seed requests issued by the harvest
          harvest,   \* the HarvestResult of the seeding
          replies,   \* what the requests of a window returned so far
          live,      \* the population
          stored,    \* candidates in the archive lanes the credit reads
          slots,     \* the allocation of the round
          refusal,   \* the error of the single batch of the round
          hand,      \* the offspring and the outcome of their harvest
          history    \* what the record of each round says of its slots

seeding == <<enrolled, issued, harvest>>
vars == <<phase, seeding, replies, live, stored, slots, refusal, hand, history>>

Round == Len(history) + 1
Child(t, root, slot, parent) ==
    [text |-> t, root |-> root, slot |-> slot, parent |-> parent,
     outcome |-> IF parent = 0 THEN "baseline" ELSE "new"]
Seed(t) == Child(t, t, 0, 0)

NoHand == [accepted |-> <<>>, rejected |-> <<>>, failed |-> {}, transport |-> "none"]

Init == /\ live \in {{Seed(t) : t \in P} : P \in SUBSET Incumbents}
        /\ harvest = NewHarvest(SeedTarget - Cardinality(live))
        /\ IF harvest.target > 0
           THEN phase = "seeding" /\ enrolled \in Registered(live)
           ELSE phase = "bred" /\ enrolled = {}
        /\ issued = 0 /\ replies = <<>> /\ stored = {} /\ slots = <<>>
        /\ refusal = "none" /\ hand = NoHand /\ history = <<>>

-----------------------------------------------------------------------------
(* seed_population.                                                        *)

Open == harvest.stop = "none" /\ (MaxBatches = 0 \/ issued < MaxBatches)

\* The requests of a window share the population they are told of, and run at once.
OpenWindow ==
    /\ phase = "seeding" /\ replies = <<>> /\ Open
    /\ LET n == IF MaxBatches = 0 THEN Workers ELSE Min({Workers, MaxBatches - issued})
       IN  replies' = [k \in 1 .. n |-> Waiting] /\ issued' = issued + n
    /\ UNCHANGED <<phase, enrolled, harvest, live, stored, slots, refusal, hand, history>>

AnswerSeed(k) ==
    /\ phase = "seeding" /\ replies[k] = Waiting
    /\ \E a \in {Answer([i \in DOMAIN s |-> Seed(s[i])]) : s \in SeedAnswers}
                  \union {Failure("fault"), Failure("quota")} :
          replies' = [replies EXCEPT ![k] = a]
    /\ UNCHANGED <<phase, seeding, live, stored, slots, refusal, hand, history>>

CloseWindow ==
    /\ phase = "seeding" /\ replies # <<>> /\ Waiting \notin Range(replies)
    /\ harvest' = WindowClosed(harvest, issued - Len(replies), replies, enrolled)
    /\ replies' = <<>>
    /\ UNCHANGED <<phase, enrolled, issued, live, stored, slots, refusal, hand, history>>

\* The error the seeding leaves in the policy: a harvest without a candidate has one as well.
SeedError(h) ==
    IF h.fatal = "none" /\ h.accepted = <<>> /\ live = {} THEN "empty" ELSE h.fatal

\* The end of seed_population, and the start of EvolutionLoop.run: with an error and nobody
\* in the population the launch is a checkpointed pause.
EndSeeding ==
    /\ phase = "seeding" /\ replies = <<>> /\ ~Open
    /\ live' = live \union Range(harvest.accepted)
    /\ phase' = IF SeedError(harvest) # "none" /\ live' = {} THEN "paused" ELSE "bred"
    /\ harvest' = NewHarvest(0) /\ issued' = 0 /\ enrolled' = {}
    /\ UNCHANGED <<replies, stored, slots, refusal, hand, history>>

\* An exception outside the model boundary ends the launch: nothing was checkpointed.
SeedingFails ==
    /\ phase = "seeding" /\ Waiting \in Range(replies)
    /\ phase' = "failed"
    /\ UNCHANGED <<seeding, replies, live, stored, slots, refusal, hand, history>>

\* A resume: with an empty population the seeding is tried again, else the rounds go on.
Resume ==
    /\ phase = "paused"
    /\ IF live = {}
       THEN phase' = "seeding" /\ harvest' = NewHarvest(SeedTarget)
       ELSE phase' = "bred" /\ UNCHANGED harvest
    /\ UNCHANGED <<enrolled, issued, replies, live, stored, slots, refusal, hand, history>>

-----------------------------------------------------------------------------
(* allocate_productive_branches.                                           *)

SlotsOf(h) == UNION {Range(h[i].slots) : i \in DOMAIN h}
RefusedIn(h) == UNION {h[i].rejected \union h[i].duplicates : i \in DOMAIN h}

\* Mutant: the outcome of a child that was bound to no slot counts as well.
EarnedAnyway(c) == /\ c.parent # 0 /\ \A r \in RefusedIn(history) : r.slot # c.slot
                   /\ \A s \in SlotsOf(history) : s.id = c.slot => s.arm = c.root

\* An outcome counts when its candidate has a parent and is bound to a slot that was not
\* refused as a duplicate, of the arm that is the root of its lineage.  A child that was given
\* no slot is marked as unbound: only a child of an older version is neither.
Earned(c) ==
    /\ c.parent # 0 /\ c.slot # 0 /\ \A r \in RefusedIn(history) : r.slot # c.slot
    /\ \A s \in SlotsOf(history) : s.id = c.slot => s.arm = c.root

\* What the statistics of an arm are made of: the planned slots, and the outcomes of the
\* candidates the run still has; a slot is credited once, and an outcome without a planned
\* slot is a pull of its own.
Credit(arm) ==
    LET planned == {s \in SlotsOf(history) : s.arm = arm}
        earned == {c \in live \union stored : Earned(c) /\ c.root = arm}
        once == {c \in earned : c.slot = 0 \/ c = CHOOSE d \in earned : d.slot = c.slot}
    IN  [pulls |-> Cardinality(planned)
                   + Cardinality({c \in once : \A s \in SlotsOf(history) : s.id # c.slot}),
         reward |-> Cardinality({c \in once : c.outcome = "good"}),
         risk |-> Cardinality({c \in once : c.outcome = "bad"})
                  + Cardinality({r \in RefusedIn(history) : r.arm = arm})]

\* A round before the reproduction: the newborn are measured, and one candidate may leave,
\* for the archives or as a failure; somebody stays live (module Generation).
Measured(c, result) == IF c.outcome = "new" THEN [c EXCEPT !.outcome = result[c]] ELSE c

\* The arms of the slots: after the floor, an arm that was never pulled goes first; the rest
\* is by upper confidence bounds.
FreshFirst(arms) ==
    \A i \in Floor + 1 .. Branch :
        LET fresh == {a \in Range(arms) : Credit(a).pulls = 0} \ {arms[j] : j \in 1 .. i - 1}
        IN  fresh # {} => arms[i] \in fresh

\* The id of a slot: its round, the epoch of the allocation, and its place.
SlotId(i) == Branch * (Round - 1) + i

\* A slot for each of the arms, its parents taking turns.
SlotsFor(parents, arms) ==
    {[i \in 1 .. Branch |->
        LET kin == SetToSortSeq({p.text : p \in {q \in parents : q.root = arms[i]}}, <)
            turn == Cardinality({j \in 1 .. i - 1 : arms[j] = arms[i]})
        IN  [id |-> SlotId(i), arm |-> arms[i], parent |-> kin[(turn % Len(kin)) + 1],
             restart |-> i \in restarts]] : restarts \in Restarting}

Measure ==
    /\ phase = "bred" /\ Len(history) < MaxRound
    /\ \E result \in [{c \in live : c.outcome = "new"} -> Outcomes] :
       LET all == {Measured(c, result) : c \in live}
       IN  \E gone \in {{}} \union {{c} : c \in all} :
              /\ gone # all
              /\ live' = all \ gone
              /\ stored' = stored \union {c \in gone : c.outcome # "bad"}
    /\ phase' = "measured"
    /\ UNCHANGED <<seeding, replies, slots, refusal, hand, history>>

\* The slots, and the transport of the round: single_batch needs a recorded round with
\* children, for its budget gate; the other gates may refuse it as well.
Allocate ==
    /\ phase = "measured"
    /\ \E parents \in SUBSET (live \union stored) :
       \E arms \in [1 .. Branch -> {p.root : p \in parents}] :
          /\ Cardinality(parents) \in 1 .. Branch
          /\ \A p \in parents, q \in parents : p.text = q.text => p = q
          /\ FreshFirst(arms)
          /\ slots' \in SlotsFor(parents, arms)
    /\ \/ phase' = "slots"
       \/ /\ SingleBatch /\ \E i \in DOMAIN history : history[i].children # {}
          /\ phase' = "batch"
    /\ refusal' = "none"
    /\ UNCHANGED <<seeding, replies, live, stored, hand, history>>

-----------------------------------------------------------------------------
(* _generate_offspring.                                                    *)

\* The candidates the slots belong to.
Parents == {c \in live \union stored : \E s \in Range(slots) : s.parent = c.text /\ s.arm = c.root}

\* Mutant: a slot that has its child is given to the next one that claims it.
FittingAgain(item, used) ==
    {i \in DOMAIN slots : slots[i].parent = item.parent /\ item.claim \in {0, slots[i].id}}

\* The slots a child may be bound to: of its parent, not used, and the claimed one if any.
Fitting(item, used) ==
    {i \in DOMAIN slots : /\ slots[i].parent = item.parent /\ slots[i].id \notin used
                          /\ item.claim \in {0, slots[i].id}}

\* _bind_branch_slot: the first slot that fits.  A strategy restart makes the child the root
\* of a lineage of its own; a child without a slot keeps its lineage.
Bound(item, used) ==
    LET fit == Fitting(item, used)
        kin == CHOOSE s \in Range(slots) : s.parent = item.parent
        slot == slots[Min(fit)]
    IN  IF fit = {} THEN Child(item.text, kin.arm, 0, item.parent)
        ELSE IF slot.restart THEN Child(item.text, Cardinality(Texts) + slot.id, slot.id, 0)
        ELSE Child(item.text, slot.arm, slot.id, item.parent)

\* _merge_plan_metadata_into_model_offspring for a batch: one child after the other.
BindAll(items) ==
    LET upTo[k \in 0 .. Len(items)] ==
            IF k = 0 THEN <<>>
            ELSE Append(upTo[k - 1], Bound(items[k], {c.slot : c \in Range(upTo[k - 1])}))
    IN  upTo[Len(items)]

\* What a batch may hold: children of the parents, with the slot they claim or none.
Items == [text : ChildTexts, parent : {s.parent : s \in Range(slots)},
          claim : {0} \union {s.id : s \in Range(slots)}]

\* What the deduper of a round registers: the population in its order, then the parents.
Dedupers == {R \in Registered(live \union Parents) : R \intersect live \in Registered(live)}

\* The harvest of a round: the children, as one batch against what the deduper registered.
Gathered(children, failed, transport, deduper) ==
    LET h == TakeAll(NewHarvest(Branch), children, deduper)
    IN  [accepted |-> h.accepted, rejected |-> h.rejected, failed |-> failed,
         transport |-> transport]

\* What the record of a round keeps of an interrupted reproduction: nothing of its slots.
Lost == [transport |-> "none", slots |-> <<>>, children |-> {}, rejected |-> {},
         duplicates |-> {}, failed |-> {}]

\* An error of the model, a tool or the verifier that reaches the loop: a pause that keeps
\* the population of the round before.
Interrupted ==
    /\ phase' = "paused" /\ history' = Append(history, Lost)
    /\ slots' = <<>> /\ refusal' = "none" /\ hand' = NoHand
    /\ UNCHANGED <<seeding, replies, live, stored>>

Interrupt == phase \in {"slots", "batch", "offspring"} /\ Interrupted

\* Mutant: the slots that failed are reported only when no slot succeeded.
SlotsFailedAll(texts) == IF Range(texts) = {0} THEN DOMAIN texts ELSE {}

\* The numbers of a set as a sequence, in their order.
InOrder(S) ==
    {s \in [1 .. Cardinality(S) -> S] :
        Range(s) = S /\ \A i, j \in DOMAIN s : i < j => s[i] < s[j]}

\* The slots that gave no child.
SlotsFailed(texts) == {i \in DOMAIN texts : texts[i] = 0}

\* _generate_slot_offspring: the model is asked for the child of each slot, concurrently,
\* by requests that share nothing; a child that does not name the parent of its slot first
\* is a fault.  One child is enough to go on.
AnswerSlots ==
    /\ phase = "slots"
    /\ \E deduper \in Dedupers, texts \in [DOMAIN slots -> ChildTexts \union {0}] :
          LET given == {i \in DOMAIN slots : texts[i] # 0}
              child(i) == Bound([text |-> texts[i], parent |-> slots[i].parent,
                                 claim |-> slots[i].id], {})
          IN  IF given = {} THEN Interrupted
              ELSE /\ \E inOrder \in InOrder(given) :
                         hand' = Gathered([k \in DOMAIN inOrder |-> child(inOrder[k])],
                                          {slots[i].id : i \in SlotsFailed(texts)}, "slots",
                                          deduper)
                   /\ phase' = "offspring"
                   /\ UNCHANGED <<seeding, replies, live, stored, slots, refusal, history>>

\* The answer to the single batch: an error falls back to the slots, once; an answer with
\* nothing to accept is an abstention, or exhausted by duplicates of artifacts, or else an
\* error of the schema; items that are no candidates are passed over, and an answer of
\* nothing else is such an error.
AnswerBatch ==
    /\ phase = "batch"
    /\ \/ /\ phase' = "slots" /\ refusal' \in {"fault", "quota"}
          /\ UNCHANGED <<seeding, replies, live, stored, slots, hand, history>>
       \/ \E deduper \in Dedupers, items \in UNION {[1 .. n -> Items] : n \in 0 .. Branch} :
             LET taken == Gathered(BindAll(items), {}, "batch", deduper)
             IN  IF taken.accepted = <<>> /\ \E r \in Range(taken.rejected) : ~r.artifact
                 THEN Interrupted
                 ELSE /\ hand' = taken /\ phase' = "offspring"
                      /\ UNCHANGED <<seeding, replies, live, stored, slots, refusal, history>>
       \/ Interrupted

-----------------------------------------------------------------------------
(* reproduce after the generation.                                         *)

Refusal(c) == [slot |-> c.slot, arm |-> IF c.slot = 0 THEN 0 ELSE c.root]

\* What the record of the round says of its slots.
Recorded(unique) ==
    [transport |-> hand.transport, slots |-> slots,
     children |-> {c.slot : c \in Range(hand.accepted)} \ {0},
     rejected |-> {Refusal(r.candidate) : r \in Range(hand.rejected)},
     duplicates |-> {Refusal(r.candidate) : r \in Range(unique.rejected)},
     failed |-> hand.failed]

\* The sleeper a diagnosis wants back joins the offspring, and all are compared with the
\* population once more.  With nobody left the run stops; an abstention goes on if the
\* evaluators accept the incumbent, and is an error if not.
Integrate ==
    /\ phase = "offspring"
    /\ \E woken \in {<<>>} \union {<<c>> : c \in stored}, deduper \in Registered(live) :
          LET offspring == hand.accepted \o woken
              unique == TakeAll(NewHarvest(Branch), offspring, deduper)
              abstained == offspring = <<>> /\ hand.rejected = <<>>
          IN  /\ live' = live \union Range(unique.accepted)
              /\ stored' = stored \ Range(woken)
              /\ history' = Append(history, Recorded(unique))
              /\ phase' = IF unique.accepted # <<>> \/ abstained THEN "bred" ELSE "stopped"
    /\ slots' = <<>> /\ hand' = NoHand /\ refusal' = "none"
    /\ UNCHANGED <<seeding, replies>>

Done == phase \in {"failed", "stopped"} \/ (phase = "bred" /\ Len(history) = MaxRound)
Rest == Done /\ UNCHANGED vars

Next == \/ OpenWindow \/ CloseWindow \/ EndSeeding \/ SeedingFails \/ Resume
        \/ Measure \/ Allocate \/ AnswerSlots \/ AnswerBatch
        \/ Integrate \/ Interrupt \/ Rest
        \/ \E k \in DOMAIN replies : AnswerSeed(k)

Spec == Init /\ [][Next]_vars

-----------------------------------------------------------------------------

\* The shapes of the state.
TypeOK ==
    /\ phase \in {"seeding", "bred", "measured", "slots", "batch", "offspring", "paused",
                  "stopped", "failed"}
    /\ Len(history) <= MaxRound
    /\ harvest.batches <= issued /\ harvest.failed \subseteq 1 .. issued
    /\ {c.text : c \in live \union stored} \subseteq Texts

\* The sets of texts that no text outside is like.
Kinds == {K \in SUBSET Texts : \A s \in K, t \in Texts \ K : ~Alike(Seed(s), Seed(t))}

\* No two candidates of the population say the same or materialise the same artifact,
\* though requests run concurrently and are told of an older population: the deduper is
\* asked again, one candidate after the other, when the answers are consumed.  What the
\* operator provides is not refused: where two of those are alike, the deduper registers one,
\* and what is like the other may come in, and what is like that in turn.  Among texts of
\* which the operator's differ, all do.
CandidatesDiffer ==
    \A K \in Kinds :
        Differ({Seed(t) : t \in K \intersect Incumbents}) => Differ({c \in live : c.text \in K})

\* "The fanout window has already executed. Keep consuming its ordered results so later
\* candidates and transport errors remain in the authoritative harvest/ledger": unless low
\* gain ended it, a harvest accounts for every request it issued.  An end by low gain that a
\* fatal error of the same window overrides leaves answers unread as well: the streak tells.
WindowsAreDrained ==
    replies = <<>> /\ harvest.streak < Patience => harvest.batches = issued

\* The rounds begin with somebody in the population: a seeding that yields nobody is a
\* checkpointed pause with an error on record, whatever the model did.
RoundsHaveSeeds == phase \notin {"seeding", "paused", "failed"} => live # {}

\* A slot id is planned once in a run, no slot has two children, in hand or in what the credit
\* reads, and a child that is no restart is of its slot's lineage.
SlotsBoundOnce ==
    LET children == live \union stored \union Range(hand.accepted)
        planned(i) == {s.id : s \in Range(history[i].slots)}
    IN  /\ \A i, j \in DOMAIN history : i # j => planned(i) \intersect planned(j) = {}
        /\ \A c, d \in children : c # d /\ c.slot # 0 => c.slot # d.slot
        /\ \A c \in children, s \in SlotsOf(history) \union Range(slots) :
              c.slot = s.id => c.root \in {s.arm, Cardinality(Texts) + s.id}

\* What an arm is credited with is what it was given: its pulls are the slots the records
\* planned for it, and no slot counts for both a reward and a risk, or twice.  A restart that
\* is refused is a risk of the lineage it founded, though its slot was a pull of another.
CreditIsEarned ==
    \A arm \in {s.arm : s \in SlotsOf(history)} \union {c.root : c \in live \union stored} :
        /\ Credit(arm).pulls = Cardinality({s \in SlotsOf(history) : s.arm = arm})
        /\ Credit(arm).reward + Credit(arm).risk
             <= Credit(arm).pulls + IF arm \in Texts THEN 0 ELSE 1

\* A recorded round accounts for each slot that was asked, once: it has a child, or its
\* child was refused as a duplicate, or the slot failed.
AnswersAccounted ==
    \A i \in DOMAIN history :
        LET r == history[i]
            refused == {x.slot : x \in r.rejected}
        IN  /\ r.transport = "slots" =>
                  r.children \union refused \union r.failed = {s.id : s \in Range(r.slots)}
            /\ r.children \intersect refused = {} /\ (r.children \union refused) \intersect r.failed = {}

\* A window that met a quota error is the last one of its launch, though its other
\* requests were answered.
QuotaStopsSeeding ==
    [][(\E k \in DOMAIN replies : replies[k].error = "quota") /\ phase = "seeding"
          /\ replies' = <<>> => harvest'.stop # "none"]_vars

\* The seeding ends, with no limit on its batches as well, and after how many requests is
\* known beforehand: a window gains, or wears out the patience, or fails as a whole.
SeedingWearsOut ==
    issued <= Workers * (MinBatches + Patience * Max({harvest.target, 0}))

\* "quota and rate-limit failures must become a clean pause.  Falling back and continuing to
\* call the provider after a 429/RESOURCE EXHAUSTED response wastes quota"
\* (nexus/model_errors.py): no slot is asked after the quota refused the batch.
QuotaIsACleanPause == phase = "slots" => refusal # "quota"

-----------------------------------------------------------------------------
(* The inductive invariant behind the properties.                          *)

Seeds == {Seed(t) : t \in Texts}
Replies == [items : Seq(Seeds), error : {"waiting", "none", "fault", "quota"}]
Asking == {"slots", "batch", "offspring"}

IsCandidate(c) ==
    /\ c = [text |-> c.text, root |-> c.root, slot |-> c.slot, parent |-> c.parent,
            outcome |-> c.outcome]
    /\ c.text \in Texts /\ c.root \in Nat \ {0} /\ c.slot \in Nat

\* The answers of the seeding and what it made of them.
SeedsTyped ==
    /\ phase = "seeding" => enrolled \in Registered(live)
    /\ IsHarvest(harvest) /\ ChildrenOf(harvest) \subseteq Seeds
    /\ replies \in Seq(Replies)
    /\ issued \in Nat /\ Len(replies) <= issued
    /\ phase \notin {"seeding", "failed"} =>
          issued = 0 /\ replies = <<>> /\ harvest = NewHarvest(harvest.target) /\ enrolled = {}

\* The requests whose answers were consumed, or left unread.
Closed == issued - Len(replies)

\* A window is opened by a harvest that goes on; a harvest that goes on has consumed each of
\* its windows, every one of which made it progress, and is short of its target, unless no
\* answer came after the least number of batches.
WindowsProgress ==
    /\ replies # <<>> => harvest.stop = "none" /\ Len(replies) <= Workers
    /\ harvest.batches <= Closed /\ harvest.failed \subseteq 1 .. Closed
    /\ harvest.streak < Patience => harvest.batches = Closed
    /\ harvest.stop = "none" =>
          /\ harvest.streak < Patience
          /\ Closed <= Workers * Progress(harvest)
          /\ \/ Closed = 0 \/ QualifiedCount(harvest) < harvest.target
             \/ MinBatches >= 2 /\ Closed <= MinBatches - 2 + Workers

\* The values of the population, of the offspring and of the records.
CandidatesTyped ==
    /\ IsFiniteSet(live) /\ IsFiniteSet(stored)
    /\ \A c \in live \union stored \union ChildrenOf(hand) : IsCandidate(c)
    /\ hand.accepted \in Seq(Range(hand.accepted)) /\ AreApart(hand, {})
    /\ hand.rejected \in Seq(Range(hand.rejected))
    /\ history \in Seq(Range(history))
    /\ phase # "offspring" => hand = NoHand

\* The slots of a round: their ids are the next ones of the run.
ArePlanned(planned, round) ==
    /\ DOMAIN planned = 1 .. Branch
    /\ \A i \in 1 .. Branch : /\ planned[i].id = Branch * (round - 1) + i
                              /\ planned[i].arm \in Nat \ {0}

SlotsArePlanned ==
    /\ IF phase \in Asking THEN ArePlanned(slots, Round) ELSE slots = <<>>
    /\ \A i \in DOMAIN history : history[i].slots = <<>> \/ ArePlanned(history[i].slots, i)

\* A child of a slot is of the slot's lineage, or a restart and the root of its own.
OfSlot(slot, root, s) == slot = s.id /\ root \in {s.arm, Cardinality(Texts) + s.id}

\* No slot has two of the candidates.
OnePerSlot(S) == \A c, d \in S : c # d /\ c.slot # 0 => c.slot # d.slot
Apart(S, T) == \A c \in S, d \in T : c.slot # 0 => c.slot # d.slot

\* Children that are bound are so to a planned slot each; a child with a parent has its
\* slot's lineage.
ChildrenAreBound ==
    /\ \A c \in live \union stored : c.slot # 0 =>
          \E s \in SlotsOf(history) : OfSlot(c.slot, c.root, s) /\ (c.parent # 0 => c.root = s.arm)
    /\ \A c \in ChildrenOf(hand) : c.slot # 0 =>
          \E s \in Range(slots) : OfSlot(c.slot, c.root, s) /\ (c.parent # 0 => c.root = s.arm)
    /\ OnePerSlot(live) /\ OnePerSlot(stored) /\ Apart(live, stored)
    /\ OnePerSlot(ChildrenOf(hand)) /\ Apart(Range(hand.accepted), RejectedOf(hand))

\* A slot whose child was refused is on record once, and it is nobody else's.
RefusalsAreBound ==
    /\ \A i \in DOMAIN history :
          IsFiniteSet(history[i].rejected) /\ IsFiniteSet(history[i].duplicates)
    /\ \A r \in RefusedIn(history) :
          /\ r = [slot |-> r.slot, arm |-> r.arm] /\ (r.slot = 0 => r.arm = 0)
          /\ r.slot # 0 => \E s \in SlotsOf(history) : OfSlot(r.slot, r.arm, s)
    /\ OnePerSlot(RefusedIn(history)) /\ Apart(live \union stored, RefusedIn(history))

\* The harvest of the round at hand accounts for its slots.
HandIsAccounted ==
    phase = "offspring" =>
        LET children == {c.slot : c \in Range(hand.accepted)} \ {0}
            refused == {c.slot : c \in RejectedOf(hand)}
        IN  /\ hand.transport = "slots" =>
                  children \union refused \union hand.failed = {s.id : s \in Range(slots)}
            /\ (children \union refused) \intersect hand.failed = {}

IInv == /\ TypeOK /\ SeedsTyped /\ AreApart(harvest, enrolled) /\ WindowsProgress /\ SeedingWearsOut
        /\ CandidatesTyped /\ CandidatesDiffer /\ RoundsHaveSeeds
        /\ SlotsArePlanned /\ ChildrenAreBound /\ RefusalsAreBound
        /\ HandIsAccounted /\ AnswersAccounted
        /\ phase \in {"measured"} \union Asking => Len(history) < MaxRound
=============================================================================
