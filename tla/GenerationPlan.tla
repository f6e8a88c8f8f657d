----------------------------- MODULE GenerationPlan -----------------------------
(***************************************************************************)
(* The plan of one generation: the stages it authorises and their order,   *)
(* what makes it valid when it is built, and what makes its record valid   *)
(* when a checkpoint is restored.  A plan keeps the fields its id is a     *)
(* hash of, and the id is the value that was hashed.                       *)
(***************************************************************************)
EXTENDS Naturals, Sequences, FiniteSets, SequencesExt

Ops == <<"critique_and_verify", "rank", "archive_assign", "generation_plan_validate",
         "archive_update", "compact", "diagnose", "stop_check", "select_parents",
         "plan_mutations", "generate_offspring", "verify_offspring">>

RankedOps == SubSeq(Ops, 1, 5)

Place(op) == CHOOSE i \in DOMAIN Ops : Ops[i] = op

\* STAGE_PREREQUISITES: each stage but the first requires the one before it.
Prerequisites(op) == IF Place(op) = 1 THEN {} ELSE {Ops[Place(op) - 1]}

\* assert_stage_ready: what a stage needs is among the stages the record calls completed.
StageReady(op, completed) == Prerequisites(op) \subseteq Range(completed)

\* _validate_completed_stage_ops: no stage twice, each after what it requires.
CompletedValid(completed) ==
    \A i \in DOMAIN completed :
        LET before == SubSeq(completed, 1, i - 1)
        IN  completed[i] \notin Range(before) /\ StageReady(completed[i], before)

\* The fields plan_id is a hash of.  fates maps every candidate of the round to the fate it
\* was assigned, and archive_writes is made of the same assignments; objectives stands for
\* what the planning writes, receipts for the branch slots the intervention receipts name.
Hashed(plan) ==
    [round |-> plan.round, fates |-> plan.fates, parents |-> plan.parents,
     objectives |-> plan.objectives, receipts |-> plan.receipts]

NewPlan(round, fates) ==
    LET fields == [round |-> round, fates |-> fates, parents |-> {}, objectives |-> FALSE,
                   receipts |-> {}]
    IN  [round |-> round, fates |-> fates, parents |-> {}, objectives |-> FALSE,
         receipts |-> {}, id |-> fields, done |-> RankedOps, deferred |-> {}, slots |-> {}]

NoPlan == [NewPlan(0, <<>>) EXCEPT !.done = <<>>]

\* _refresh_generation_plan_id.
Refresh(plan) == [plan EXCEPT !.id = Hashed(plan)]

Complete(plan, op) == [plan EXCEPT !.done = Append(@, op)]

\* validate_generation_plan, when the plan is built and again when it is applied: it assigns
\* a fate to each candidate of the population, and to no other.
PlanValid(plan, live) == DOMAIN plan.fates = live /\ plan.parents \subseteq live

\* _has_compatible_archive_witness: the archive history holds an entry of the same round with
\* the same assignments, whatever id the plan had when they were applied.
Witnessed(plan, applied) ==
    \E w \in applied : w.round = plan.round /\ w.fates = plan.fates /\ DOMAIN w.fates # {}

\* append_intervention_receipt and the validation of a record alike: a receipt names slots
\* of the branch allocation beside the plan, which its id is no hash of.
ReceiptsBacked(receipts, plan) == receipts \subseteq plan.slots

\* The part of validate_generation_plan_record and _history that does not name the parents.
RecordReplays(plan, applied) ==
    /\ plan.id = Hashed(plan)
    /\ DOMAIN plan.fates # {}
    /\ ReceiptsBacked(plan.receipts, plan)
    /\ CompletedValid(plan.done)
    /\ \/ \E w \in applied : w.id = plan.id
       \/ Witnessed(plan, applied)

\* "persisted generation plan references unknown parent".
ParentsAssigned(plan) == plan.parents \subseteq DOMAIN plan.fates

\* validate_generation_plan_history, which restore_state calls on every launch that resumes.
HistoryValid(records, applied) ==
    \A i \in DOMAIN records :
        RecordReplays(records[i], applied) /\ ParentsAssigned(records[i])
=============================================================================
