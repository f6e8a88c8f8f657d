------------------------------ MODULE LatentLedger ------------------------------
(***************************************************************************)
(* The latent-evidence ledger of a run: a list of events in the metadata   *)
(* of the objective contract, whose replay gives the active evidence and   *)
(* the posterior that rankings are pinned to.  Checkpoints carry the hash  *)
(* of the ledger and the posterior, but not the ledger: that lives in a    *)
(* sidecar file and in an event log beside the snapshot, which the worker  *)
(* behind the observer writes before the snapshot it belongs to.           *)
(*                                                                         *)
(* A hash of a ledger is the ledger.  The id of an event is the event with *)
(* its sequence number; a posterior is stamped with the time it was made,  *)
(* which the session and the cursor name.                                  *)
(***************************************************************************)
EXTENDS Naturals, Sequences, FiniteSets

CONSTANTS Evidence,    \* items the adapters make of critiques, verdicts and trials
          Ref,         \* Ref[e]: the evidence_ref of e, its idempotency key
          Absent,      \* no ledger, posterior, file or checkpoint
          NoEvent,     \* see EventStore
          Multiline,   \* rows whose texts hold a separator that the log's replay breaks at
          Torn,        \* how a write the process died in may end, of TornKinds
          MaxLedger,   \* bound on the events of a ledger
          MaxLog,      \* bound on the chunks of the event log
          MaxPending,  \* bound on the batches the worker has not written
          MaxSessions  \* bound on the processes that work on the run, one after the other

ASSUME LatentLedgerAssumption ==
    /\ {MaxLedger, MaxPending, MaxSessions} \subseteq Nat \ {0} /\ MaxLog \in Nat
    /\ Torn \subseteq {"fragment", "half_character", "event"}

VARIABLES session,    \* processes started
          ledger,     \* metadata["latent_ledger"], or Absent
          posterior,  \* metadata["latent_posterior_snapshot"]: the active evidence, and when
          traces,     \* pinned decision traces the candidates carry
          ref,        \* metadata["latent_ledger_ref"]: the hash of the ledger last frozen
          pending,    \* frozen batches, the first of which the worker writes
          stage,      \* its place in LiveNexusStore.write
          sidecar,    \* latent-ledger.json
          checkpoint, \* what CURRENT holds of all this
          log, acked, watermark,  \* latent-events.jsonl, see EventStore
          lost        \* history: a restart found a sidecar of another ledger

memory == <<ledger, posterior, traces, ref>>
disk == <<sidecar, checkpoint, log, acked, watermark>>
vars == <<session, memory, pending, stage, disk, lost>>

Times == [session : 0 .. MaxSessions, cursor : 0 .. MaxLedger]

Entries == [kind : {"added", "deduplicated", "rejected", "posterior", "bound", "snapshot"},
            evidence : Evidence \union {Absent}, at : Times]

Ledgers == {l \in Seq(Entries) : Len(l) <= MaxLedger}

ASSUME AbsentAssumption == Absent \notin Ledgers

NoTime == [session |-> 0, cursor |-> 0]

Entry(kind, e, at) == [kind |-> kind, evidence |-> e, at |-> at]

Cursor(l) == IF l = Absent THEN 0 ELSE Len(l)

\* latent_ledger_from_contract: a contract without a ledger starts an empty one.
Ledger == IF ledger = Absent THEN <<>> ELSE ledger

\* Rows of the event log: the events of a ledger, and the posterior snapshots.
EventRow(l, n) == [sequence |-> n, entry |-> l[n]]
SnapshotRow(p) == [sequence |-> 0, entry |-> Entry("snapshot", Absent, p.at)]

LogEvents == [sequence : 0 .. MaxLedger, entry : Entries]

ASSUME MultilineAssumption == Multiline \subseteq LogEvents

Log == INSTANCE EventStore WITH Events <- LogEvents, Plain <- {}, MaxBatch <- MaxLedger

\* Mutant: only what is past the end of the cache is written.
NewRows(l) == LET known == Cursor(sidecar)
              IN  IF known >= Cursor(l) THEN <<>>
                  ELSE [n \in 1 .. Cursor(l) - known |-> EventRow(l, known + n)]

\* persist_ledger hands all events of the ledger to append_many_once, each time.
Rows(l) == [n \in 1 .. Cursor(l) |-> EventRow(l, n)]

-----------------------------------------------------------------------------
(* LatentLedger *)

\* Mutant: the cursor is not looked at.
ActiveAtEnd(l, cursor) ==
    {l[i].evidence : i \in {k \in 1 .. Len(l) : l[k].kind = "added"}}

\* replay(cursor): what was added, the first of each key and id.
ActiveAt(l, cursor) ==
    LET added == {k \in 1 .. cursor : l[k].kind = "added"}
        first(i) == \A k \in added : k < i => Ref[l[k].evidence] # Ref[l[i].evidence]
    IN  {l[i].evidence : i \in {k \in added : first(k)}}

\* add_evidence: an item whose key is active is only noted.
Noted(l, e) ==
    Append(l, Entry(IF \E d \in ActiveAt(l, Len(l)) : Ref[d] = Ref[e]
                    THEN "deduplicated" ELSE "added", e, NoTime))

\* materialize_posterior_snapshot, of the ledger up to its end.
Posterior(l) ==
    [active |-> ActiveAt(l, Len(l)), at |-> [session |-> session, cursor |-> Len(l)]]

-----------------------------------------------------------------------------

Init ==
    /\ session = 1 /\ lost = FALSE
    /\ ledger = <<>> /\ posterior = Absent /\ traces = {} /\ ref = Absent
    /\ pending = <<>> /\ stage = "log"
    /\ sidecar = Absent /\ checkpoint = Absent
    /\ Log!Init

\* ingest_latent_feedback: an item is added, noted as a duplicate, or refused; then the
\* posterior is made anew and recorded (its two events, written together, are one here).
Ingest(e) ==
    LET noted == IF e = Absent THEN Append(Ledger, Entry("rejected", Absent, NoTime))
                               ELSE Noted(Ledger, e)
    IN  /\ Len(noted) < MaxLedger
        /\ posterior' = Posterior(noted)
        /\ ledger' = Append(noted, Entry("posterior", Absent, Posterior(noted).at))
        /\ UNCHANGED <<session, traces, ref, pending, stage, disk, lost>>

\* annotate_candidates_with_latent_signals: the ranking is pinned to the posterior at hand,
\* which is made now if there is none, and its trace goes to the candidates.
Rank ==
    LET pinned == IF posterior = Absent THEN Posterior(Ledger) ELSE posterior
    IN  /\ Cursor(ledger) < MaxLedger
        /\ posterior' = pinned
        /\ ledger' = Append(Ledger, Entry("bound", Absent, pinned.at))
        /\ traces' = traces \union {pinned}
        /\ UNCHANGED <<session, ref, pending, stage, disk, lost>>

\* LiveNexusStore.freeze with _prepare_latent_metadata: the checkpoint is built with the
\* hash of the ledger in the place of the ledger.
Freeze ==
    /\ Len(pending) < MaxPending
    /\ ref' = IF ledger = Absent THEN ref ELSE ledger
    /\ pending' = Append(pending, [ledger |-> ledger, ref |-> ref', posterior |-> posterior,
                                   traces |-> traces])
    /\ UNCHANGED <<session, ledger, posterior, traces, stage, disk, lost>>

-----------------------------------------------------------------------------
(* The worker: LiveNexusStore.write up to the commit.  The posterior's own file is written *)
(* and never read, and left out.                                                           *)

Batch == pending[1]

LogStep(next) ==
    /\ stage' = next
    /\ UNCHANGED <<session, memory, pending, sidecar, checkpoint, lost>>

LogLedger ==
    /\ stage = "log" /\ pending # <<>>
    /\ Log!AppendOnce(Rows(Batch.ledger))
    /\ LogStep("sidecar")

WriteSidecar ==
    /\ stage = "sidecar"
    /\ sidecar' = IF Batch.ledger = Absent THEN sidecar ELSE Batch.ledger
    /\ stage' = "posterior"
    /\ UNCHANGED <<session, memory, pending, checkpoint, log, acked, watermark, lost>>

LogPosterior ==
    /\ stage = "posterior"
    /\ Log!AppendOnce(IF Batch.posterior = Absent THEN <<>> ELSE <<SnapshotRow(Batch.posterior)>>)
    /\ LogStep("snapshot")

CommitSnapshot ==
    /\ stage = "snapshot"
    /\ checkpoint' = [ref |-> Batch.ref, posterior |-> Batch.posterior, traces |-> Batch.traces]
    /\ pending' = Tail(pending) /\ stage' = "log"
    /\ UNCHANGED <<session, memory, sidecar, log, acked, watermark, lost>>

-----------------------------------------------------------------------------

\* _hydrate_latent_ledger_sidecar: the sidecar, if it has the hash of the checkpoint.
Hydrated == IF sidecar = checkpoint.ref THEN sidecar ELSE Absent

\* The process ends, with batches queued or half written, and another one resumes from the
\* checkpoint; before the first checkpoint there is nothing to resume.
Restart ==
    /\ session < MaxSessions /\ checkpoint # Absent
    /\ session' = session + 1
    /\ pending' = <<>> /\ stage' = "log"
    /\ ledger' = Hydrated
    /\ posterior' = checkpoint.posterior /\ traces' = checkpoint.traces /\ ref' = checkpoint.ref
    /\ lost' = (lost \/ Hydrated = Absent)

Resume == Restart /\ UNCHANGED disk

\* It dies in a write to the log.
DieLogging(kind) ==
    /\ \/ stage = "log" /\ pending # <<>> /\ Log!CrashInAppendOnce(Rows(Batch.ledger), kind)
       \/ /\ stage = "posterior" /\ Batch.posterior # Absent
          /\ Log!CrashInAppendOnce(<<SnapshotRow(Batch.posterior)>>, kind)
    /\ Restart
    /\ UNCHANGED <<sidecar, checkpoint>>

Next == \/ \E e \in Evidence \union {Absent} : Ingest(e)
        \/ Rank \/ Freeze
        \/ LogLedger \/ WriteSidecar \/ LogPosterior \/ CommitSnapshot
        \/ Resume \/ \E kind \in Torn : DieLogging(kind)

Spec == Init /\ [][Next]_vars

-----------------------------------------------------------------------------
(* Properties *)

Replays(p) == p.at.cursor <= Cursor(ledger) /\ ActiveAt(ledger, p.at.cursor) = p.active

Posteriors == [active : SUBSET (Evidence \union {Absent}), at : Times]

Checkpoints == [ref : Ledgers \union {Absent}, posterior : Posteriors \union {Absent},
                traces : SUBSET Posteriors]

FrozenBatches == [ledger : Ledgers \union {Absent}, ref : Ledgers \union {Absent},
                  posterior : Posteriors \union {Absent}, traces : SUBSET Posteriors]

\* The shapes of the state.
TypeOK ==
    /\ session \in 1 .. MaxSessions /\ lost \in BOOLEAN
    /\ {ledger, ref, sidecar} \subseteq Ledgers \union {Absent}
    /\ posterior \in Posteriors \union {Absent} /\ traces \subseteq Posteriors
    /\ Len(pending) <= MaxPending
    /\ pending \in Seq(FrozenBatches)
    /\ stage \in {"log", "sidecar", "posterior", "snapshot"}
    /\ stage # "log" => pending # <<>>
    /\ checkpoint \in Checkpoints \union {Absent}

\* "The event log is the source of truth.  Snapshots are caches" (latent_ledger.py:3-4): each
\* event of the sidecar, and of the ledger a checkpoint names, is in the log, through torn
\* writes and resumptions that write the same ledger again, and exactly once unless the
\* replay of the log breaks its text.
CachesAreLogged ==
    \A l \in {sidecar} \union (IF checkpoint = Absent THEN {} ELSE {checkpoint.ref}) :
        l # Absent =>
            \A n \in 1 .. Len(l) :
                LET copies == {i \in DOMAIN log : /\ log[i].kind = "event"
                                                  /\ log[i].event = EventRow(l, n)}
                IN  IF EventRow(l, n) \in Multiline THEN copies # {} ELSE Cardinality(copies) = 1

\* "Verify that a latent decision trace can be replayed from ledger events"
\* (runtime_bridge.py:694): unless a restart lost the ledger, the posterior at hand and
\* every ranking a candidate remembers follow from the ledger up to their cursor, also after
\* a resumption that forgot later rounds.
DecisionsReplay ==
    ~lost => \A p \in traces \union ({posterior} \ {Absent}) : Replays(p)

\* "Write one immutable batch with full crash-atomic durability" (live_store.py:216): a
\* restart finds the ledger its checkpoint was taken with.
LedgerIsRestored == ~lost

-----------------------------------------------------------------------------
(* The inductive invariant behind the properties *)

ReplaysIn(l, decisions) ==
    \A p \in decisions : p.at.cursor <= Cursor(l) /\ ActiveAt(l, p.at.cursor) = p.active

DecisionsOf(p, pinned) == pinned \union ({p} \ {Absent})

\* DecisionsReplay, with what the batches and the checkpoint carry to a later process.
NothingIsForgotten ==
    ~lost =>
       /\ ledger # Absent /\ ReplaysIn(ledger, DecisionsOf(posterior, traces))
       /\ \A i \in DOMAIN pending : LET b == pending[i]
                                    IN  b.ref # Absent /\ ReplaysIn(b.ref, DecisionsOf(b.posterior, b.traces))
       /\ checkpoint # Absent =>
             /\ checkpoint.ref # Absent
             /\ ReplaysIn(checkpoint.ref, DecisionsOf(checkpoint.posterior, checkpoint.traces))

Acknowledged(l) == l # Absent => \A n \in 1 .. Len(l) : EventRow(l, n) \in acked

\* What was written to the sidecar, or is named where no ledger is at hand, is in the log;
\* the worker logs a ledger before it comes to the rest of its batch.
LogGoesFirst ==
    /\ Acknowledged(sidecar)
    /\ checkpoint # Absent => Acknowledged(checkpoint.ref)
    /\ ledger = Absent => Acknowledged(ref)
    /\ \A i \in DOMAIN pending :
          /\ pending[i].ledger = Absent => Acknowledged(pending[i].ref)
          /\ pending[i].ledger # Absent => pending[i].ref = pending[i].ledger
    /\ stage # "log" => Acknowledged(Batch.ledger)

IInv == TypeOK /\ Log!IInv /\ NothingIsForgotten /\ LogGoesFirst
=================================================================================
