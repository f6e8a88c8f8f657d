--------------------------- MODULE LatentLedgerProofs ---------------------------
(***************************************************************************)
(* For any evidence, any keys and every number of sessions, events and     *)
(* batches: the event log of the ledger behaves as EventStore specifies,   *)
(* the cached ledgers are in it, and a decision replays from the           *)
(* ledger unless a restart lost it.                                        *)
(***************************************************************************)
EXTENDS LatentLedger, FiniteSetTheorems, SequenceTheorems, TLAPS

\* What is proved of the event log, for the rows of this ledger.
LogProofs == INSTANCE EventStoreProofs
                 WITH Events <- LogEvents, Plain <- {}, MaxBatch <- MaxLedger

\* The log of this ledger is an instance the proofs of EventStore speak of.
LEMMA LogIsAnInstance == LogProofs!EventStoreAssumption
  BY LatentLedgerAssumption, MultilineAssumption DEF LogProofs!EventStoreAssumption, LogProofs!TornKinds

\* Both instances write the same.
LEMMA SameWrites ==
  /\ \A events : LogProofs!Appended(events) = Log!Appended(events)
  /\ \A events : LogProofs!Unseen(events) = Log!Unseen(events)
  /\ LogProofs!Readable <=> Log!Readable
  /\ \A events, batch : LogProofs!Write(events, batch) <=> Log!Write(events, batch)
  /\ \A events, kind : LogProofs!Tear(events, kind) <=> Log!Tear(events, kind)
<1>1. \A events : LogProofs!Appended(events) = Log!Appended(events)
  BY DEF LogProofs!Appended, Log!Appended, LogProofs!EventLine, Log!EventLine, LogProofs!Chunk, Log!Chunk
<1>2. \A events : LogProofs!Unseen(events) = Log!Unseen(events)
  BY DEF LogProofs!Unseen, Log!Unseen, LogProofs!Replay, Log!Replay, LogProofs!At, Log!At,
         LogProofs!Nth, Log!Nth, LogProofs!Cardinality, Log!Cardinality
<1>3. LogProofs!Readable <=> Log!Readable
  BY DEF LogProofs!Readable, Log!Readable
<1>4. \A events, batch : LogProofs!Write(events, batch) <=> Log!Write(events, batch)
  BY <1>1 DEF LogProofs!Write, Log!Write, LogProofs!Fits, Log!Fits
<1>5. \A events, kind : LogProofs!Tear(events, kind) <=> Log!Tear(events, kind)
  <2>1. \A chunks : LogProofs!Fits(chunks) <=> Log!Fits(chunks)
    BY DEF LogProofs!Fits, Log!Fits
  <2>2. \A kind, e, ended : LogProofs!Chunk(kind, e, ended) = Log!Chunk(kind, e, ended)
    BY DEF LogProofs!Chunk, Log!Chunk
  <2> QED
    BY <1>1, <2>1, <2>2, ZenonT(40) DEF LogProofs!Tear, Log!Tear
<1> QED
  BY <1>1, <1>2, <1>3, <1>4, <1>5

\* Both instances take the same steps.
LEMMA SameSteps == [Log!Next]_(Log!vars) => [LogProofs!Next]_(LogProofs!vars)
<1>1. \A b : LogProofs!AppendOnce(b) <=> Log!AppendOnce(b)
  BY SameWrites DEF LogProofs!AppendOnce, Log!AppendOnce
<1>2. \A b, k : LogProofs!CrashInAppendOnce(b, k) <=> Log!CrashInAppendOnce(b, k)
  BY SameWrites DEF LogProofs!CrashInAppendOnce, Log!CrashInAppendOnce
<1>3. LogProofs!TakeWatermark <=> Log!TakeWatermark
  BY DEF LogProofs!TakeWatermark, Log!TakeWatermark, LogProofs!CommittedOffset, Log!CommittedOffset
<1>4. LogProofs!Batches = Log!Batches
  BY DEF LogProofs!Batches, Log!Batches
<1>5. LogProofs!vars = Log!vars
  BY DEF LogProofs!vars, Log!vars
<1>6. (UNCHANGED Log!vars) => UNCHANGED LogProofs!vars
  BY DEF LogProofs!vars, Log!vars
<1> QED
  BY <1>1, <1>2, <1>3, <1>4, <1>6 DEF LogProofs!Next, Log!Next

\* Both instances mean the same by the invariant of the log.
LEMMA SameInvariant == Log!IInv <=> LogProofs!IInv
  BY DEF LogProofs!IInv, Log!IInv, LogProofs!TypeOK, Log!TypeOK, LogProofs!TornKinds, Log!TornKinds,
         LogProofs!OnlyTheTailIsTorn, Log!OnlyTheTailIsTorn, LogProofs!LoggedOnce, Log!LoggedOnce,
         LogProofs!AckedEventsStay, Log!AckedEventsStay, LogProofs!Logged, Log!Logged

\* A batch without events is without new ones.
LEMMA NothingUnseen == ASSUME NEW b, DOMAIN b = {} PROVE Log!Unseen(b) = <<>>
<1> DEFINE c == LogProofs!Cardinality({})
<1>1. LogProofs!Unseen(b) = [n \in 1..c |-> b[LogProofs!Nth({}, n)]]
  <2>1. {i \in DOMAIN b : b[i] \notin LogProofs!Replay /\ \A k \in 1..(i - 1) : b[k] # b[i]} = {}
    OBVIOUS
  <2> QED
    BY <2>1 DEF LogProofs!Unseen, LogProofs!At
<1>2. c \in Nat /\ \A n \in 1..c : LogProofs!Nth({}, n) \in {}
  <2>1. {} \in SUBSET (1..0)
    OBVIOUS
  <2> QED
    BY <2>1, LogIsAnInstance, LogProofs!NthEnumerates
<1>3. 1..c = {}
  BY <1>2
<1>4. LogProofs!Unseen(b) = <<>>
  BY <1>1, <1>3
<1> QED
  BY <1>4, SameWrites

\* The rows of a ledger are events of the log, and so is the row of a posterior.
LEMMA RowsAreEvents ==
  /\ \A l \in Ledgers \union {Absent} :
        /\ Cursor(l) \in 0 .. MaxLedger /\ Rows(l) \in [1 .. Cursor(l) -> LogEvents]
        /\ DOMAIN Rows(l) = 1 .. Cursor(l)
  /\ \A p \in Posteriors : SnapshotRow(p) \in LogEvents
<1>0. MaxLedger \in Nat
  BY LatentLedgerAssumption
<1>1. ASSUME NEW l \in Ledgers \union {Absent}
      PROVE  Cursor(l) \in 0 .. MaxLedger /\ Rows(l) \in [1 .. Cursor(l) -> LogEvents]
  <2>1. Cursor(l) \in 0 .. MaxLedger
    BY <1>0 DEF Cursor, Ledgers
  <2>2. ASSUME NEW n \in 1 .. Cursor(l) PROVE EventRow(l, n) \in LogEvents
    <3>1. l \in Seq(Entries) /\ n \in 1 .. Len(l)
      BY <2>2 DEF Cursor, Ledgers
    <3>2. l[n] \in Entries
      BY <3>1
    <3>3. n \in 0 .. MaxLedger
      BY <1>0, <2>1
    <3> QED
      BY <3>2, <3>3 DEF EventRow, LogEvents
  <2> QED
    BY <2>1, <2>2 DEF Rows
<1>2. ASSUME NEW p \in Posteriors PROVE SnapshotRow(p) \in LogEvents
  BY <1>0 DEF Posteriors, SnapshotRow, Entry, Entries, LogEvents
<1> QED
  BY <1>1, <1>2 DEF Rows

\* One row, as a batch.
LEMMA RowIsABatch ==
  ASSUME NEW p \in Posteriors
  PROVE  <<SnapshotRow(p)>> \in Log!Batches
<1>1. SnapshotRow(p) \in LogEvents /\ MaxLedger \in Nat \ {0}
  BY RowsAreEvents, LatentLedgerAssumption
<1>2. <<SnapshotRow(p)>> \in [1..1 -> LogEvents] /\ 1 \in 1..MaxLedger
  BY <1>1
<1> QED
  BY <1>2 DEF Log!Batches, LogEvents

\* The rows of a ledger, as a batch, unless there are none.
LEMMA RowsAreABatch ==
  ASSUME NEW l \in Ledgers \union {Absent}
  PROVE  Rows(l) \in Log!Batches \/ DOMAIN Rows(l) = {}
<1>1. Cursor(l) \in 0 .. MaxLedger /\ Rows(l) \in [1 .. Cursor(l) -> LogEvents] /\ MaxLedger \in Nat
  BY RowsAreEvents, LatentLedgerAssumption
<1>2. CASE Cursor(l) = 0
  BY <1>1, <1>2
<1>3. CASE Cursor(l) \in 1 .. MaxLedger
  BY <1>1, <1>3 DEF Log!Batches, LogEvents
<1> QED
  BY <1>1, <1>2, <1>3

\* Writing a batch without events leaves the log alone.
LEMMA EmptyWrite == ASSUME NEW b, DOMAIN b = {}, Log!AppendOnce(b) PROVE UNCHANGED Log!vars
<1>1. Log!Unseen(b) = <<>>
  BY NothingUnseen
<1>2. Log!Appended(<<>>) = log
  BY DEF Log!Appended
<1> QED
  BY <1>1, <1>2 DEF Log!AppendOnce, Log!Write, Log!vars

\* To the log, every step is a step of EventStore or none.
LEMMA LogRefines == TypeOK /\ [Next]_vars => [Log!Next]_(Log!vars)
<1> SUFFICES ASSUME TypeOK, [Next]_vars PROVE [Log!Next]_(Log!vars)
  OBVIOUS
<1>1. ASSUME UNCHANGED <<log, acked, watermark>> PROVE [Log!Next]_(Log!vars)
  BY <1>1 DEF Log!vars
<1>2. ASSUME pending # <<>> PROVE Batch \in FrozenBatches
  <2>1. pending \in Seq(FrozenBatches)
    BY DEF TypeOK
  <2> QED
    BY <1>2, <2>1 DEF Batch
<1>3. ASSUME NEW b, b \in Log!Batches \/ DOMAIN b = {}, Log!AppendOnce(b) PROVE [Log!Next]_(Log!vars)
  BY <1>3, EmptyWrite DEF Log!Next
<1>4. ASSUME NEW b, b \in Log!Batches \/ DOMAIN b = {}, NEW k \in Torn, Log!CrashInAppendOnce(b, k)
      PROVE  [Log!Next]_(Log!vars)
  <2>1. DOMAIN b # {}
    BY <1>4, NothingUnseen DEF Log!CrashInAppendOnce
  <2> QED
    BY <1>4, <2>1 DEF Log!Next
<1>5. CASE LogLedger
  <2>1. Rows(Batch.ledger) \in Log!Batches \/ DOMAIN Rows(Batch.ledger) = {}
    BY <1>2, <1>5, RowsAreABatch DEF LogLedger, FrozenBatches
  <2> QED
    BY <1>3, <1>5, <2>1 DEF LogLedger
<1>6. CASE LogPosterior
  <2>1. Batch \in FrozenBatches
    BY <1>2, <1>6 DEF LogPosterior, TypeOK
  <2>2. CASE Batch.posterior = Absent
    BY <1>3, <1>6, <2>2 DEF LogPosterior
  <2>3. CASE Batch.posterior # Absent
    <3>1. Batch.posterior \in Posteriors
      BY <2>1, <2>3 DEF FrozenBatches
    <3> QED
      BY <1>3, <1>6, <2>3, <3>1, RowIsABatch DEF LogPosterior
  <2> QED
    BY <2>2, <2>3
<1>7. ASSUME NEW kind \in Torn, DieLogging(kind) PROVE [Log!Next]_(Log!vars)
  <2>1. CASE stage = "log" /\ pending # <<>> /\ Log!CrashInAppendOnce(Rows(Batch.ledger), kind)
    <3>1. Rows(Batch.ledger) \in Log!Batches \/ DOMAIN Rows(Batch.ledger) = {}
      BY <1>2, <2>1, RowsAreABatch DEF FrozenBatches
    <3> QED
      BY <1>4, <2>1, <3>1
  <2>2. CASE stage = "posterior" /\ Batch.posterior # Absent
             /\ Log!CrashInAppendOnce(<<SnapshotRow(Batch.posterior)>>, kind)
    <3>1. Batch.posterior \in Posteriors
      BY <1>2, <2>2 DEF FrozenBatches, TypeOK
    <3> QED
      BY <1>4, <2>2, <3>1, RowIsABatch
  <2> QED
    BY <1>7, <2>1, <2>2 DEF DieLogging
<1>8. CASE UNCHANGED vars
  BY <1>1, <1>8 DEF vars, disk
<1> QED
  BY <1>1, <1>5, <1>6, <1>7, <1>8
  DEF Next, Ingest, Rank, Freeze, WriteSidecar, CommitSnapshot, Resume, disk

\* The invariant of the log is inductive for the steps of the ledger.
LEMMA LogIsKept == TypeOK /\ Log!IInv /\ [Next]_vars => Log!IInv'
<1>1. TypeOK /\ [Next]_vars => [Log!Next]_(Log!vars)
  BY LogRefines
<1>2. [Log!Next]_(Log!vars) => [LogProofs!Next]_(LogProofs!vars)
  BY SameSteps
<1>3. LogProofs!IInv /\ [LogProofs!Next]_(LogProofs!vars) => LogProofs!IInv'
  BY LogIsAnInstance, LogProofs!InductiveStep
<1> QED
  BY <1>1, <1>2, <1>3, SameInvariant, PTL

-----------------------------------------------------------------------------

\* An event more makes a ledger of a ledger that has room, and leaves what was active at
\* an earlier cursor as it was.
LEMMA LedgerGrows ==
  ASSUME NEW l \in Ledgers, Len(l) < MaxLedger, NEW x \in Entries
  PROVE  /\ Append(l, x) \in Ledgers /\ Append(l, x) # Absent
         /\ Len(Append(l, x)) = Len(l) + 1
         /\ \A cursor \in Nat : cursor <= Len(l) => ActiveAt(Append(l, x), cursor) = ActiveAt(l, cursor)
<1> DEFINE m == Append(l, x)
<1>1. MaxLedger \in Nat /\ l \in Seq(Entries) /\ Len(l) \in Nat
  BY LatentLedgerAssumption DEF Ledgers
<1>2. /\ m \in Seq(Entries) /\ Len(m) = Len(l) + 1
      /\ \A i \in 1 .. Len(l) : m[i] = l[i]
  BY <1>1
<1>3. m \in Ledgers
  BY <1>1, <1>2 DEF Ledgers
<1>4. ASSUME NEW cursor \in Nat, cursor <= Len(l)
      PROVE  ActiveAt(m, cursor) = ActiveAt(l, cursor)
  <2> DEFINE addedIn(h) == {k \in 1 .. cursor : h[k].kind = "added"}
             firstIn(h) == {i \in addedIn(h) :
                              \A k \in addedIn(h) : k < i => Ref[h[k].evidence] # Ref[h[i].evidence]}
  <2>1. \A k \in 1 .. cursor : k \in 1 .. Len(l)
    BY <1>1, <1>4
  <2>2. \A k \in 1 .. cursor : m[k] = l[k]
    BY <1>2, <2>1
  <2>3. addedIn(m) = addedIn(l)
    BY <2>2
  <2>4. firstIn(m) = firstIn(l)
    BY <2>2, <2>3
  <2>5. {m[i].evidence : i \in firstIn(m)} = {l[i].evidence : i \in firstIn(l)}
    <3>1. \A i \in firstIn(l) : m[i].evidence = l[i].evidence
      BY <2>2
    <3> HIDE DEF m, firstIn
    <3> QED
      BY <2>4, <3>1
  <2>6. ActiveAt(m, cursor) = {m[i].evidence : i \in firstIn(m)}
    BY DEF ActiveAt
  <2>7. ActiveAt(l, cursor) = {l[i].evidence : i \in firstIn(l)}
    BY DEF ActiveAt
  <2> QED
    BY <2>5, <2>6, <2>7
<1> QED
  BY <1>2, <1>3, <1>4, AbsentAssumption

\* A posterior made of a ledger is one, and replays from it.
LEMMA PosteriorReplays ==
  ASSUME TypeOK, NEW l \in Ledgers
  PROVE  /\ Posterior(l) \in Posteriors /\ Posterior(l).at \in Times
         /\ Posterior(l).at.cursor = Len(l) /\ Posterior(l).active = ActiveAt(l, Len(l))
<1>1. l \in Seq(Entries) /\ Len(l) \in 0 .. MaxLedger /\ MaxLedger \in Nat
  BY LatentLedgerAssumption DEF Ledgers
<1>2. ActiveAt(l, Len(l)) \subseteq Evidence \union {Absent}
  <2>1. \A i \in 1 .. Len(l) : l[i].evidence \in Evidence \union {Absent}
    <3>1. \A i \in 1 .. Len(l) : l[i] \in Entries
      BY <1>1
    <3>2. \A x \in Entries : x.evidence \in Evidence \union {Absent}
      BY DEF Entries
    <3> QED
      BY <3>1, <3>2
  <2> QED
    BY <2>1 DEF ActiveAt
<1>3. [session |-> session, cursor |-> Len(l)] \in Times
  BY <1>1, LatentLedgerAssumption DEF TypeOK, Times
<1> QED
  BY <1>2, <1>3 DEF Posterior, Posteriors

\* The ledger of a contract that has none is empty.
LEMMA LedgerAtHand ==
  ASSUME TypeOK PROVE Ledger \in Ledgers /\ Cursor(ledger) = Len(Ledger)
<1>1. <<>> \in Ledgers /\ Len(<<>>) = 0
  BY LatentLedgerAssumption DEF Ledgers
<1> QED
  BY <1>1 DEF TypeOK, Ledger, Cursor

\* The first of the batches, and those behind it.
LEMMA BatchAtHand ==
  ASSUME TypeOK, pending # <<>>
  PROVE  /\ Batch \in FrozenBatches /\ 1 \in DOMAIN pending
         /\ Tail(pending) \in Seq(FrozenBatches) /\ Len(Tail(pending)) <= MaxPending
         /\ \A i \in DOMAIN Tail(pending) : i + 1 \in DOMAIN pending /\ Tail(pending)[i] = pending[i + 1]
<1>1. pending \in Seq(FrozenBatches) /\ MaxPending \in Nat /\ Len(pending) <= MaxPending
  BY LatentLedgerAssumption DEF TypeOK
<1>2. Len(pending) \in Nat /\ Len(pending) > 0
  BY <1>1
<1>3. /\ Tail(pending) \in Seq(FrozenBatches) /\ Len(Tail(pending)) = Len(pending) - 1
      /\ \A i \in 1 .. Len(Tail(pending)) : Tail(pending)[i] = pending[i + 1]
  BY <1>1, <1>2
<1> QED
  BY <1>1, <1>2, <1>3 DEF Batch

\* What a piece of feedback leaves: a ledger that is longer, and a posterior made of it.
LEMMA IngestGrows ==
  ASSUME TypeOK, NEW e \in Evidence \union {Absent}, Ingest(e)
  PROVE  /\ ledger' \in Ledgers /\ ledger' # Absent /\ Len(Ledger) <= Len(ledger')
         /\ posterior' \in Posteriors
         /\ posterior'.at.cursor <= Len(ledger')
         /\ ActiveAt(ledger', posterior'.at.cursor) = posterior'.active
         /\ \A cursor \in Nat : cursor <= Len(Ledger) => ActiveAt(ledger', cursor) = ActiveAt(Ledger, cursor)
<1> DEFINE noted == IF e = Absent THEN Append(Ledger, Entry("rejected", Absent, NoTime))
                                  ELSE Noted(Ledger, e)
<1>1. Ledger \in Ledgers /\ Len(Ledger) \in Nat /\ MaxLedger \in Nat
  BY LedgerAtHand, LatentLedgerAssumption DEF Ledgers
<1>2. NoTime \in Times
  BY LatentLedgerAssumption DEF NoTime, Times
<1>3. PICK x \in Entries : noted = Append(Ledger, x)
  <2>1. /\ Entry("rejected", Absent, NoTime) \in Entries
        /\ \A kind \in {"added", "deduplicated"} : Entry(kind, e, NoTime) \in Entries
    BY <1>2 DEF Entry, Entries
  <2> QED
    BY <2>1 DEF Noted
<1>4. Len(noted) < MaxLedger /\ posterior' = Posterior(noted)
      /\ ledger' = Append(noted, Entry("posterior", Absent, Posterior(noted).at))
  BY DEF Ingest
<1>5. Len(noted) = Len(Ledger) + 1
  <2>1. Ledger \in Seq(Entries)
    BY <1>1 DEF Ledgers
  <2> QED
    BY <1>3, <2>1
<1> HIDE DEF noted
<1>6. /\ noted \in Ledgers /\ Len(noted) = Len(Ledger) + 1
      /\ \A cursor \in Nat : cursor <= Len(Ledger) => ActiveAt(noted, cursor) = ActiveAt(Ledger, cursor)
  <2>1. Len(Ledger) < MaxLedger
    BY <1>1, <1>4, <1>5
  <2> QED
    BY <1>1, <1>3, <2>1, LedgerGrows
<1>7. /\ Posterior(noted) \in Posteriors /\ Posterior(noted).at \in Times
      /\ Posterior(noted).at.cursor = Len(noted) /\ Posterior(noted).active = ActiveAt(noted, Len(noted))
  BY <1>6, PosteriorReplays
<1>8. Entry("posterior", Absent, Posterior(noted).at) \in Entries
  BY <1>7 DEF Entry, Entries
<1>9. /\ ledger' \in Ledgers /\ ledger' # Absent /\ Len(ledger') = Len(noted) + 1
      /\ \A cursor \in Nat : cursor <= Len(noted) => ActiveAt(ledger', cursor) = ActiveAt(noted, cursor)
  BY <1>4, <1>6, <1>8, LedgerGrows
<1> QED
  BY <1>1, <1>4, <1>6, <1>7, <1>9

\* What a ranking leaves, likewise; it is pinned to the posterior at hand, or to a new one.
LEMMA RankGrows ==
  ASSUME TypeOK, Rank
  PROVE  /\ ledger' \in Ledgers /\ ledger' # Absent /\ Len(Ledger) <= Len(ledger')
         /\ posterior' \in Posteriors /\ traces' = traces \union {posterior'}
         /\ posterior = Absent \/ posterior' = posterior
         /\ posterior = Absent => /\ posterior'.at.cursor <= Len(ledger')
                                  /\ ActiveAt(ledger', posterior'.at.cursor) = posterior'.active
         /\ \A cursor \in Nat : cursor <= Len(Ledger) => ActiveAt(ledger', cursor) = ActiveAt(Ledger, cursor)
<1> DEFINE pinned == IF posterior = Absent THEN Posterior(Ledger) ELSE posterior
<1>1. Ledger \in Ledgers /\ Len(Ledger) \in Nat /\ MaxLedger \in Nat /\ Len(Ledger) < MaxLedger
  BY LedgerAtHand, LatentLedgerAssumption DEF Ledgers, Rank
<1>2. /\ Posterior(Ledger) \in Posteriors
      /\ Posterior(Ledger).at.cursor = Len(Ledger) /\ Posterior(Ledger).active = ActiveAt(Ledger, Len(Ledger))
  BY <1>1, PosteriorReplays
<1>3. pinned \in Posteriors
  BY <1>2 DEF TypeOK
<1>4. posterior' = pinned /\ traces' = traces \union {pinned}
      /\ ledger' = Append(Ledger, Entry("bound", Absent, pinned.at))
  BY DEF Rank
<1>5. Entry("bound", Absent, pinned.at) \in Entries
  <2>1. pinned.at \in Times
    BY <1>3 DEF Posteriors
  <2> HIDE DEF pinned
  <2> QED
    BY <2>1 DEF Entry, Entries
<1>6. posterior = Absent => pinned = Posterior(Ledger)
  OBVIOUS
<1>7. posterior # Absent => pinned = posterior
  OBVIOUS
<1> HIDE DEF pinned
<1>8. /\ ledger' \in Ledgers /\ ledger' # Absent /\ Len(ledger') = Len(Ledger) + 1
      /\ \A cursor \in Nat : cursor <= Len(Ledger) => ActiveAt(ledger', cursor) = ActiveAt(Ledger, cursor)
  BY <1>1, <1>4, <1>5, LedgerGrows
<1> QED
  BY <1>1, <1>2, <1>3, <1>4, <1>6, <1>7, <1>8

\* The shapes of the state are kept.
LEMMA TypeStep == TypeOK /\ [Next]_vars => TypeOK'
<1> SUFFICES ASSUME TypeOK, [Next]_vars PROVE TypeOK'
  OBVIOUS
<1>1. ASSUME NEW e \in Evidence \union {Absent}, Ingest(e) PROVE TypeOK'
  BY <1>1, IngestGrows DEF Ingest, TypeOK, disk
<1>2. CASE Rank
  <2>1. ledger' \in Ledgers /\ posterior' \in Posteriors /\ traces' = traces \union {posterior'}
    BY <1>2, RankGrows
  <2> QED
    BY <1>2, <2>1 DEF Rank, TypeOK, disk
<1>3. CASE Freeze
  <2> DEFINE b == [ledger |-> ledger, ref |-> ref', posterior |-> posterior, traces |-> traces]
  <2>1. ref' \in Ledgers \union {Absent}
    BY <1>3 DEF Freeze, TypeOK
  <2>2. b \in FrozenBatches
    BY <2>1 DEF TypeOK, FrozenBatches
  <2>3. pending' = Append(pending, b) /\ Len(pending) < MaxPending
    BY <1>3 DEF Freeze
  <2> HIDE DEF b
  <2>4. pending \in Seq(FrozenBatches) /\ Len(pending) \in Nat /\ MaxPending \in Nat
    BY LatentLedgerAssumption DEF TypeOK
  <2>5. pending' \in Seq(FrozenBatches) /\ Len(pending') = Len(pending) + 1 /\ pending' # <<>>
    BY <2>2, <2>3, <2>4
  <2>6. Len(pending') <= MaxPending
    BY <2>3, <2>4, <2>5
  <2> QED
    BY <1>3, <2>1, <2>5, <2>6 DEF Freeze, TypeOK, disk
<1>4. CASE LogLedger
  BY <1>4 DEF LogLedger, LogStep, TypeOK, memory
<1>5. CASE WriteSidecar
  <2>1. Batch \in FrozenBatches
    BY <1>5, BatchAtHand DEF WriteSidecar, TypeOK
  <2>2. sidecar' \in Ledgers \union {Absent}
    BY <1>5, <2>1 DEF WriteSidecar, FrozenBatches, TypeOK
  <2> QED
    BY <1>5, <2>2 DEF WriteSidecar, TypeOK, memory
<1>6. CASE LogPosterior
  BY <1>6 DEF LogPosterior, LogStep, TypeOK, memory
<1>7. CASE CommitSnapshot
  <2>1. /\ Batch \in FrozenBatches
        /\ Tail(pending) \in Seq(FrozenBatches) /\ Len(Tail(pending)) <= MaxPending
    BY <1>7, BatchAtHand DEF CommitSnapshot, TypeOK
  <2>2. checkpoint' \in Checkpoints
    BY <1>7, <2>1 DEF CommitSnapshot, FrozenBatches, Checkpoints
  <2> QED
    BY <1>7, <2>1, <2>2 DEF CommitSnapshot, TypeOK, memory
<1>8. ASSUME Restart, UNCHANGED <<sidecar, checkpoint>> PROVE TypeOK'
  <2>1. checkpoint \in Checkpoints
    BY <1>8 DEF Restart, TypeOK
  <2>2. session' \in 1 .. MaxSessions
    BY <1>8, LatentLedgerAssumption DEF Restart, TypeOK
  <2>3. Hydrated \in Ledgers \union {Absent}
    BY DEF Hydrated, TypeOK
  <2>4. pending' \in Seq(FrozenBatches) /\ Len(pending') <= MaxPending
    BY <1>8, LatentLedgerAssumption DEF Restart
  <2>5. /\ posterior' \in Posteriors \union {Absent} /\ traces' \subseteq Posteriors
        /\ ref' \in Ledgers \union {Absent}
    BY <1>8, <2>1 DEF Restart, Checkpoints
  <2> QED
    BY <1>8, <2>2, <2>3, <2>4, <2>5 DEF Restart, TypeOK
<1>9. CASE UNCHANGED vars
  BY <1>9 DEF TypeOK, vars, memory, disk
<1> QED
  BY <1>1, <1>2, <1>3, <1>4, <1>5, <1>6, <1>7, <1>8, <1>9 DEF Next, Resume, DieLogging, disk

\* What replays from a ledger replays from a longer one.
LEMMA StillReplays ==
  ASSUME NEW l \in Ledgers, NEW m \in Ledgers, Len(l) <= Len(m), l # Absent, m # Absent,
         \A cursor \in Nat : cursor <= Len(l) => ActiveAt(m, cursor) = ActiveAt(l, cursor),
         NEW decisions \in SUBSET Posteriors, ReplaysIn(l, decisions)
  PROVE  ReplaysIn(m, decisions)
<1>1. Len(l) \in Nat /\ Len(m) \in Nat /\ Cursor(l) = Len(l) /\ Cursor(m) = Len(m)
  BY DEF Ledgers, Cursor
<1>2. \A p \in decisions : p.at.cursor \in Nat
  BY DEF Posteriors, Times
<1> QED
  BY <1>1, <1>2 DEF ReplaysIn

\* A batch, its checkpoint and a later process have the ledger of their decisions, unless
\* a restart lost it.
LEMMA ForgottenStep == TypeOK /\ NothingIsForgotten /\ [Next]_vars => NothingIsForgotten'
<1> SUFFICES ASSUME TypeOK, NothingIsForgotten, [Next]_vars, ~lost' PROVE NothingIsForgotten'
  BY DEF NothingIsForgotten
<1>0. ~lost
  BY DEF Next, Ingest, Rank, Freeze, LogLedger, LogStep, WriteSidecar, LogPosterior, CommitSnapshot,
         Resume, DieLogging, Restart, vars
<1>1. ledger \in Ledgers /\ ledger # Absent /\ Ledger = ledger
  BY <1>0 DEF NothingIsForgotten, TypeOK, Ledger
<1>2. DecisionsOf(posterior, traces) \in SUBSET Posteriors
  BY DEF DecisionsOf, TypeOK
<1>3. ASSUME NEW e \in Evidence \union {Absent}, Ingest(e) PROVE NothingIsForgotten'
  <2>1. /\ ledger' \in Ledgers /\ ledger' # Absent /\ Len(ledger) <= Len(ledger')
        /\ posterior'.at.cursor <= Len(ledger')
        /\ ActiveAt(ledger', posterior'.at.cursor) = posterior'.active
        /\ \A cursor \in Nat : cursor <= Len(ledger) => ActiveAt(ledger', cursor) = ActiveAt(ledger, cursor)
    BY <1>1, <1>3, IngestGrows
  <2>2. ReplaysIn(ledger', DecisionsOf(posterior, traces))
    BY <1>0, <1>1, <1>2, <2>1, StillReplays DEF NothingIsForgotten
  <2>3. traces' = traces
    BY <1>3 DEF Ingest
  <2>4. ReplaysIn(ledger', DecisionsOf(posterior', traces'))
    BY <2>1, <2>2, <2>3 DEF ReplaysIn, DecisionsOf, Cursor
  <2> QED
    BY <1>0, <1>3, <2>1, <2>4 DEF Ingest, NothingIsForgotten, disk
<1>4. CASE Rank
  <2>1. /\ ledger' \in Ledgers /\ ledger' # Absent /\ Len(ledger) <= Len(ledger')
        /\ traces' = traces \union {posterior'}
        /\ posterior = Absent \/ posterior' = posterior
        /\ posterior = Absent => /\ posterior'.at.cursor <= Len(ledger')
                                 /\ ActiveAt(ledger', posterior'.at.cursor) = posterior'.active
        /\ \A cursor \in Nat : cursor <= Len(ledger) => ActiveAt(ledger', cursor) = ActiveAt(ledger, cursor)
    BY <1>1, <1>4, RankGrows
  <2>2. ReplaysIn(ledger', DecisionsOf(posterior, traces))
    BY <1>0, <1>1, <1>2, <2>1, StillReplays DEF NothingIsForgotten
  <2>3. ReplaysIn(ledger', DecisionsOf(posterior', traces'))
    BY <2>1, <2>2 DEF ReplaysIn, DecisionsOf, Cursor
  <2> QED
    BY <1>0, <1>4, <2>1, <2>3 DEF Rank, NothingIsForgotten, disk
<1>5. CASE Freeze
  <2> DEFINE b == [ledger |-> ledger, ref |-> ledger, posterior |-> posterior, traces |-> traces]
  <2>1. pending' = Append(pending, b)
    BY <1>1, <1>5 DEF Freeze
  <2>2. b.ref = ledger /\ b.posterior = posterior /\ b.traces = traces
    OBVIOUS
  <2>3. pending \in Seq(FrozenBatches)
    BY DEF TypeOK
  <2> HIDE DEF b
  <2>4. \A i \in DOMAIN pending' : \/ pending'[i] = b
                                   \/ i \in DOMAIN pending /\ pending'[i] = pending[i]
    <3>1. Len(pending) \in Nat /\ DOMAIN pending = 1 .. Len(pending)
      BY <2>3
    <3>2. /\ DOMAIN pending' = 1 .. (Len(pending) + 1) /\ pending'[Len(pending) + 1] = b
          /\ \A i \in 1 .. Len(pending) : pending'[i] = pending[i]
      BY <2>1, <2>3
    <3> QED
      BY <3>1, <3>2
  <2> QED
    BY <1>0, <1>5, <2>2, <2>4 DEF Freeze, NothingIsForgotten, disk
<1>6. CASE LogLedger \/ WriteSidecar \/ LogPosterior
  BY <1>0, <1>6 DEF LogLedger, LogStep, WriteSidecar, LogPosterior, NothingIsForgotten, memory
<1>7. CASE CommitSnapshot
  <2>1. /\ Batch \in FrozenBatches /\ 1 \in DOMAIN pending
        /\ \A i \in DOMAIN Tail(pending) : i + 1 \in DOMAIN pending /\ Tail(pending)[i] = pending[i + 1]
    BY <1>7, BatchAtHand DEF CommitSnapshot, TypeOK
  <2>2. Batch.ref # Absent /\ ReplaysIn(Batch.ref, DecisionsOf(Batch.posterior, Batch.traces))
    BY <1>0, <2>1 DEF NothingIsForgotten, Batch
  <2>3. /\ checkpoint'.ref = Batch.ref /\ checkpoint'.posterior = Batch.posterior
        /\ checkpoint'.traces = Batch.traces
    BY <1>7 DEF CommitSnapshot
  <2>4. /\ checkpoint'.ref # Absent
        /\ ReplaysIn(checkpoint'.ref, DecisionsOf(checkpoint'.posterior, checkpoint'.traces))
    BY <2>2, <2>3
  <2>5. \A i \in DOMAIN pending' : /\ pending'[i].ref # Absent
                                   /\ ReplaysIn(pending'[i].ref, DecisionsOf(pending'[i].posterior, pending'[i].traces))
    BY <1>0, <1>7, <2>1 DEF CommitSnapshot, NothingIsForgotten
  <2> QED
    BY <1>0, <1>7, <2>4, <2>5 DEF CommitSnapshot, NothingIsForgotten, memory
<1>8. ASSUME Restart, UNCHANGED <<sidecar, checkpoint>> PROVE NothingIsForgotten'
  <2>1. Hydrated # Absent /\ checkpoint # Absent /\ ledger' = Hydrated
    BY <1>8 DEF Restart
  <2>2. ledger' = checkpoint.ref /\ posterior' = checkpoint.posterior /\ traces' = checkpoint.traces
    BY <1>8, <2>1 DEF Restart, Hydrated
  <2>3. ReplaysIn(checkpoint.ref, DecisionsOf(checkpoint.posterior, checkpoint.traces))
    BY <1>0, <2>1 DEF NothingIsForgotten
  <2>4. ledger' # Absent /\ ReplaysIn(ledger', DecisionsOf(posterior', traces'))
    BY <2>1, <2>2, <2>3
  <2>5. pending' = <<>>
    BY <1>8 DEF Restart
  <2> QED
    BY <1>0, <1>8, <2>4, <2>5 DEF NothingIsForgotten
<1>9. CASE UNCHANGED vars
  BY <1>0, <1>9 DEF NothingIsForgotten, vars, memory, disk
<1> QED
  BY <1>3, <1>4, <1>5, <1>6, <1>7, <1>8, <1>9 DEF Next, Resume, DieLogging, disk

\* A row of the log is not taken back.
LEMMA AckedGrows == [Next]_vars => acked \subseteq acked'
<1>1. ASSUME NEW b, Log!AppendOnce(b) PROVE acked' = acked \union {b[i] : i \in DOMAIN b}
  BY <1>1 DEF Log!AppendOnce, Log!Write
<1>2. ASSUME NEW b, NEW k, Log!CrashInAppendOnce(b, k) PROVE acked' = acked
  BY <1>2 DEF Log!CrashInAppendOnce, Log!Tear
<1> QED
  BY <1>1, <1>2 DEF Next, Ingest, Rank, Freeze, LogLedger, LogStep, WriteSidecar, LogPosterior,
                    CommitSnapshot, Resume, DieLogging, vars, disk

\* The log has a ledger before the sidecar or a checkpoint names it.
LEMMA LogFirstStep == TypeOK /\ LogGoesFirst /\ [Next]_vars => LogGoesFirst'
<1> SUFFICES ASSUME TypeOK, LogGoesFirst, [Next]_vars PROVE LogGoesFirst'
  OBVIOUS
<1> DEFINE AckedNext(l) == l # Absent => \A n \in 1 .. Len(l) : EventRow(l, n) \in acked'
           Backed(b) == /\ b.ledger = Absent => AckedNext(b.ref)
                        /\ b.ledger # Absent => b.ref = b.ledger
<1>1. \A l : Acknowledged(l) => AckedNext(l)
  BY AckedGrows DEF Acknowledged
<1>2. \A i \in DOMAIN pending : Backed(pending[i])
  BY <1>1 DEF LogGoesFirst
<1>3. /\ AckedNext(sidecar)
      /\ checkpoint # Absent => AckedNext(checkpoint.ref)
      /\ ledger = Absent => AckedNext(ref)
      /\ stage # "log" => AckedNext(Batch.ledger)
  BY <1>1 DEF LogGoesFirst
<1>4. ASSUME AckedNext(sidecar'), checkpoint' # Absent => AckedNext(checkpoint'.ref),
             ledger' = Absent => AckedNext(ref'), \A i \in DOMAIN pending' : Backed(pending'[i]),
             stage' # "log" => AckedNext(pending'[1].ledger)
      PROVE  LogGoesFirst'
  BY <1>4 DEF LogGoesFirst, Acknowledged, Batch
<1>5. stage # "log" => pending # <<>> /\ 1 \in DOMAIN pending
  BY BatchAtHand DEF TypeOK
<1> HIDE DEF AckedNext, Backed
<1>6. ASSUME NEW e \in Evidence \union {Absent}, Ingest(e) PROVE LogGoesFirst'
  <2>1. ledger' # Absent
    BY <1>6, IngestGrows
  <2> QED
    BY <1>2, <1>3, <1>4, <1>6, <2>1 DEF Ingest, disk, Batch
<1>7. CASE Rank
  <2>1. ledger' # Absent
    BY <1>7, RankGrows
  <2> QED
    BY <1>2, <1>3, <1>4, <1>7, <2>1 DEF Rank, disk, Batch
<1>8. CASE Freeze
  <2> DEFINE b == [ledger |-> ledger, ref |-> ref', posterior |-> posterior, traces |-> traces]
  <2>1. Backed(b)
    BY <1>3, <1>8 DEF Freeze, Backed
  <2>2. pending' = Append(pending, b)
    BY <1>8 DEF Freeze
  <2> HIDE DEF b
  <2>3. pending \in Seq(FrozenBatches)
    BY DEF TypeOK
  <2>4. Len(pending) \in Nat /\ DOMAIN pending = 1 .. Len(pending)
    BY <2>3
  <2>5. /\ DOMAIN pending' = 1 .. (Len(pending) + 1) /\ pending'[Len(pending) + 1] = b
        /\ \A i \in 1 .. Len(pending) : pending'[i] = pending[i]
    BY <2>2, <2>3
  <2>6. \A i \in DOMAIN pending' : Backed(pending'[i])
    <3>1. ASSUME NEW i \in 1 .. Len(pending) PROVE Backed(pending'[i])
      BY <1>2, <2>4, <2>5
    <3>2. \A i \in DOMAIN pending' : i \in 1 .. Len(pending) \/ i = Len(pending) + 1
      BY <2>4, <2>5
    <3> QED
      BY <2>1, <2>5, <3>1, <3>2
  <2>7. stage' # "log" => AckedNext(pending'[1].ledger)
    BY <1>3, <1>5, <1>8, <2>4, <2>5 DEF Freeze, Batch
  <2>8. ledger' = Absent => AckedNext(ref')
    BY <1>3, <1>8 DEF Freeze
  <2> QED
    BY <1>3, <1>4, <1>8, <2>6, <2>7, <2>8 DEF Freeze, disk
<1>9. CASE LogLedger
  <2>1. Batch \in FrozenBatches
    BY <1>9, BatchAtHand DEF LogLedger
  <2>2. \A i \in DOMAIN Rows(Batch.ledger) : Rows(Batch.ledger)[i] \in acked'
    BY <1>9 DEF LogLedger, Log!AppendOnce, Log!Write
  <2>3. AckedNext(Batch.ledger)
    <3>1. ASSUME Batch.ledger # Absent, NEW n \in 1 .. Len(Batch.ledger)
          PROVE  EventRow(Batch.ledger, n) \in acked'
      BY <2>2, <3>1 DEF Rows, Cursor
    <3> QED
      BY <3>1 DEF AckedNext
  <2> QED
    BY <1>2, <1>3, <1>4, <1>9, <2>3 DEF LogLedger, LogStep, memory, Batch
<1>10. CASE WriteSidecar
  BY <1>2, <1>3, <1>4, <1>5, <1>10 DEF WriteSidecar, memory, Batch
<1>11. CASE LogPosterior
  BY <1>2, <1>3, <1>4, <1>5, <1>11 DEF LogPosterior, LogStep, memory, Batch
<1>12. CASE CommitSnapshot
  <2>1. /\ 1 \in DOMAIN pending
        /\ \A i \in DOMAIN Tail(pending) : i + 1 \in DOMAIN pending /\ Tail(pending)[i] = pending[i + 1]
    BY <1>5, <1>12, BatchAtHand DEF CommitSnapshot
  <2>2. AckedNext(Batch.ref)
    BY <1>2, <1>3, <1>12, <2>1 DEF CommitSnapshot, Batch, Backed
  <2>3. checkpoint'.ref = Batch.ref /\ pending' = Tail(pending)
    BY <1>12 DEF CommitSnapshot
  <2>4. \A i \in DOMAIN pending' : Backed(pending'[i])
    BY <1>2, <2>1, <2>3
  <2> QED
    BY <1>3, <1>4, <1>12, <2>2, <2>3, <2>4 DEF CommitSnapshot, memory
<1>13. ASSUME Restart, UNCHANGED <<sidecar, checkpoint>> PROVE LogGoesFirst'
  <2>1. checkpoint # Absent /\ ref' = checkpoint.ref /\ pending' = <<>> /\ stage' = "log"
    BY <1>13 DEF Restart
  <2> QED
    BY <1>3, <1>4, <1>13, <2>1
<1>14. CASE UNCHANGED vars
  BY <1>2, <1>3, <1>4, <1>14 DEF vars, memory, disk, Batch
<1> QED
  BY <1>6, <1>7, <1>8, <1>9, <1>10, <1>11, <1>12, <1>13, <1>14 DEF Next, Resume, DieLogging, disk

-----------------------------------------------------------------------------

\* A run starts with an empty ledger, an empty log and no decision.
LEMMA InitIInv == Init => IInv
<1> SUFFICES ASSUME Init PROVE IInv
  OBVIOUS
<1>1. <<>> \in Ledgers /\ <<>> # Absent
  <2>1. <<>> \in Ledgers /\ Len(<<>>) = 0
    BY LatentLedgerAssumption DEF Ledgers
  <2> QED
    BY <2>1, AbsentAssumption
<1>2. TypeOK
  <2>1. pending \in Seq(FrozenBatches) /\ Len(pending) <= MaxPending
    BY LatentLedgerAssumption DEF Init
  <2>2. session \in 1 .. MaxSessions
    BY LatentLedgerAssumption DEF Init
  <2>3. {ledger, ref, sidecar} \subseteq Ledgers \union {Absent}
    BY <1>1 DEF Init
  <2> QED
    BY <2>1, <2>2, <2>3 DEF Init, TypeOK
<1>3. Log!IInv
  <2>1. LogProofs!Init
    BY DEF Init, Log!Init, LogProofs!Init
  <2> QED
    BY <2>1, LogIsAnInstance, LogProofs!InitIInv, SameInvariant
<1>4. NothingIsForgotten
  BY <1>1 DEF Init, NothingIsForgotten, DecisionsOf, ReplaysIn
<1>5. LogGoesFirst
  BY <1>1 DEF Init, LogGoesFirst, Acknowledged
<1> QED
  BY <1>2, <1>3, <1>4, <1>5 DEF IInv

\* The invariant the properties follow from.
THEOREM Invariance == Spec => []IInv
<1>1. IInv /\ [Next]_vars => IInv'
  BY TypeStep, LogIsKept, ForgottenStep, LogFirstStep DEF IInv
<1> QED
  BY <1>1, InitIInv, PTL DEF Spec

\* The ledger, the worker's batches, the sidecar and the checkpoint keep their types.
THEOREM TypeCorrect == Spec => []TypeOK
<1>1. IInv => TypeOK
  BY DEF IInv
<1> QED
  BY <1>1, Invariance, PTL

\* To the event log, a run of any number of sessions is a behaviour of EventStore: the
\* worker and its restarts use the log as its specification says.
THEOREM LogIsAnEventStore == Spec => Log!Spec
<1>1. Init => Log!Init
  BY DEF Init
<1>2. TypeOK /\ [Next]_vars => [Log!Next]_(Log!vars)
  BY LogRefines
<1> QED
  BY <1>1, <1>2, TypeCorrect, PTL DEF Spec, Log!Spec

\* Each event of the ledger in the sidecar, and of the one a checkpoint names, is in the
\* log, whatever writes the processes died in, and once unless the replay breaks its text.
THEOREM CachesAreInTheLog == Spec => []CachesAreLogged
<1>1. IInv => CachesAreLogged
  <2> SUFFICES ASSUME IInv,
                      NEW l \in {sidecar} \union (IF checkpoint = Absent THEN {} ELSE {checkpoint.ref}),
                      l # Absent, NEW n \in 1 .. Len(l)
               PROVE  LET copies == {i \in DOMAIN log : /\ log[i].kind = "event"
                                                        /\ log[i].event = EventRow(l, n)}
                      IN  IF EventRow(l, n) \in Multiline THEN copies # {}
                                                          ELSE Cardinality(copies) = 1
    BY DEF CachesAreLogged
  <2> DEFINE row == EventRow(l, n)
             copies == {i \in DOMAIN log : log[i].kind = "event" /\ log[i].event = row}
  <2>1. row \in acked
    BY DEF IInv, LogGoesFirst, Acknowledged
  <2>2. PICK i \in DOMAIN log : log[i].kind = "event" /\ log[i].event = row
    BY <2>1 DEF IInv, Log!IInv, Log!AckedEventsStay, Log!Logged
  <2>3. CASE row \in Multiline
    BY <2>2, <2>3
  <2>4. CASE row \notin Multiline
    <3>1. \A k \in copies : k = i
      BY <2>2, <2>4 DEF IInv, Log!IInv, Log!LoggedOnce
    <3>2. copies = {i}
      BY <2>2, <3>1
    <3>3. Cardinality(copies) = 1
      BY <3>2, FS_Singleton
    <3> QED
      BY <2>4, <3>3
  <2> QED
    BY <2>3, <2>4
<1> QED
  BY <1>1, Invariance, PTL

\* The posterior at hand and every ranking a candidate remembers follow from the ledger,
\* in this process and in a later one, unless a restart lost the ledger.
THEOREM DecisionsCanBeReplayed == Spec => []DecisionsReplay
<1>1. IInv => DecisionsReplay
  BY DEF IInv, NothingIsForgotten, ReplaysIn, DecisionsOf, DecisionsReplay, Replays
<1> QED
  BY <1>1, Invariance, PTL
=================================================================================
