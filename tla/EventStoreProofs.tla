----------------------------- MODULE EventStoreProofs -----------------------------
(***************************************************************************)
(* For any events, batches and ways a write can be torn: an event that      *)
(* append_once writes is logged once, what was acknowledged stays in the    *)
(* log, and the audit of a snapshot never goes back.                        *)
(***************************************************************************)
EXTENDS EventStore, FiniteSetTheorems, SequenceTheorems, WellFoundedInduction, TLAPS

---------------------------------------------------------------------------
(* Batches without what the log holds *)

\* A non-empty set of numbers has a least one.
LEMMA LeastNumber ==
  ASSUME NEW S \in SUBSET Nat, S # {}
  PROVE  \E n \in S : \A m \in S : n <= m
<1>1. PICK n \in S : \A m \in S : <<m, n>> \notin OpToRel(<, Nat)
  BY NatLessThanWellFounded, WFMin
<1>2. \A m \in S : ~(m < n)
  BY <1>1 DEF OpToRel
<1> QED
  BY <1>2

\* Counting a finite set of numbers in their order reaches every member, and each once.
LEMMA NthEnumerates ==
  ASSUME NEW m \in Nat, NEW S \in SUBSET (1..m)
  PROVE  /\ IsFiniteSet(S) /\ Cardinality(S) \in Nat
         /\ \A n \in 1..Cardinality(S) : Nth(S, n) \in S
         /\ \A k, n \in 1..Cardinality(S) : k < n => Nth(S, k) < Nth(S, n)
         /\ \A i \in S : \E n \in 1..Cardinality(S) : Nth(S, n) = i
<1> DEFINE upTo(i) == {k \in S : k <= i}
           rank    == [i \in S |-> Cardinality(upTo(i))]
           c       == Cardinality(S)
<1>0. \A i \in S : i \in Nat
  OBVIOUS
<1>1. IsFiniteSet(S) /\ c \in Nat /\ \A n \in 1..c : n \in Nat
  <2>1. IsFiniteSet(1..m)
    BY FS_Interval
  <2>2. IsFiniteSet(S)
    BY <2>1, FS_Subset
  <2> QED
    BY <2>2, FS_CardinalityType
<1>2. ASSUME NEW i \in S PROVE IsFiniteSet(upTo(i)) /\ rank[i] \in 1..c /\ i \in Nat
  <2>1. upTo(i) \in SUBSET S /\ i \in upTo(i) /\ i \in Nat
    OBVIOUS
  <2>2. IsFiniteSet(upTo(i)) /\ Cardinality(upTo(i)) \in Nat /\ Cardinality(upTo(i)) <= c
    BY <1>1, <2>1, FS_Subset, FS_CardinalityType
  <2>3. Cardinality(upTo(i)) # 0
    BY <2>1, <2>2, FS_EmptySet
  <2> QED
    BY <1>1, <2>1, <2>2, <2>3
<1>3. ASSUME NEW i \in S, NEW k \in S, i < k PROVE rank[i] < rank[k]
  <2>1. upTo(i) \in SUBSET upTo(k) /\ k \in upTo(k) /\ k \notin upTo(i)
    <3>1. i \in Nat /\ k \in Nat /\ ~(k <= i) /\ k <= k
      BY <1>0, <1>3
    <3>2. \A j \in S : j <= i => j <= k
      BY <1>0, <1>3, <3>1
    <3> QED
      BY <3>1, <3>2
  <2>2. Cardinality(upTo(i)) <= Cardinality(upTo(k)) /\ Cardinality(upTo(i)) # Cardinality(upTo(k))
    BY <1>2, <2>1, FS_Subset
  <2>3. rank[i] = Cardinality(upTo(i)) /\ rank[k] = Cardinality(upTo(k)) /\ rank[i] \in Nat /\ rank[k] \in Nat
    BY <1>1, <1>2
  <2> HIDE DEF rank, upTo
  <2> QED
    BY <2>2, <2>3
<1>4. rank \in Surjection(S, 1..c)
  <2>1. rank \in [S -> 1..c]
    BY <1>2
  <2>2. ASSUME NEW i \in S, NEW k \in S, rank[i] = rank[k] PROVE i = k
    <3>1. i \in Nat /\ k \in Nat /\ rank[i] \in Nat /\ rank[k] \in Nat
      BY <1>1, <1>2
    <3> HIDE DEF rank
    <3>2. ~(i < k) /\ ~(k < i)
      BY <1>3, <2>2, <3>1
    <3> QED
      BY <3>1, <3>2
  <2>3. rank \in Injection(S, 1..c)
    BY <2>1, <2>2 DEF Injection, IsInjective
  <2>4. IsFiniteSet(1..c) /\ Cardinality(1..c) = c
    BY <1>1, FS_Interval
  <2> QED
    BY <2>3, <2>4, FS_Injection
<1>5. ASSUME NEW n \in 1..c PROVE Nth(S, n) \in S /\ rank[Nth(S, n)] = n
  <2>1. \E i \in S : Cardinality(upTo(i)) = n
    BY <1>4, <1>5 DEF Surjection
  <2> QED
    BY <2>1 DEF Nth
<1>6. ASSUME NEW k \in 1..c, NEW n \in 1..c, k < n PROVE Nth(S, k) < Nth(S, n)
  <2>1. rank[Nth(S, k)] < rank[Nth(S, n)] /\ Nth(S, k) \in S /\ Nth(S, n) \in S
    BY <1>5, <1>6
  <2> HIDE DEF rank
  <2>2. Nth(S, k) \in Nat /\ Nth(S, n) \in Nat /\ rank[Nth(S, k)] \in Nat /\ rank[Nth(S, n)] \in Nat
    BY <1>0, <1>1, <1>2, <2>1
  <2> QED
    BY <1>3, <2>1, <2>2
<1>7. ASSUME NEW i \in S PROVE \E n \in 1..c : Nth(S, n) = i
  <2>1. rank[i] \in 1..c
    BY <1>2
  <2>2. Nth(S, rank[i]) \in S /\ rank[Nth(S, rank[i])] = rank[i]
    BY <1>5, <2>1
  <2>3. i \in Nat /\ Nth(S, rank[i]) \in Nat /\ rank[i] \in Nat
    BY <1>0, <1>1, <2>1, <2>2
  <2> HIDE DEF rank
  <2>4. ~(i < Nth(S, rank[i])) /\ ~(Nth(S, rank[i]) < i)
    BY <1>3, <2>2, <2>3
  <2>5. Nth(S, rank[i]) = i
    BY <2>3, <2>4
  <2> QED
    BY <2>1, <2>5
<1> QED
  BY <1>1, <1>5, <1>6, <1>7

\* The events kept of a batch are new and different, and with the log they hold the batch.
LEMMA UnseenIsNew ==
  ASSUME NEW b \in Seq(Events)
  PROVE  /\ Unseen(b) \in Seq(Events)
         /\ \A i \in DOMAIN Unseen(b) : Unseen(b)[i] \notin Replay
         /\ \A i, k \in DOMAIN Unseen(b) : Unseen(b)[i] = Unseen(b)[k] => i = k
         /\ \A i \in DOMAIN b : b[i] \in Replay \/ \E k \in DOMAIN Unseen(b) : Unseen(b)[k] = b[i]
<1> DEFINE kept == {i \in DOMAIN b : b[i] \notin Replay /\ \A k \in 1..(i - 1) : b[k] # b[i]}
           c    == Cardinality(kept)
<1>1. DOMAIN b = 1..Len(b) /\ Len(b) \in Nat /\ \A i \in 1..Len(b) : b[i] \in Events
  OBVIOUS
<1>2. kept \in SUBSET (1..Len(b))
  BY <1>1
<1>3. Unseen(b) = [n \in 1..c |-> b[Nth(kept, n)]]
  BY DEF Unseen, At
<1>4. /\ c \in Nat
      /\ \A n \in 1..c : Nth(kept, n) \in kept
      /\ \A k, n \in 1..c : k < n => Nth(kept, k) < Nth(kept, n)
      /\ \A i \in kept : \E n \in 1..c : Nth(kept, n) = i
  BY <1>1, <1>2, NthEnumerates
<1>5. ASSUME NEW i \in kept, NEW k \in kept, b[i] = b[k] PROVE i = k
  <2>1. i \in Nat /\ k \in Nat /\ i \in 1..Len(b) /\ k \in 1..Len(b)
    BY <1>1
  <2>2. ~(i < k) /\ ~(k < i)
    BY <1>5, <2>1
  <2> QED
    BY <2>1, <2>2
<1>6. ASSUME NEW i \in DOMAIN b, b[i] \notin Replay PROVE \E k \in kept : b[k] = b[i]
  <2> DEFINE same == {k \in DOMAIN b : b[k] = b[i]}
  <2>1. PICK k \in same : \A j \in same : k <= j
    <3>1. same \in SUBSET Nat /\ i \in same
      BY <1>1
    <3> HIDE DEF same
    <3> QED
      BY <3>1, LeastNumber
  <2>2. \A j \in 1..(k - 1) : j \notin same /\ j \in DOMAIN b
    BY <1>1, <2>1
  <2> QED
    BY <1>6, <2>1, <2>2
<1> HIDE DEF kept
<1>7. ASSUME NEW i \in 1..c, NEW k \in 1..c, Nth(kept, i) = Nth(kept, k) PROVE i = k
  <2>1. Nth(kept, i) \in Nat /\ i \in Nat /\ k \in Nat
    <3>1. Nth(kept, i) \in 1..Len(b)
      BY <1>2, <1>4
    <3> QED
      BY <1>1, <1>4, <3>1
  <2> QED
    BY <1>4, <1>7, <2>1
<1>8. Unseen(b) \in Seq(Events)
  <2>1. \A n \in 1..c : b[Nth(kept, n)] \in Events
    BY <1>1, <1>2, <1>4
  <2>2. [n \in 1..c |-> b[Nth(kept, n)]] \in Seq(Events)
    BY <1>4, <2>1
  <2> QED
    BY <1>3, <2>2
<1>9. DOMAIN Unseen(b) = 1..c /\ \A n \in 1..c : Unseen(b)[n] = b[Nth(kept, n)]
  BY <1>3
<1>10. \A i \in DOMAIN Unseen(b) : Unseen(b)[i] \notin Replay
  BY <1>4, <1>9 DEF kept
<1>11. \A i, k \in DOMAIN Unseen(b) : Unseen(b)[i] = Unseen(b)[k] => i = k
  BY <1>4, <1>5, <1>7, <1>9
<1>12. \A i \in DOMAIN b : b[i] \in Replay \/ \E k \in DOMAIN Unseen(b) : Unseen(b)[k] = b[i]
  BY <1>4, <1>6, <1>9
<1> QED
  BY <1>8, <1>10, <1>11, <1>12

---------------------------------------------------------------------------
(* How a write changes the log *)

Chunks == [kind : TornKinds \cup {"marker"}, event : Events \cup {NoEvent}, ended : BOOLEAN]

\* What a log is to the log before a write of some events: the chunks before it keep their
\* kind and event, those that were whole keep everything, and the events that follow are of
\* the write, each once and in its order, after b chunks.
Grown(new, events, b) ==
    /\ new \in Seq(Chunks) /\ Len(log) <= Len(new) /\ b \in Nat
    /\ \A i \in 1..Len(log) : /\ new[i].kind = log[i].kind /\ new[i].event = log[i].event
                              /\ log[i].ended => new[i] = log[i]
    /\ \A i \in 1..Len(new) : Len(log) < i /\ new[i].kind = "event" =>
                               /\ b < i /\ i - b \in 1..Len(events)
                               /\ new[i].event = events[i - b]

\* The log an append leaves, whatever tail it found.
LEMMA AppendGrows ==
  ASSUME TypeOK, OnlyTheTailIsTorn, NEW events \in Seq(Events), events # <<>>
  PROVE  \E b \in Nat :
           /\ b = Len(log) \/ b = Len(log) + 1
           /\ Grown(Appended(events), events, b)
           /\ Len(Appended(events)) = b + Len(events)
           /\ \A i \in 1..Len(Appended(events)) : /\ Appended(events)[i].ended
                                                  /\ Len(log) < i => Appended(events)[i].kind \in {"event", "marker"}
           /\ \A j \in 1..Len(events) : Appended(events)[b + j] = EventLine(events[j])
<1> DEFINE n     == Len(log)
           tail  == n > 0 /\ ~log[n].ended
           mark  == Chunk("marker", NoEvent, TRUE)
           base  == IF tail THEN Append([log EXCEPT ![n].ended = TRUE], mark) ELSE log
           lines == [i \in DOMAIN events |-> EventLine(events[i])]
<1>1. log \in Seq(Chunks) /\ n \in Nat /\ \A i \in 1..n : log[i] \in Chunks /\ (i < n => log[i].ended)
  <2>1. log \in Seq(Chunks)
    BY DEF TypeOK, Chunks
  <2>2. n \in Nat /\ DOMAIN log = 1..n /\ \A i \in 1..n : log[i] \in Chunks
    BY <2>1
  <2> QED
    BY <2>1, <2>2 DEF OnlyTheTailIsTorn
<1>2. lines \in Seq(Chunks) /\ Len(lines) = Len(events) /\ Len(events) \in Nat
      /\ \A j \in 1..Len(events) : lines[j] = EventLine(events[j])
  <2>1. \A j \in 1..Len(events) : EventLine(events[j]) \in Chunks
    BY DEF EventLine, Chunk, Chunks, TornKinds
  <2> QED
    BY <2>1
<1>3. /\ base \in Seq(Chunks) /\ Len(base) \in {n, n + 1}
      /\ \A i \in 1..n : /\ base[i].kind = log[i].kind /\ base[i].event = log[i].event /\ base[i].ended
                         /\ log[i].ended => base[i] = log[i]
      /\ \A i \in 1..Len(base) : n < i => base[i] = mark
  <2>1. CASE tail
    <3>1. mark \in Chunks /\ n \in 1..n
      BY <1>1, <2>1 DEF Chunk, Chunks
    <3> DEFINE closed == [log EXCEPT ![n].ended = TRUE]
    <3>2. closed \in Seq(Chunks) /\ Len(closed) = n
      <4>1. [log[n] EXCEPT !.ended = TRUE] \in Chunks
        BY <1>1, <3>1 DEF Chunks
      <4>2. closed = [log EXCEPT ![n] = [log[n] EXCEPT !.ended = TRUE]]
        OBVIOUS
      <4> QED
        BY <1>1, <3>1, <4>1, <4>2, ExceptSeq
    <3>3. \A i \in 1..n : /\ closed[i].kind = log[i].kind /\ closed[i].event = log[i].event /\ closed[i].ended
                          /\ log[i].ended => closed[i] = log[i]
      BY <1>1, <2>1, <3>1 DEF Chunks
    <3>4. base = Append(closed, mark)
      BY <2>1
    <3> HIDE DEF closed, base, mark, n
    <3>5. /\ base \in Seq(Chunks) /\ Len(base) = n + 1 /\ base[n + 1] = mark
          /\ \A i \in 1..n : base[i] = closed[i]
      BY <1>1, <3>1, <3>2, <3>4
    <3> QED
      BY <1>1, <3>3, <3>5
  <2>2. CASE ~tail
    <3>1. base = log /\ (n > 0 => log[n].ended)
      BY <2>2
    <3>2. \A i \in 1..n : log[i].ended
      BY <1>1, <3>1
    <3>3. Len(base) = n /\ \A i \in 1..n : base[i] = log[i]
      BY <3>1
    <3>4. \A i \in 1..n : ~(n < i)
      BY <1>1
    <3> QED
      BY <1>1, <3>1, <3>2, <3>3, <3>4
  <2> QED
    BY <2>1, <2>2
<1>4. Appended(events) = base \o lines
  BY DEF Appended
<1>5. mark.ended /\ mark.kind = "marker"
  BY DEF Chunk
<1>6. \A j \in 1..Len(events) : EventLine(events[j]).ended /\ EventLine(events[j]).kind = "event"
                                /\ EventLine(events[j]).event = events[j]
  BY DEF EventLine, Chunk
<1> DEFINE full == Appended(events)
<1>n. n = Len(log)
  OBVIOUS
<1> HIDE DEF base, lines, mark, tail, n
<1>7. /\ full \in Seq(Chunks) /\ Len(full) = Len(base) + Len(events)
      /\ \A i \in 1..Len(base) : full[i] = base[i]
      /\ \A j \in 1..Len(events) : full[Len(base) + j] = EventLine(events[j])
  <2>1. /\ full \in Seq(Chunks) /\ Len(full) = Len(base) + Len(lines)
        /\ \A i \in 1..(Len(base) + Len(lines)) :
              full[i] = IF i <= Len(base) THEN base[i] ELSE lines[i - Len(base)]
    <3>1. base \in Seq(Chunks) /\ lines \in Seq(Chunks) /\ full = base \o lines
      BY <1>2, <1>3, <1>4
    <3> HIDE DEF full
    <3> QED
      BY <3>1, ConcatProperties
  <2>2. Len(base) \in Nat
    BY <1>3
  <2> HIDE DEF full
  <2>3. ASSUME NEW i \in 1..Len(base) PROVE full[i] = base[i]
    BY <1>2, <2>1, <2>2
  <2>4. ASSUME NEW j \in 1..Len(events) PROVE full[Len(base) + j] = EventLine(events[j])
    <3>1. Len(base) + j \in 1..(Len(base) + Len(lines)) /\ ~(Len(base) + j <= Len(base))
          /\ (Len(base) + j) - Len(base) = j
      BY <1>2, <2>2
    <3> QED
      BY <1>2, <2>1, <3>1
  <2> QED
    BY <1>2, <2>1, <2>3, <2>4
<1> HIDE DEF full
<1>8. \A i \in 1..Len(full) : \/ i \in 1..Len(base)
                              \/ Len(base) < i /\ i - Len(base) \in 1..Len(events)
                                  /\ full[i] = EventLine(events[i - Len(base)])
  <2> TAKE i \in 1..Len(full)
  <2>1. Len(base) \in Nat /\ Len(events) \in Nat /\ i \in Nat /\ 1 <= i /\ Len(full) = Len(base) + Len(events)
    BY <1>1, <1>2, <1>3, <1>7
  <2>2. CASE Len(base) < i
    <3>1. i - Len(base) \in 1..Len(events) /\ Len(base) + (i - Len(base)) = i
      BY <2>1, <2>2
    <3>2. full[Len(base) + (i - Len(base))] = EventLine(events[i - Len(base)])
      BY <1>7, <3>1
    <3> QED
      BY <2>2, <3>1, <3>2
  <2>3. CASE ~(Len(base) < i)
    <3>1. i \in 1..Len(base)
      BY <2>1, <2>3
    <3> QED
      BY <3>1, Zenon
  <2> QED
    BY <2>2, <2>3
<1>9. \A i \in 1..Len(full) : full[i].ended /\ (n < i => full[i].kind \in {"event", "marker"})
  <2> TAKE i \in 1..Len(full)
  <2>1. CASE i \in 1..Len(base) /\ i \in 1..n
    <3>1. full[i] = base[i] /\ base[i].ended
      BY <1>3, <1>7, <2>1
    <3>2. ~(n < i)
      BY <1>1, <2>1
    <3> QED
      BY <3>1, <3>2
  <2>2. CASE i \in 1..Len(base) /\ ~(i \in 1..n)
    <3>1. n < i
      BY <1>1, <1>3, <2>2
    <3> QED
      BY <1>3, <1>5, <1>7, <2>2, <3>1
  <2>3. CASE full[i] = EventLine(events[i - Len(base)]) /\ i - Len(base) \in 1..Len(events)
    BY <1>6, <2>3
  <2> QED
    BY <1>8, <2>1, <2>2, <2>3
<1>10. Grown(full, events, Len(base))
  <2>1. n <= Len(full) /\ Len(base) \in Nat
    BY <1>1, <1>2, <1>3, <1>7
  <2>2. \A i \in 1..n : /\ full[i].kind = log[i].kind /\ full[i].event = log[i].event
                        /\ log[i].ended => full[i] = log[i]
    <3> TAKE i \in 1..n
    <3>1. i \in 1..Len(base)
      BY <1>1, <1>3
    <3>2. full[i] = base[i]
      BY <1>7, <3>1
    <3>3. /\ base[i].kind = log[i].kind /\ base[i].event = log[i].event
          /\ log[i].ended => base[i] = log[i]
      BY <1>3, Zenon
    <3> QED
      BY <3>2, <3>3, Zenon
  <2>3. \A i \in 1..Len(full) : n < i /\ full[i].kind = "event" =>
          /\ Len(base) < i /\ i - Len(base) \in 1..Len(events) /\ full[i].event = events[i - Len(base)]
    <3> SUFFICES ASSUME NEW i \in 1..Len(full), n < i, full[i].kind = "event"
                 PROVE  /\ Len(base) < i /\ i - Len(base) \in 1..Len(events)
                        /\ full[i].event = events[i - Len(base)]
      OBVIOUS
    <3>1. ~(i \in 1..Len(base))
      <4>1. ASSUME i \in 1..Len(base) PROVE FALSE
        <5>1. full[i] = base[i] /\ base[i] = mark
          BY <1>3, <1>7, <4>1
        <5> QED
          BY <1>5, <5>1
      <4> QED
        BY <4>1
    <3>2. Len(base) < i /\ i - Len(base) \in 1..Len(events) /\ full[i] = EventLine(events[i - Len(base)])
      BY <1>8, <3>1
    <3> QED
      BY <1>6, <3>2
  <2>4. full \in Seq(Chunks)
    BY <1>7
  <2> QED
    BY <1>n, <2>1, <2>2, <2>3, <2>4, Zenon DEF Grown
<1>11. Len(base) \in Nat /\ (Len(base) = n \/ Len(base) = n + 1)
  BY <1>1, <1>3
<1> QED
  BY <1>n, <1>7, <1>9, <1>10, <1>11 DEF full

\* A write that returns grows the log by its events, ends in a newline, and leaves a log that
\* can be decoded if it was one.
LEMMA WriteGrows ==
  ASSUME TypeOK, OnlyTheTailIsTorn, NEW events \in Seq(Events), NEW batch, Write(events, batch)
  PROVE  /\ \E b \in Nat : /\ Grown(log', events, b)
                           /\ events # <<>> => \A j \in 1..Len(events) :
                                 b + j \in 1..Len(log') /\ log'[b + j] = EventLine(events[j])
         /\ Len(log') <= MaxLog /\ OnlyTheTailIsTorn' /\ (Readable => Readable')
<1>1. log' = Appended(events) /\ Len(log') <= MaxLog
  BY DEF Write, Fits
<1>2. CASE events = <<>>
  <2>1. log' = log
    BY <1>1, <1>2 DEF Appended
  <2>2. Grown(log', events, Len(log))
    BY <2>1 DEF Grown, TypeOK, Chunks
  <2>3. Len(log) \in Nat
    BY DEF TypeOK
  <2> QED
    BY <1>1, <1>2, <2>1, <2>2, <2>3 DEF OnlyTheTailIsTorn, Readable
<1>3. CASE events # <<>>
  <2>1. PICK b \in Nat :
           /\ Grown(log', events, b)
           /\ Len(log') = b + Len(events)
           /\ \A i \in 1..Len(log') : /\ log'[i].ended
                                      /\ Len(log) < i => log'[i].kind \in {"event", "marker"}
           /\ \A j \in 1..Len(events) : log'[b + j] = EventLine(events[j])
    BY <1>1, <1>3, AppendGrows
  <2>2. log' \in Seq(Chunks) /\ Len(log) \in Nat /\ Len(events) \in Nat /\ b \in Nat
        /\ DOMAIN log' = 1..Len(log') /\ DOMAIN log = 1..Len(log)
    BY <2>1 DEF Grown, TypeOK
  <2>3. \A j \in 1..Len(events) : b + j \in 1..Len(log')
    <3>1. Len(log') = b + Len(events)
      BY <2>1
    <3> QED
      BY <2>2, <3>1
  <2>4. \A i \in 1..Len(log') : i \in 1..Len(log) \/ Len(log) < i
    <3>1. Len(log') \in Nat
      BY <2>2
    <3> QED
      BY <2>2, <3>1
  <2>5. OnlyTheTailIsTorn'
    <3> SUFFICES ASSUME NEW i \in 1..Len(log')
                 PROVE  log'[i].ended /\ (log'[i].kind = "event" => log'[i].event \in Events)
      BY <2>2 DEF OnlyTheTailIsTorn
    <3>1. CASE i \in 1..Len(log)
      BY <2>1, <2>2, <3>1 DEF Grown, OnlyTheTailIsTorn
    <3>2. CASE Len(log) < i /\ log'[i].kind = "event"
      BY <2>1, <3>2, SMTT(40) DEF Grown
    <3> QED
      BY <2>1, <2>4, <3>1, <3>2
  <2>6. Readable => Readable'
    <3> SUFFICES ASSUME Readable, NEW i \in 1..Len(log') PROVE log'[i].kind # "half_character"
      BY <2>2 DEF Readable
    <3>1. CASE i \in 1..Len(log)
      BY <2>1, <2>2, <3>1 DEF Grown, Readable
    <3>2. CASE Len(log) < i
      BY <2>1, <3>2
    <3> QED
      BY <2>4, <3>1, <3>2
  <2> QED
    BY <1>1, <2>1, <2>2, <2>3, <2>5, <2>6
<1> QED
  BY <1>2, <1>3

\* So does a write that the process dies in, up to the torn end; the log can be decoded as
\* before, unless that is inside a character.
LEMMA TearGrows ==
  ASSUME TypeOK, OnlyTheTailIsTorn, NEW events \in Seq(Events), events # <<>>,
         NEW kind \in TornKinds, Tear(events, kind)
  PROVE  /\ \E b \in Nat : Grown(log', events, b)
         /\ Len(log') <= MaxLog /\ OnlyTheTailIsTorn'
         /\ (kind # "half_character" /\ Readable => Readable')
<1> DEFINE full == Appended(events)
<1>1. PICK b \in Nat :
         /\ Grown(full, events, b)
         /\ Len(full) = b + Len(events)
         /\ \A i \in 1..Len(full) : /\ full[i].ended
                                    /\ Len(log) < i => full[i].kind \in {"event", "marker"}
         /\ \A j \in 1..Len(events) : full[b + j] = EventLine(events[j])
  BY AppendGrows
<1>2. Len(log) \in Nat /\ Len(full) \in Nat
  BY <1>1 DEF Grown, TypeOK
<1>3. PICK n \in Nat :
         /\ Len(log) <= n /\ n <= Len(full)
         /\ \/ log' = SubSeq(full, 1, n)
            \/ /\ n < Len(full)
               /\ log' = Append(SubSeq(full, 1, n),
                                IF kind = "event" THEN [full[n + 1] EXCEPT !.ended = FALSE]
                                                  ELSE Chunk(kind, NoEvent, FALSE))
  <2>1. \A n \in Len(log)..Len(full) : n \in Nat /\ Len(log) <= n /\ n <= Len(full)
    BY <1>2
  <2> QED
    BY <2>1, Zenon DEF Tear
<1>13. Len(full) <= MaxLog
  BY DEF Tear, Fits
<1> HIDE DEF full
<1>4. /\ full \in Seq(Chunks) /\ Len(log) \in Nat /\ Len(events) \in Nat /\ b \in Nat
      /\ Len(full) \in Nat /\ n \in Nat /\ n <= Len(full) /\ DOMAIN log = 1..Len(log)
      /\ MaxLog \in Nat
  BY <1>1, <1>2, <1>3, EventStoreAssumption DEF Grown, TypeOK
<1> DEFINE torn == IF kind = "event" THEN [full[n + 1] EXCEPT !.ended = FALSE]
                                     ELSE Chunk(kind, NoEvent, FALSE)
           m    == IF log' = SubSeq(full, 1, n) THEN n ELSE n + 1
<1>5. /\ SubSeq(full, 1, n) \in Seq(Chunks) /\ Len(SubSeq(full, 1, n)) = n
      /\ \A i \in 1..n : SubSeq(full, 1, n)[i] = full[i]
  <2>1. \A i \in 1..n : full[i] \in Chunks
    <3>1. \A i \in 1..n : i \in 1..Len(full)
      BY <1>4
    <3> QED
      BY <1>4, <3>1
  <2>2. /\ SubSeq(full, 1, n) \in Seq(Chunks) /\ Len(SubSeq(full, 1, n)) = IF 1 <= n THEN n - 1 + 1 ELSE 0
        /\ \A i \in 1..(n - 1 + 1) : SubSeq(full, 1, n)[i] = full[1 + i - 1]
    BY <1>4, <2>1, SubSeqProperties
  <2>3. (n - 1 + 1) = n /\ (~(1 <= n) => n = 0) /\ \A i \in 1..n : 1 + i - 1 = i
    BY <1>4
  <2> QED
    BY <2>2, <2>3
<1>6. n < Len(full) => /\ torn \in Chunks
                       /\ IF kind = "event"
                          THEN torn.kind = full[n + 1].kind /\ torn.event = full[n + 1].event
                          ELSE torn.kind = kind
  <2> SUFFICES ASSUME n < Len(full)
               PROVE  /\ torn \in Chunks
                      /\ IF kind = "event"
                         THEN torn.kind = full[n + 1].kind /\ torn.event = full[n + 1].event
                         ELSE torn.kind = kind
    OBVIOUS
  <2>1. full[n + 1] \in Chunks
    <3>1. n + 1 \in 1..Len(full)
      BY <1>4
    <3> QED
      BY <1>4, <3>1
  <2> QED
    BY <2>1 DEF Chunk, Chunks, TornKinds
<1>7. /\ log' \in Seq(Chunks) /\ Len(log') = m /\ m \in n..Len(full) /\ m \in {n, n + 1} /\ DOMAIN log' = 1..m
      /\ \A i \in 1..n : log'[i] = full[i]
      /\ m = n + 1 => IF kind = "event"
                      THEN log'[n + 1].kind = full[n + 1].kind /\ log'[n + 1].event = full[n + 1].event
                      ELSE log'[n + 1].kind = kind
  <2>1. CASE log' = SubSeq(full, 1, n)
    <3>1. m = n /\ n \in n..Len(full) /\ n # n + 1
      BY <1>4, <2>1
    <3>2. /\ log' \in Seq(Chunks) /\ Len(log') = n /\ \A i \in 1..n : log'[i] = full[i]
      BY <1>5, <2>1
    <3>3. DOMAIN log' = 1..n
      BY <3>2, LenProperties
    <3> QED
      BY <3>1, <3>2, <3>3
  <2>2. CASE log' # SubSeq(full, 1, n)
    <3>1. /\ n < Len(full) /\ torn \in Chunks /\ log' = Append(SubSeq(full, 1, n), torn)
          /\ IF kind = "event"
             THEN torn.kind = full[n + 1].kind /\ torn.event = full[n + 1].event
             ELSE torn.kind = kind
      BY <1>3, <1>6, <2>2
    <3> DEFINE part == SubSeq(full, 1, n)
    <3>2. m = n + 1 /\ m \in n..Len(full)
      <4>1. m = n + 1
        BY <2>2
      <4>2. n + 1 \in n..Len(full)
        BY <1>4, <3>1
      <4> QED
        BY <4>1, <4>2
    <3>3. /\ part \in Seq(Chunks) /\ Len(part) = n /\ \A i \in 1..n : part[i] = full[i]
      BY <1>5
    <3> HIDE DEF torn, part
    <3>4. /\ Append(part, torn) \in Seq(Chunks) /\ Len(Append(part, torn)) = n + 1
          /\ Append(part, torn)[n + 1] = torn /\ \A i \in 1..n : Append(part, torn)[i] = part[i]
      BY <1>4, <3>1, <3>3, AppendProperties
    <3>5. log' = Append(part, torn)
      BY <3>1 DEF part
    <3>6. DOMAIN log' = 1..(n + 1)
      BY <3>4, <3>5, LenProperties
    <3> HIDE DEF m
    <3> QED
      BY <3>1, <3>2, <3>3, <3>4, <3>5, <3>6
  <2> QED
    BY <2>1, <2>2
<1> HIDE DEF torn, m
<1>8. \A i \in 1..m : /\ i \in 1..Len(full)
                      /\ i \in 1..Len(log) => i \in 1..n
                      /\ i \in 1..Len(log) \/ Len(log) < i
                      /\ i \in 1..n \/ (i = n + 1 /\ m = n + 1 /\ Len(log) < i)
  <2>1. m \in n..Len(full) /\ m \in {n, n + 1} /\ m \in Nat /\ Len(log) <= n
    BY <1>3, <1>4, <1>7
  <2>2. CASE m = n
    BY <1>4, <2>1, <2>2
  <2>3. CASE m = n + 1
    BY <1>4, <2>1, <2>3
  <2> QED
    BY <2>1, <2>2, <2>3
<1>9. Grown(log', events, b)
  <2>1. \A i \in 1..Len(log) : /\ log'[i].kind = log[i].kind /\ log'[i].event = log[i].event
                               /\ log[i].ended => log'[i] = log[i]
    <3> TAKE i \in 1..Len(log)
    <3>1. log'[i] = full[i]
      <4>1. i \in 1..n
        BY <1>3, <1>4
      <4> QED
        BY <1>7, <4>1
    <3> QED
      BY <1>1, <3>1 DEF Grown
  <2>2. ASSUME NEW i \in 1..m, Len(log) < i, log'[i].kind = "event"
        PROVE  b < i /\ i - b \in 1..Len(events) /\ log'[i].event = events[i - b]
    <3>1. full[i].kind = "event" /\ log'[i].event = full[i].event
      <4>1. CASE i \in 1..n
        BY <1>7, <2>2, <4>1
      <4>2. CASE i = n + 1 /\ m = n + 1
        <5>1. kind # "event" => kind # "event" /\ log'[i].kind = kind
          BY <1>7, <4>2
        <5> QED
          BY <1>7, <2>2, <4>2, <5>1
      <4> QED
        BY <1>8, <4>1, <4>2
    <3> QED
      BY <1>1, <1>8, <2>2, <3>1 DEF Grown
  <2>3. log' \in Seq(Chunks) /\ Len(log') = m /\ Len(log) <= m
    BY <1>3, <1>4, <1>7
  <2> QED
    BY <1>4, <2>1, <2>2, <2>3 DEF Grown
<1>10. OnlyTheTailIsTorn'
  <2> SUFFICES ASSUME NEW i \in 1..m
               PROVE  (i < m => log'[i].ended) /\ (log'[i].kind = "event" => log'[i].event \in Events)
    BY <1>7 DEF OnlyTheTailIsTorn
  <2>1. i < m => log'[i].ended
    <3>1. i < m => i \in 1..n
      BY <1>4, <1>7, <1>8
    <3>2. i \in 1..n => log'[i] = full[i] /\ full[i].ended
      BY <1>1, <1>7, <1>8
    <3> QED
      BY <3>1, <3>2
  <2>2. ASSUME log'[i].kind = "event" PROVE log'[i].event \in Events
    <3>1. CASE i \in 1..Len(log)
      BY <1>4, <1>9, <2>2, <3>1 DEF Grown, OnlyTheTailIsTorn
    <3>2. CASE Len(log) < i
      BY <1>7, <1>9, <2>2, <3>2 DEF Grown
    <3> QED
      BY <1>8, <3>1, <3>2
  <2> QED
    BY <2>1, <2>2
<1>11. kind # "half_character" /\ Readable => Readable'
  <2> SUFFICES ASSUME kind # "half_character", Readable, NEW i \in 1..m
               PROVE  log'[i].kind # "half_character"
    BY <1>7 DEF Readable
  <2>1. CASE i \in 1..Len(log)
    BY <1>4, <1>9, <2>1 DEF Grown, Readable
  <2>2. CASE Len(log) < i /\ i \in 1..n
    BY <1>1, <1>7, <1>8, <2>2
  <2>3. CASE i = n + 1 /\ m = n + 1
    <3>1. full[i].kind \in {"event", "marker"}
      BY <1>1, <1>8, <2>3
    <3> QED
      BY <1>7, <2>3, <3>1
  <2> QED
    BY <1>8, <2>1, <2>2, <2>3
<1>12. Len(log') <= MaxLog
  BY <1>4, <1>7, <1>13
<1> QED
  BY <1>4, <1>9, <1>10, <1>11, <1>12

---------------------------------------------------------------------------
(* The invariant *)

\* What is replayed is logged.
LEMMA ReplayIsLogged == Replay \subseteq Logged
  BY DEF Replay, Logged

\* What the log holds it holds for ever.
LEMMA LoggedGrows ==
  ASSUME TypeOK, NEW events, NEW b, Grown(log', events, b)
  PROVE  Logged \subseteq Logged'
<1> SUFFICES ASSUME NEW k \in DOMAIN log, log[k].kind = "event"
             PROVE  k \in DOMAIN log' /\ log'[k].kind = "event" /\ log'[k].event = log[k].event
  BY DEF Logged
<1>1. DOMAIN log = 1..Len(log) /\ DOMAIN log' = 1..Len(log') /\ Len(log) \in Nat /\ Len(log') \in Nat
  BY DEF Grown, TypeOK
<1>2. k \in 1..Len(log) /\ k \in DOMAIN log'
  BY <1>1 DEF Grown
<1> QED
  BY <1>2 DEF Grown

\* Events that are new to the log, and different, are logged once.
LEMMA OnceStep ==
  ASSUME TypeOK, LoggedOnce, NEW events \in Seq(Events), NEW b \in Nat, Grown(log', events, b),
         \A i \in DOMAIN events : events[i] \in Plain \/ events[i] \notin Replay,
         \A i, k \in DOMAIN events : events[i] = events[k] => i = k
  PROVE  LoggedOnce'
<1> SUFFICES ASSUME NEW i \in DOMAIN log', NEW k \in DOMAIN log',
                    log'[i].kind = "event", log'[k].kind = "event",
                    log'[i].event = log'[k].event, log'[i].event \notin Plain \cup Multiline
             PROVE  i = k
  BY DEF LoggedOnce
<1>1. /\ DOMAIN log = 1..Len(log) /\ DOMAIN log' = 1..Len(log') /\ DOMAIN events = 1..Len(events)
      /\ Len(log) \in Nat /\ i \in Nat /\ k \in Nat /\ i \in 1..Len(log') /\ k \in 1..Len(log')
  BY DEF Grown, TypeOK
<1>2. /\ \A j \in 1..Len(log) : log'[j].kind = log[j].kind /\ log'[j].event = log[j].event
      /\ \A j \in 1..Len(log') : Len(log) < j /\ log'[j].kind = "event" =>
           b < j /\ j - b \in 1..Len(events) /\ log'[j].event = events[j - b]
  BY DEF Grown
<1>3. ASSUME NEW j \in 1..Len(log'), NEW h \in 1..Len(log'), j \in 1..Len(log), Len(log) < h,
             log'[j].kind = "event", log'[h].kind = "event", log'[j].event = log'[h].event,
             log'[j].event \notin Plain \cup Multiline
      PROVE  FALSE
  <2>1. log[j].kind = "event" /\ log[j].event = log'[j].event
    BY <1>2, <1>3
  <2>2. log[j].event \in Replay
    BY <1>1, <1>3, <2>1 DEF Replay
  <2>3. h - b \in DOMAIN events /\ log'[h].event = events[h - b]
    BY <1>1, <1>2, <1>3
  <2> QED
    BY <1>3, <2>1, <2>2, <2>3
<1>4. i \in 1..Len(log) \/ Len(log) < i
  BY <1>1
<1>5. k \in 1..Len(log) \/ Len(log) < k
  BY <1>1
<1>6. CASE i \in 1..Len(log) /\ k \in 1..Len(log)
  <2>1. /\ log[i].kind = "event" /\ log[k].kind = "event" /\ log[i].event = log[k].event
        /\ log[i].event \notin Plain \cup Multiline
    BY <1>2, <1>6
  <2> QED
    BY <1>1, <1>6, <2>1 DEF LoggedOnce
<1>7. CASE Len(log) < i /\ Len(log) < k
  <2>1. /\ i - b \in DOMAIN events /\ log'[i].event = events[i - b]
        /\ k - b \in DOMAIN events /\ log'[k].event = events[k - b]
    BY <1>1, <1>2, <1>7
  <2>2. i - b = k - b
    BY <2>1
  <2> QED
    BY <1>1, <2>2
<1> QED
  BY <1>1, <1>3, <1>4, <1>5, <1>6, <1>7

\* The types after a write.
LEMMA TypeAfterWrite ==
  ASSUME TypeOK, NEW events, NEW b, Grown(log', events, b), Len(log') <= MaxLog,
         acked' \subseteq Events, watermark' \in 0..MaxLog
  PROVE  TypeOK'
  BY DEF TypeOK, Grown, Chunks

\* The invariant holds on an empty log.
LEMMA InitIInv == Init => IInv
<1> SUFFICES ASSUME Init PROVE IInv
  OBVIOUS
<1>1. log = <<>> /\ acked = {} /\ watermark = 0
  BY DEF Init
<1>2. TypeOK
  BY <1>1, EventStoreAssumption DEF TypeOK
<1> QED
  BY <1>1, <1>2 DEF IInv, OnlyTheTailIsTorn, LoggedOnce, AckedEventsStay

\* A batch of the model is a sequence of events.
LEMMA BatchIsASequence == ASSUME NEW b \in Batches PROVE b \in Seq(Events) /\ b # <<>>
<1>1. PICK n \in 1..MaxBatch : b \in [1..n -> Events]
  BY DEF Batches
<1>2. n \in Nat /\ 1 \in 1..n
  BY <1>1, EventStoreAssumption
<1>3. DOMAIN b = 1..n /\ b \in Seq(Events)
  BY <1>1, <1>2
<1>4. b # <<>>
  BY <1>2, <1>3
<1> QED
  BY <1>3, <1>4

\* append_once keeps the invariant, and what it was asked to log is in the log when it returns.
LEMMA AppendOnceStep ==
  ASSUME IInv, NEW b \in Seq(Events), AppendOnce(b) PROVE IInv'
<1> DEFINE u == Unseen(b)
<1>1. Readable /\ Write(u, b)
  BY DEF AppendOnce
<1>2. /\ u \in Seq(Events) /\ \A i \in DOMAIN u : u[i] \notin Replay
      /\ \A i, k \in DOMAIN u : u[i] = u[k] => i = k
      /\ \A i \in DOMAIN b : b[i] \in Replay \/ \E k \in DOMAIN u : u[k] = b[i]
  BY UnseenIsNew
<1> HIDE DEF u
<1>3. PICK m \in Nat : /\ Grown(log', u, m)
                       /\ u # <<>> => \A j \in 1..Len(u) :
                             m + j \in 1..Len(log') /\ log'[m + j] = EventLine(u[j])
  BY <1>1, <1>2, WriteGrows DEF IInv
<1>4. Len(log') <= MaxLog /\ OnlyTheTailIsTorn' /\ Readable'
  BY <1>1, <1>2, WriteGrows DEF IInv
<1>5. acked' = acked \cup {b[i] : i \in DOMAIN b} /\ watermark' = watermark
  BY <1>1 DEF Write
<1>6. TypeOK'
  <2>1. \A i \in DOMAIN b : b[i] \in Events
    OBVIOUS
  <2> QED
    BY <1>3, <1>4, <1>5, <2>1, TypeAfterWrite DEF IInv, TypeOK
<1>7. LoggedOnce'
  BY <1>2, <1>3, OnceStep DEF IInv
<1>8. Logged \subseteq Logged'
  BY <1>3, LoggedGrows DEF IInv
<1>9. \A k \in DOMAIN u : u[k] \in Logged'
  <2> SUFFICES ASSUME NEW k \in DOMAIN u PROVE u[k] \in Logged'
    OBVIOUS
  <2>1. k \in 1..Len(u) /\ u # <<>>
    BY <1>2
  <2>2. m + k \in DOMAIN log' /\ log'[m + k] = EventLine(u[k])
    BY <1>3, <2>1 DEF Grown
  <2>3. log'[m + k].kind = "event" /\ log'[m + k].event = u[k]
    BY <2>2 DEF EventLine, Chunk
  <2> QED
    BY <2>2, <2>3 DEF Logged
<1>10. acked' \subseteq Logged'
  <2>1. acked \subseteq Logged
    BY DEF IInv, AckedEventsStay
  <2>2. ASSUME NEW i \in DOMAIN b PROVE b[i] \in Logged'
    BY <1>2, <1>8, <1>9, ReplayIsLogged
  <2> QED
    BY <1>5, <1>8, <2>1, <2>2
<1> QED
  BY <1>4, <1>6, <1>7, <1>10 DEF IInv, AckedEventsStay

\* So does append, of an event that any number of calls may log.
LEMMA AppendEventStep ==
  ASSUME IInv, NEW e \in Plain, AppendEvent(e) PROVE IInv'
<1>1. e \in Events /\ <<e>> \in Seq(Events) /\ Len(<<e>>) = 1 /\ <<e>>[1] = e /\ <<e>> # <<>>
      /\ DOMAIN <<e>> = {1} /\ Write(<<e>>, <<e>>)
  BY EventStoreAssumption DEF AppendEvent
<1>2. PICK m \in Nat : /\ Grown(log', <<e>>, m)
                       /\ \A j \in 1..Len(<<e>>) :
                             m + j \in 1..Len(log') /\ log'[m + j] = EventLine(<<e>>[j])
  BY <1>1, WriteGrows DEF IInv
<1>3. Len(log') <= MaxLog /\ OnlyTheTailIsTorn' /\ (Readable => Readable')
  BY <1>1, WriteGrows DEF IInv
<1>4. acked' = acked \cup {e} /\ watermark' = watermark
  BY <1>1 DEF Write
<1>5. TypeOK'
  BY <1>1, <1>2, <1>3, <1>4, TypeAfterWrite DEF IInv, TypeOK
<1>6. LoggedOnce'
  BY <1>1, <1>2, OnceStep DEF IInv
<1>7. Logged \subseteq Logged'
  BY <1>2, LoggedGrows DEF IInv
<1>8. e \in Logged'
  <2>1. m + 1 \in DOMAIN log' /\ log'[m + 1] = EventLine(e)
    BY <1>1, <1>2 DEF Grown
  <2>2. log'[m + 1].kind = "event" /\ log'[m + 1].event = e
    BY <2>1 DEF EventLine, Chunk
  <2> QED
    BY <2>1, <2>2 DEF Logged
<1> QED
  BY <1>3, <1>4, <1>5, <1>6, <1>7, <1>8 DEF IInv, AckedEventsStay

\* And a process that dies in a write of events that are new, or may be logged again.
LEMMA TearStep ==
  ASSUME IInv, NEW events \in Seq(Events), events # <<>>, NEW kind \in Torn, Tear(events, kind),
         \A i \in DOMAIN events : events[i] \in Plain \/ events[i] \notin Replay,
         \A i, k \in DOMAIN events : events[i] = events[k] => i = k
  PROVE  IInv'
<1>1. kind \in TornKinds
  BY EventStoreAssumption
<1>2. PICK b \in Nat : Grown(log', events, b)
  BY <1>1, TearGrows DEF IInv
<1>3. Len(log') <= MaxLog /\ OnlyTheTailIsTorn' /\ (kind # "half_character" /\ Readable => Readable')
  BY <1>1, TearGrows DEF IInv
<1>4. UNCHANGED <<acked, watermark>>
  BY DEF Tear
<1>5. TypeOK'
  BY <1>2, <1>3, <1>4, TypeAfterWrite DEF IInv, TypeOK
<1>6. LoggedOnce'
  BY <1>2, OnceStep DEF IInv
<1>7. Logged \subseteq Logged'
  BY <1>2, LoggedGrows DEF IInv
<1> QED
  BY <1>3, <1>4, <1>5, <1>6, <1>7 DEF IInv, AckedEventsStay

\* Every step keeps the invariant.
LEMMA InductiveStep == IInv /\ [Next]_vars => IInv'
<1> SUFFICES ASSUME IInv, [Next]_vars PROVE IInv'
  OBVIOUS
<1>1. ASSUME NEW b \in Batches, AppendOnce(b) PROVE IInv'
  BY <1>1, BatchIsASequence, AppendOnceStep
<1>2. ASSUME NEW b \in Batches, NEW k \in Torn, CrashInAppendOnce(b, k) PROVE IInv'
  <2>1. b \in Seq(Events)
    BY BatchIsASequence
  <2>2. /\ Unseen(b) \in Seq(Events) /\ \A i \in DOMAIN Unseen(b) : Unseen(b)[i] \notin Replay
        /\ \A i, j \in DOMAIN Unseen(b) : Unseen(b)[i] = Unseen(b)[j] => i = j
    BY <2>1, UnseenIsNew
  <2>3. Unseen(b) # <<>> /\ Tear(Unseen(b), k)
    BY <1>2 DEF CrashInAppendOnce
  <2> QED
    BY <2>2, <2>3, TearStep
<1>3. ASSUME NEW e \in Plain, AppendEvent(e) PROVE IInv'
  BY <1>3, AppendEventStep
<1>4. ASSUME NEW e \in Plain, NEW k \in Torn, CrashInAppend(e, k) PROVE IInv'
  <2>1. <<e>> \in Seq(Events) /\ <<e>>[1] = e /\ <<e>> # <<>> /\ DOMAIN <<e>> = {1}
    BY EventStoreAssumption
  <2> QED
    BY <1>4, <2>1, TearStep DEF CrashInAppend
<1>5. ASSUME TakeWatermark PROVE IInv'
  <2>1. CommittedOffset \in 0..Len(log) /\ Len(log) \in Nat /\ Len(log) <= MaxLog
    BY DEF CommittedOffset, IInv, TypeOK
  <2>2. TypeOK'
    BY <1>5, <2>1, EventStoreAssumption DEF TakeWatermark, IInv, TypeOK
  <2> QED
    BY <1>5, <2>2 DEF TakeWatermark, IInv, OnlyTheTailIsTorn, LoggedOnce, AckedEventsStay, Logged
<1>6. ASSUME UNCHANGED vars PROVE IInv'
  BY <1>6 DEF vars, IInv, TypeOK, OnlyTheTailIsTorn, LoggedOnce, AckedEventsStay, Logged
<1> QED
  BY <1>1, <1>2, <1>3, <1>4, <1>5, <1>6 DEF Next

\* The invariant of the specification.
THEOREM Invariance == Spec => []IInv
  BY InitIInv, InductiveStep, PTL DEF Spec

\* The log, the acknowledgements and the watermark keep their types.
THEOREM TypeCorrect == Spec => []TypeOK
<1>1. IInv => TypeOK
  BY DEF IInv
<1> QED
  BY <1>1, Invariance, PTL

\* An event that only append_once writes is logged at most once, however its writes were
\* torn and retried, unless its text holds a separator that the replay breaks it at.
THEOREM EventsAreLoggedOnce == Spec => []LoggedOnce
<1>1. IInv => LoggedOnce
  BY DEF IInv
<1> QED
  BY <1>1, Invariance, PTL

\* An event whose append returned is in the log for ever, whatever text it holds and however
\* later writes are torn.
THEOREM AcknowledgedStays == Spec => []AckedEventsStay
<1>1. IInv => AckedEventsStay
  BY DEF IInv
<1> QED
  BY <1>1, Invariance, PTL

\* Nothing but a write changes the log.
LEMMA LogOnlyGrows ==
  ASSUME IInv, [Next]_vars PROVE (\E events, b : Grown(log', events, b)) \/ UNCHANGED log
<1>1. ASSUME NEW b \in Batches, AppendOnce(b) PROVE \E events, m : Grown(log', events, m)
  <2>1. Unseen(b) \in Seq(Events)
    BY BatchIsASequence, UnseenIsNew
  <2> QED
    BY <1>1, <2>1, WriteGrows DEF AppendOnce, IInv
<1>2. ASSUME NEW b \in Batches, NEW k \in Torn, CrashInAppendOnce(b, k)
      PROVE  \E events, m : Grown(log', events, m)
  <2>1. Unseen(b) \in Seq(Events) /\ k \in TornKinds
    BY BatchIsASequence, UnseenIsNew, EventStoreAssumption
  <2> QED
    BY <1>2, <2>1, TearGrows DEF CrashInAppendOnce, IInv
<1>3. ASSUME NEW e \in Plain, NEW k \in Torn, CrashInAppend(e, k)
      PROVE  \E events, m : Grown(log', events, m)
  <2>1. <<e>> \in Seq(Events) /\ <<e>> # <<>> /\ k \in TornKinds
    BY EventStoreAssumption
  <2> QED
    BY <1>3, <2>1, TearGrows DEF CrashInAppend, IInv
<1>4. ASSUME NEW e \in Plain, AppendEvent(e) PROVE \E events, m : Grown(log', events, m)
  <2>1. <<e>> \in Seq(Events)
    BY EventStoreAssumption
  <2> QED
    BY <1>4, <2>1, WriteGrows DEF AppendEvent, IInv
<1> QED
  BY <1>1, <1>2, <1>3, <1>4 DEF Next, TakeWatermark, vars

\* What reconcile reports of a whole chunk it reports for ever, or promotes to committed.
THEOREM AuditsAreStable == Spec => AuditOnlyAdvances
<1>1. IInv /\ [Next]_vars =>
        \A i \in DOMAIN log : Class(i) # "truncated" =>
          /\ i \in DOMAIN log' /\ log'[i] = log[i]
          /\ Class(i)' = IF Class(i) = "committed" \/ i <= watermark' THEN "committed"
                                                                     ELSE "post-snapshot"
  <2> SUFFICES ASSUME IInv, [Next]_vars, NEW i \in DOMAIN log, Class(i) # "truncated"
               PROVE  /\ i \in DOMAIN log' /\ log'[i] = log[i]
                      /\ Class(i)' = IF Class(i) = "committed" \/ i <= watermark' THEN "committed"
                                                                                 ELSE "post-snapshot"
    OBVIOUS
  <2>1. i \in 1..Len(log) /\ i \in Nat /\ Len(log) \in Nat /\ DOMAIN log = 1..Len(log) /\ watermark \in Nat
    BY DEF IInv, TypeOK
  <2>2. log[i].ended /\ log[i].kind \notin {"fragment", "half_character"}
        /\ (Class(i) = "committed" <=> i <= watermark)
    BY DEF Class
  <2>3. (\E events, b : Grown(log', events, b)) \/ UNCHANGED log
    BY LogOnlyGrows
  <2>4. i \in DOMAIN log' /\ log'[i] = log[i]
    <3>1. ASSUME NEW events, NEW b, Grown(log', events, b) PROVE i \in DOMAIN log' /\ log'[i] = log[i]
      <4>1. DOMAIN log' = 1..Len(log') /\ Len(log') \in Nat /\ Len(log) <= Len(log')
        BY <3>1 DEF Grown
      <4> QED
        BY <2>1, <2>2, <3>1, <4>1 DEF Grown
    <3> QED
      BY <2>3, <3>1
  <2>5. i <= watermark => i <= watermark'
    <3>1. CASE TakeWatermark
      <4>1. i <= CommittedOffset
        BY <2>1, <2>2 DEF CommittedOffset
      <4> QED
        BY <3>1, <4>1 DEF TakeWatermark
    <3>2. CASE ~TakeWatermark
      BY <3>2 DEF Next, AppendOnce, AppendEvent, Write, CrashInAppendOnce, CrashInAppend, Tear, vars
    <3> QED
      BY <3>1, <3>2
  <2>6. Class(i)' = IF i <= watermark' THEN "committed" ELSE "post-snapshot"
    BY <2>2, <2>4 DEF Class
  <2> QED
    BY <2>2, <2>4, <2>5, <2>6
<1> QED
  BY <1>1, Invariance, PTL DEF Spec, AuditOnlyAdvances
==================================================================================
