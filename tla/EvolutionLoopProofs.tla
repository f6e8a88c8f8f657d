--------------------------- MODULE EvolutionLoopProofs ---------------------------
(***************************************************************************)
(* For any limits, extensions and numbers of launches: a history ranks a   *)
(* round at most once and tells of every round that is behind the run, in  *)
(* memory and in each checkpoint; a durable ranking is never forgotten.    *)
(***************************************************************************)
EXTENDS EvolutionLoop, FiniteSetTheorems, SequenceTheorems, TLAPS

USE EvolutionLoopAssumption

---------------------------------------------------------------------------
(* Histories *)

\* A round is a number.
LEMMA RoundsAreNumbers == MaxRound \in Nat \ {0} /\ \A rec \in Records : rec.round \in 0..MaxRound
  BY DEF Records

\* A record of the next round, or an unranked one of the round reached, keeps a history telling.
LEMMA AppendTells ==
  ASSUME NEW hist \in Seq(Records), NEW n \in Nat, TellsOf(hist, n),
         NEW rec \in Records, NEW m \in {n, n + 1},
         m = n + 1 => rec.round = m, rec.ranked => m = n + 1
  PROVE  TellsOf(Append(hist, rec), m) /\ Append(hist, rec) \in Seq(Records)
<1> DEFINE longer == Append(hist, rec)
<1>1. /\ longer \in Seq(Records)
      /\ Len(longer) = Len(hist) + 1 /\ Len(hist) \in Nat
      /\ DOMAIN longer = 1 .. Len(hist) + 1 /\ DOMAIN hist = 1 .. Len(hist)
      /\ \A i \in 1 .. Len(hist) : longer[i] = hist[i]
      /\ longer[Len(hist) + 1] = rec
  BY AppendProperties, LenProperties
<1> HIDE DEF longer
<1>2. \A i \in DOMAIN hist : hist[i].ranked => hist[i].round <= n
  BY DEF TellsOf, RankedUpTo
<1>3. \A i \in DOMAIN hist : hist[i].round \in Nat /\ (hist[i].ranked => hist[i].round < n + 1)
  <2>1. \A i \in DOMAIN hist : hist[i] \in Records
    BY <1>1
  <2> QED
    BY <1>2, <2>1, RoundsAreNumbers
<1>4. RankedUpTo(longer, m)
  <2> SUFFICES ASSUME NEW i \in DOMAIN longer, longer[i].ranked PROVE longer[i].round <= m
    BY DEF RankedUpTo
  <2>1. CASE i \in DOMAIN hist
    BY <1>1, <1>2, <1>3, <2>1
  <2>2. CASE i = Len(hist) + 1
    BY <1>1, <2>2
  <2> QED
    BY <1>1, <2>1, <2>2
<1>5. RankedOnce(longer)
  <2> SUFFICES ASSUME NEW i \in DOMAIN longer, NEW j \in DOMAIN longer, longer[i].ranked,
                      longer[j].ranked, longer[i].round = longer[j].round
               PROVE  i = j
    BY DEF RankedOnce
  <2>1. CASE i \in DOMAIN hist /\ j \in DOMAIN hist
    BY <1>1, <2>1 DEF TellsOf, RankedOnce
  <2>2. CASE i = Len(hist) + 1 /\ j = Len(hist) + 1
    BY <2>2
  <2>3. CASE i \in DOMAIN hist /\ j = Len(hist) + 1
    BY <1>1, <1>3, <2>3
  <2>4. CASE i = Len(hist) + 1 /\ j \in DOMAIN hist
    BY <1>1, <1>3, <2>4
  <2> QED
    BY <1>1, <2>1, <2>2, <2>3, <2>4
<1>6. ExplainedUpTo(longer, m)
  <2> SUFFICES ASSUME NEW r \in 1 .. m PROVE \E i \in DOMAIN longer : longer[i].round = r
    BY DEF ExplainedUpTo
  <2>1. CASE r = n + 1
    BY <1>1, <2>1
  <2>2. CASE r # n + 1
    <3>1. r \in 1 .. n
      BY <2>2
    <3>2. PICK i \in DOMAIN hist : hist[i].round = r
      BY <3>1 DEF TellsOf, ExplainedUpTo
    <3> QED
      BY <1>1, <3>2
  <2> QED
    BY <2>1, <2>2
<1> QED
  BY <1>1, <1>4, <1>5, <1>6 DEF TellsOf, longer

\* A longer history ranks what the shorter one ranked and what was appended to it.
LEMMA AppendRanks ==
  ASSUME NEW hist \in Seq(Records), NEW rec \in Records
  PROVE  RankedRounds(Append(hist, rec)) =
           RankedRounds(hist) \union (IF rec.ranked THEN {rec.round} ELSE {})
<1> DEFINE longer == Append(hist, rec)
           I(h) == {j \in DOMAIN h : h[j].ranked}
<1>1. /\ DOMAIN longer = 1 .. Len(hist) + 1 /\ DOMAIN hist = 1 .. Len(hist) /\ Len(hist) \in Nat
      /\ \A i \in 1 .. Len(hist) : longer[i] = hist[i]
      /\ longer[Len(hist) + 1] = rec
  BY AppendProperties, LenProperties
<1>2. \A i \in DOMAIN longer : (i \in DOMAIN hist /\ longer[i] = hist[i]) \/ longer[i] = rec
  BY <1>1
<1>3. \A i \in DOMAIN hist : i \in DOMAIN longer /\ longer[i] = hist[i]
  BY <1>1
<1>4. Len(hist) + 1 \in DOMAIN longer
  BY <1>1
<1> HIDE DEF longer
<1>5. ASSUME NEW r \in RankedRounds(longer)
      PROVE  r \in RankedRounds(hist) \union (IF rec.ranked THEN {rec.round} ELSE {})
  <2>1. PICK i \in DOMAIN longer : longer[i].ranked /\ r = longer[i].round
    BY <1>5 DEF RankedRounds
  <2> QED
    BY <1>2, <2>1 DEF RankedRounds
<1>6. RankedRounds(hist) \subseteq RankedRounds(longer)
  BY <1>3 DEF RankedRounds
<1>7. rec.ranked => rec.round \in RankedRounds(longer)
  BY <1>1, <1>4 DEF RankedRounds
<1> QED
  BY <1>5, <1>6, <1>7 DEF longer

\* Replacing the last record by one of the same round and kind changes nothing a history tells.
LEMMA ReplaceLastTells ==
  ASSUME NEW hist \in Seq(Records), hist # <<>>, NEW rec \in Records, NEW n \in Nat,
         rec.round = Last(hist).round, rec.ranked = Last(hist).ranked, TellsOf(hist, n)
  PROVE  /\ Append(Front(hist), rec) \in Seq(Records) /\ Append(Front(hist), rec) # <<>>
         /\ TellsOf(Append(Front(hist), rec), n)
         /\ RankedRounds(Append(Front(hist), rec)) = RankedRounds(hist)
<1> DEFINE front == Front(hist)
           other == Append(front, rec)
<1>1. Len(hist) \in Nat \ {0} /\ DOMAIN hist = 1 .. Len(hist)
      /\ \A i \in 1 .. Len(hist) : hist[i] \in Records
  BY EmptySeq, LenProperties
<1>2. /\ front \in Seq(Records) /\ Len(front) = Len(hist) - 1
      /\ \A i \in 1 .. Len(hist) - 1 : front[i] = hist[i]
  <2>1. front = SubSeq(hist, 1, Len(hist) - 1)
    BY DEF Front
  <2>2. \A i \in 1 .. Len(hist) - 1 : hist[i] \in Records
    BY <1>1
  <2> HIDE DEF front
  <2>3. /\ front \in Seq(Records)
        /\ Len(front) = IF 1 <= Len(hist) - 1 THEN Len(hist) - 1 - 1 + 1 ELSE 0
        /\ \A i \in 1 .. Len(hist) - 1 - 1 + 1 : front[i] = hist[1 + i - 1]
    BY <1>1, <2>1, <2>2, SubSeqProperties
  <2>4. \A i \in 1 .. Len(hist) - 1 : i \in 1 .. Len(hist) - 1 - 1 + 1 /\ 1 + i - 1 = i
    BY <1>1
  <2>5. Len(front) = Len(hist) - 1
    <3>1. CASE Len(hist) = 1
      BY <2>3, <3>1
    <3>2. CASE Len(hist) # 1
      <4>1. 1 <= Len(hist) - 1 /\ Len(hist) - 1 - 1 + 1 = Len(hist) - 1
        BY <1>1, <3>2
      <4> QED
        BY <2>3, <4>1
    <3> QED
      BY <3>1, <3>2
  <2>6. \A i \in 1 .. Len(hist) - 1 : front[i] = hist[i]
    <3> SUFFICES ASSUME NEW i \in 1 .. Len(hist) - 1 PROVE front[i] = hist[i]
      OBVIOUS
    <3>1. front[i] = hist[1 + i - 1]
      BY <2>3, <2>4
    <3> QED
      BY <2>4, <3>1
  <2> QED
    BY <2>3, <2>5, <2>6
<1> HIDE DEF front
<1>3. /\ other \in Seq(Records) /\ other # <<>> /\ Len(other) = Len(front) + 1
      /\ \A i \in 1 .. Len(front) : other[i] = front[i]
      /\ other[Len(front) + 1] = rec
  BY <1>2, AppendProperties
<1> HIDE DEF other
<1>4. DOMAIN other = DOMAIN hist
  BY <1>1, <1>2, <1>3, LenProperties
<1>5. \A i \in DOMAIN hist : other[i].round = hist[i].round /\ other[i].ranked = hist[i].ranked
  <2> SUFFICES ASSUME NEW i \in DOMAIN hist
               PROVE  other[i].round = hist[i].round /\ other[i].ranked = hist[i].ranked
    OBVIOUS
  <2>1. CASE i = Len(hist)
    <3>1. other[i] = rec
      BY <1>1, <1>2, <1>3, <2>1
    <3> QED
      BY <2>1, <3>1 DEF Last
  <2>2. CASE i # Len(hist)
    <3>1. i \in 1 .. Len(hist) - 1 /\ i \in 1 .. Len(front)
      BY <1>1, <1>2, <2>2
    <3>2. other[i] = front[i] /\ front[i] = hist[i]
      BY <1>2, <1>3, <3>1
    <3> QED
      BY <3>2
  <2> QED
    BY <2>1, <2>2
<1>6. TellsOf(other, n)
  <2>1. RankedOnce(other)
    BY <1>4, <1>5 DEF TellsOf, RankedOnce
  <2>2. RankedUpTo(other, n)
    BY <1>4, <1>5 DEF TellsOf, RankedUpTo
  <2>3. ExplainedUpTo(other, n)
    BY <1>4, <1>5, Zenon DEF TellsOf, ExplainedUpTo
  <2> QED
    BY <2>1, <2>2, <2>3 DEF TellsOf
<1>7. RankedRounds(other) = RankedRounds(hist)
  <2>1. {j \in DOMAIN other : other[j].ranked} = {j \in DOMAIN hist : hist[j].ranked}
    BY <1>4, <1>5
  <2> QED
    BY <1>5, <2>1 DEF RankedRounds
<1> QED
  BY <1>3, <1>6, <1>7 DEF other, front

\* The empty history tells of no round.
LEMMA EmptyTells == TellsOf(<<>>, 0) /\ <<>> \in Seq(Records) /\ RankedRounds(<<>>) = {}
  BY EmptySeq DEF TellsOf, RankedOnce, RankedUpTo, ExplainedUpTo, RankedRounds

\* Nor does an empty queue hold a checkpoint.
LEMMA EmptyQueue == <<>> \in Seq(Checkpoints) /\ DOMAIN <<>> = {}
  BY EmptySeq

\* Where rounds are ranked once, there are as many ranked rounds as ranked records.
LEMMA RankedOnceCounts ==
  ASSUME NEW hist \in Seq(Records), RankedOnce(hist)
  PROVE  RankedCount(hist) = Cardinality(RankedRounds(hist))
<1> DEFINE I == {i \in DOMAIN hist : hist[i].ranked}
           f == [i \in I |-> hist[i].round]
<1>1. IsFiniteSet(I)
  <2>1. Len(hist) \in Nat /\ DOMAIN hist = 1 .. Len(hist)
    BY LenProperties
  <2>2. IsFiniteSet(1 .. Len(hist))
    BY <2>1, FS_Interval
  <2>3. I \in SUBSET (1 .. Len(hist))
    BY <2>1
  <2> QED
    BY <2>2, <2>3, FS_Subset
<1>2. f \in Bijection(I, RankedRounds(hist))
  <2>1. f \in [I -> RankedRounds(hist)]
    BY DEF RankedRounds
  <2>2. \A i, j \in I : f[i] = f[j] => i = j
    BY DEF RankedOnce
  <2>3. \A r \in RankedRounds(hist) : \E i \in I : f[i] = r
    BY DEF RankedRounds
  <2> QED
    BY <2>1, <2>2, <2>3 DEF Bijection, Injection, Surjection, IsInjective
<1>3. Cardinality(RankedRounds(hist)) = Cardinality(I)
  BY <1>1, <1>2, FS_Bijection DEF ExistsBijection
<1> QED
  BY <1>3 DEF RankedCount

---------------------------------------------------------------------------
(* Checkpoints *)

\* A checkpoint handed to the observer tells of its round, and ranks what the run has ranked.
LEMMA HandOverKeepsTheQueue ==
  ASSUME TypeOK, CheckpointsTellOfTheirs, RankingsOnlyGrow,
         pc \notin {"down", "done"}, pc' \notin {"down", "done"}, disk' = disk,
         NEW c \in Checkpoints, TellsOf(c.history, c.round),
         RankedRounds(history) \subseteq RankedRounds(c.history),
         RankedRounds(c.history) \subseteq RankedRounds(history'),
         pending' \in {pending, Append(pending, c)}
  PROVE  pending' \in Seq(Checkpoints) /\ CheckpointsTellOfTheirs' /\ RankingsOnlyGrow'
<1>1. pending \in Seq(Checkpoints) /\ Len(pending) \in Nat /\ DOMAIN pending = 1 .. Len(pending)
  BY LenProperties DEF TypeOK
<1>2. /\ RankedRounds(disk.history) \subseteq RankedRounds(history)
      /\ \A i \in DOMAIN pending : RankedRounds(pending[i].history) \subseteq RankedRounds(history)
  BY DEF RankingsOnlyGrow
<1>3. CASE pending' = pending
  <2>1. CheckpointsTellOfTheirs'
    BY <1>3 DEF CheckpointsTellOfTheirs
  <2>2. RankingsOnlyGrow'
    BY <1>2, <1>3 DEF RankingsOnlyGrow
  <2> QED
    BY <1>1, <1>3, <2>1, <2>2
<1>4. CASE pending' = Append(pending, c)
  <2>1. /\ pending' \in Seq(Checkpoints) /\ DOMAIN pending' = 1 .. Len(pending) + 1
        /\ \A i \in DOMAIN pending : pending'[i] = pending[i]
        /\ pending'[Len(pending) + 1] = c
    BY <1>1, <1>4, AppendProperties, LenProperties
  <2>2. \A i \in DOMAIN pending' : i \in DOMAIN pending \/ i = Len(pending) + 1
    BY <1>1, <2>1
  <2>3. CheckpointsTellOfTheirs'
    BY <2>1, <2>2 DEF CheckpointsTellOfTheirs
  <2>4. \A i \in DOMAIN pending' :
          /\ RankedRounds(disk.history) \subseteq RankedRounds(pending'[i].history)
          /\ RankedRounds(pending'[i].history) \subseteq RankedRounds(c.history)
    BY <1>2, <2>1, <2>2 DEF RankingsOnlyGrow
  <2>5. ASSUME NEW i \in DOMAIN pending', NEW j \in DOMAIN pending', i <= j
        PROVE  RankedRounds(pending'[i].history) \subseteq RankedRounds(pending'[j].history)
    <3>1. CASE j = Len(pending) + 1
      BY <2>1, <2>4, <3>1
    <3>2. CASE j # Len(pending) + 1
      <4>1. i \in DOMAIN pending /\ j \in DOMAIN pending
        BY <1>1, <2>1, <2>5, <3>2
      <4> QED
        BY <2>1, <2>5, <4>1 DEF RankingsOnlyGrow
    <3> QED
      BY <3>1, <3>2
  <2>6. RankingsOnlyGrow'
    BY <1>2, <2>4, <2>5 DEF RankingsOnlyGrow
  <2> QED
    BY <2>1, <2>3, <2>6
<1> QED
  BY <1>3, <1>4

\* The checkpoint that lands is the oldest one.
LEMMA LandingKeepsTheOrder ==
  ASSUME TypeOK, CheckpointsTellOfTheirs, RankingsOnlyGrow, CheckpointLands
  PROVE  /\ pending' \in Seq(Checkpoints) /\ disk' \in Checkpoints
         /\ CheckpointsTellOfTheirs' /\ RankingsOnlyGrow'
         /\ RankedRounds(disk.history) \subseteq RankedRounds(disk'.history)
<1>1. /\ pending \in Seq(Checkpoints) /\ pending # <<>>
      /\ Len(pending) \in Nat \ {0} /\ DOMAIN pending = 1 .. Len(pending)
  BY LenProperties, EmptySeq DEF TypeOK, CheckpointLands
<1>2. /\ pending' \in Seq(Checkpoints) /\ Len(pending') = Len(pending) - 1
      /\ \A i \in 1 .. Len(pending') : pending'[i] = pending[i + 1]
      /\ disk' = pending[1] /\ disk' \in Checkpoints
  BY <1>1, HeadTailProperties DEF CheckpointLands
<1>3. DOMAIN pending' = 1 .. Len(pending) - 1
  BY <1>2, LenProperties
<1>4. \A i \in DOMAIN pending' : i + 1 \in DOMAIN pending /\ pending'[i] = pending[i + 1] /\ 1 <= i + 1
  BY <1>1, <1>2, <1>3
<1>5. 1 \in DOMAIN pending
  BY <1>1
<1>6. CheckpointsTellOfTheirs'
  BY <1>2, <1>4, <1>5 DEF CheckpointsTellOfTheirs
<1>7. RankingsOnlyGrow'
  <2>1. pc' = pc /\ history' = history /\ pc \notin {"down", "done"}
    BY <1>1 DEF CheckpointLands, budget, RankingsOnlyGrow
  <2>2. \A i, j \in DOMAIN pending' : i <= j => i + 1 <= j + 1
    BY <1>3
  <2>3. \A i, j \in DOMAIN pending' :
          i <= j => RankedRounds(pending'[i].history) \subseteq RankedRounds(pending'[j].history)
    BY <1>4, <2>2 DEF RankingsOnlyGrow
  <2>4. \A i \in DOMAIN pending' :
          RankedRounds(disk'.history) \subseteq RankedRounds(pending'[i].history)
    BY <1>2, <1>4, <1>5 DEF RankingsOnlyGrow
  <2>5. RankedRounds(disk'.history) \subseteq RankedRounds(history')
    BY <1>2, <1>5, <2>1 DEF RankingsOnlyGrow
  <2>6. \A i \in DOMAIN pending' :
          RankedRounds(pending'[i].history) \subseteq RankedRounds(history')
    BY <1>4, <2>1 DEF RankingsOnlyGrow
  <2> QED
    BY <2>1, <2>3, <2>4, <2>5, <2>6 DEF RankingsOnlyGrow
<1> QED
  BY <1>2, <1>5, <1>6, <1>7 DEF RankingsOnlyGrow

\* An interruption adds an error record of the round, and may hand over a checkpoint of it.
LEMMA InterruptKeepsTelling ==
  ASSUME IInv, pc \notin {"down", "done"}, pc' \notin {"down", "done"}, disk' = disk,
         UNCHANGED seeded,
         NEW n \in Nat, TellsOf(history, n), NEW round \in {n, n + 1}, round <= limit,
         NEW why \in ErrorStops, Interrupt(round, why)
  PROVE  /\ history' \in Seq(Records) /\ history' # <<>>
         /\ stop' \in Stops /\ interrupted' \in BOOLEAN
         /\ \A m \in {n, round} : TellsOf(history', m)
         /\ pending' \in Seq(Checkpoints) /\ CheckpointsTellOfTheirs' /\ RankingsOnlyGrow'
<1> DEFINE rec == Error(round, why)
           c == LiveCheckpoint(round, history', phase)
<1>1. rec \in Records /\ ~rec.ranked /\ rec.round = round
  <2>1. round \in 0..MaxRound
    BY DEF IInv, TypeOK
  <2> QED
    BY <2>1 DEF IInv, TypeOK, Error, Records, Stops
<1>2. history' = Append(history, rec) /\ history \in Seq(Records)
  BY DEF Interrupt, IInv, TypeOK
<1> HIDE DEF rec
<1>3. history' \in Seq(Records) /\ history' # <<>> /\ RankedRounds(history') = RankedRounds(history)
  <2>1. history' \in Seq(Records) /\ history' # <<>>
    BY <1>1, <1>2, AppendProperties
  <2>2. RankedRounds(Append(history, rec)) =
          RankedRounds(history) \union (IF rec.ranked THEN {rec.round} ELSE {})
    BY <1>1, <1>2, AppendRanks
  <2>3. RankedRounds(history') = RankedRounds(history)
    BY <1>1, <1>2, <2>2
  <2> QED
    BY <2>1, <2>3
<1>4. TellsOf(history', n) /\ TellsOf(history', round)
  <2>1. n # n + 1
    OBVIOUS
  <2>2. TellsOf(history', n)
    BY <1>1, <1>2, <2>1, AppendTells
  <2>3. TellsOf(history', round)
    BY <1>1, <1>2, <2>1, AppendTells
  <2> QED
    BY <2>2, <2>3
<1>5. c \in Checkpoints /\ c.history = history' /\ c.round = round
  <2>1. round \in 0..MaxRound
    BY DEF IInv, TypeOK
  <2> QED
    BY <1>3, <2>1 DEF IInv, TypeOK, LiveCheckpoint, Checkpoints, Stops
<1>6. pending' \in {pending, Append(pending, c)} /\ stop' \in Stops /\ interrupted' \in BOOLEAN
  BY DEF Interrupt, Stops
<1> HIDE DEF c
<1>7. pending' \in Seq(Checkpoints) /\ CheckpointsTellOfTheirs' /\ RankingsOnlyGrow'
  BY <1>3, <1>4, <1>5, <1>6, HandOverKeepsTheQueue DEF IInv
<1> QED
  BY <1>3, <1>4, <1>6, <1>7

---------------------------------------------------------------------------
(* The inductive invariant *)

\* It holds before the first launch.
LEMMA InitIInv == Init => IInv
<1> SUFFICES ASSUME Init PROVE IInv
  OBVIOUS
<1>1. disk \in Checkpoints /\ disk.history = <<>> /\ disk.round = 0
  <2>1. Limit \in 1..MaxRound /\ 0 \in 0..MaxRound
    OBVIOUS
  <2> QED
    BY <2>1, EmptyTells DEF Init, NoCheckpoint, Checkpoints, Phases, Stops
<1>2. TypeOK
  <2>1. Limit \in 1..MaxRound /\ 0 \in 0..Limit /\ 0 \in 0..MaxLaunches
    OBVIOUS
  <2> QED
    BY <1>1, <2>1, EmptyTells, EmptyQueue DEF Init, TypeOK, Phases, Stops
<1>3. HistoryTellsOfTheRounds
  BY EmptyTells DEF Init, HistoryTellsOfTheRounds
<1>4. CheckpointsTellOfTheirs
  BY <1>1, EmptyTells, EmptyQueue DEF Init, CheckpointsTellOfTheirs
<1>5. RankingsOnlyGrow
  BY <1>1, EmptyTells, EmptyQueue DEF Init, RankingsOnlyGrow
<1> QED
  BY <1>2, <1>3, <1>4, <1>5 DEF IInv

\* Every step of a launch, of the observer and of a resume preserves it.
LEMMA InductiveStep == IInv /\ [Next]_vars => IInv'
<1> SUFFICES ASSUME IInv, [Next]_vars PROVE IInv'
  OBVIOUS
<1> USE DEF IInv
<1>1. CASE Launch
  <2> DEFINE c == [LiveCheckpoint(0, <<>>, phase) EXCEPT !.seeded = seeded']
  <2>1. c \in Checkpoints /\ c.history = <<>> /\ c.round = 0
    <3>1. 0 \in 0..MaxRound /\ seeded' \in BOOLEAN
      BY <1>1 DEF Launch
    <3> QED
      BY <3>1, EmptyTells DEF TypeOK, LiveCheckpoint, Checkpoints, Stops
  <2>2. pending' = <<c>> /\ disk' = disk /\ history' = history /\ history = <<>>
    BY <1>1 DEF Launch, budget, HistoryTellsOfTheRounds
  <2> HIDE DEF c
  <2>3. DOMAIN pending' = {1} /\ pending'[1] = c /\ pending' \in Seq(Checkpoints)
    BY <2>1, <2>2
  <2>4. TypeOK'
    BY <1>1, <2>3 DEF Launch, TypeOK, budget
  <2>5. HistoryTellsOfTheRounds'
    BY <1>1 DEF Launch, budget, HistoryTellsOfTheRounds
  <2>6. CheckpointsTellOfTheirs'
    BY <2>1, <2>2, <2>3, EmptyTells DEF CheckpointsTellOfTheirs
  <2>7. RankingsOnlyGrow'
    <3>1. RankedRounds(disk.history) \subseteq RankedRounds(<<>>) /\ pc' = "loop"
      BY <1>1, <2>2 DEF RankingsOnlyGrow, Launch
    <3> QED
      BY <2>1, <2>2, <2>3, <3>1 DEF RankingsOnlyGrow
  <2> QED
    BY <2>4, <2>5, <2>6, <2>7
<1>2. CASE SeedingFailed
  <2>1. PICK why \in {"quota", "model"} : Interrupt(0, why)
    BY <1>2 DEF SeedingFailed
  <2>2. /\ pc = "loop" /\ pc' = "synthesis" /\ current = 0 /\ current' = current
        /\ UNCHANGED <<launches, seeded, disk>> /\ UNCHANGED <<adaptive, limit, phase>>
    BY <1>2, <2>1 DEF SeedingFailed, Interrupt
  <2>3. TellsOf(history, 0) /\ 0 <= limit /\ why \in ErrorStops /\ 0 \in Nat
    BY <2>2 DEF HistoryTellsOfTheRounds, TypeOK, ErrorStops
  <2>4. /\ history' \in Seq(Records) /\ stop' \in Stops /\ interrupted' \in BOOLEAN
        /\ TellsOf(history', 0)
        /\ pending' \in Seq(Checkpoints) /\ CheckpointsTellOfTheirs' /\ RankingsOnlyGrow'
    BY <2>1, <2>2, <2>3, InterruptKeepsTelling
  <2>5. TypeOK'
    BY <2>2, <2>4 DEF TypeOK
  <2>6. HistoryTellsOfTheRounds'
    BY <2>2, <2>4 DEF HistoryTellsOfTheRounds
  <2> QED
    BY <2>4, <2>5, <2>6
<1>3. CASE CancelRound
  <2>1. /\ pc = "loop" /\ pc' = "synthesis" /\ current < limit /\ current' = current
        /\ UNCHANGED <<launches, seeded, disk>> /\ UNCHANGED <<adaptive, limit, phase>>
        /\ Interrupt(current + 1, "cancelled")
    BY <1>3 DEF CancelRound, MayRun, Interrupt
  <2>2. TellsOf(history, current) /\ current \in Nat /\ current + 1 <= limit
    BY <2>1 DEF HistoryTellsOfTheRounds, TypeOK
  <2>3. "cancelled" \in ErrorStops
    BY DEF ErrorStops
  <2>4. /\ history' \in Seq(Records) /\ stop' \in Stops /\ interrupted' \in BOOLEAN
        /\ TellsOf(history', current)
        /\ pending' \in Seq(Checkpoints) /\ CheckpointsTellOfTheirs' /\ RankingsOnlyGrow'
    BY <2>1, <2>2, <2>3, InterruptKeepsTelling
  <2>5. TypeOK'
    BY <2>1, <2>4 DEF TypeOK
  <2>6. HistoryTellsOfTheRounds'
    BY <2>1, <2>4 DEF HistoryTellsOfTheRounds
  <2> QED
    BY <2>4, <2>5, <2>6
<1>4. CASE StartRound
  <2>1. TypeOK'
    BY <1>4 DEF StartRound, MayRun, TypeOK
  <2>2. HistoryTellsOfTheRounds'
    <3>1. current \in Nat /\ current' = current + 1 /\ current' - 1 = current /\ history' = history
      BY <1>4 DEF StartRound, TypeOK
    <3>2. pc = "loop" /\ pc' = "evaluate" /\ current' > 0
      BY <1>4, <3>1 DEF StartRound, MayRun
    <3> QED
      BY <3>1, <3>2 DEF HistoryTellsOfTheRounds
  <2>3. CheckpointsTellOfTheirs'
    BY <1>4 DEF StartRound, CheckpointsTellOfTheirs
  <2>4. RankingsOnlyGrow'
    BY <1>4 DEF StartRound, MayRun, RankingsOnlyGrow
  <2> QED
    BY <2>1, <2>2, <2>3, <2>4
<1>5. CASE LoopEnds
  <2>1. TypeOK'
    BY <1>5 DEF LoopEnds, TypeOK, budget
  <2>2. HistoryTellsOfTheRounds'
    BY <1>5 DEF LoopEnds, HistoryTellsOfTheRounds, budget
  <2>3. CheckpointsTellOfTheirs'
    BY <1>5 DEF LoopEnds, CheckpointsTellOfTheirs
  <2>4. RankingsOnlyGrow'
    BY <1>5 DEF LoopEnds, RankingsOnlyGrow, budget
  <2> QED
    BY <2>1, <2>2, <2>3, <2>4
<1>6. CASE Evaluate
  <2>1. PICK why \in Decisions, costTail \in BOOLEAN :
          LET record == Ranked(current, phase, why)
              ending == IF why # "" THEN why ELSE IF current >= limit THEN "max_rounds" ELSE ""
          IN /\ phase' = NextPhase(why, costTail)
             /\ pending' = Append(pending, LiveCheckpoint(current, Append(history, record), phase'))
             /\ history' = Append(history, [record EXCEPT !.stop = ending])
             /\ stop' = ending
             /\ pc' = IF ending = "" THEN "reproduce" ELSE "synthesis"
    BY <1>6 DEF Evaluate
  <2> DEFINE record == Ranked(current, phase, why)
             ending == IF why # "" THEN why ELSE IF current >= limit THEN "max_rounds" ELSE ""
             final == [record EXCEPT !.stop = ending]
             c == LiveCheckpoint(current, Append(history, record), phase')
  <2>2. /\ pc = "evaluate" /\ disk' = disk /\ current' = current
        /\ UNCHANGED <<adaptive, launches, seeded, limit, interrupted>>
    BY <1>6 DEF Evaluate
  <2>3. why \in {"", "review", "unsolved"} /\ ending \in Stops /\ why \in Stops
    BY DEF Decisions, Stops
  <2>4. /\ current \in Nat /\ current > 0 /\ current \in 0..MaxRound
        /\ current - 1 \in Nat /\ current = current - 1 + 1
        /\ TellsOf(history, current - 1) /\ history \in Seq(Records)
    BY <2>2 DEF HistoryTellsOfTheRounds, TypeOK
  <2>5. phase' \in Phases
    BY <2>1 DEF NextPhase, TypeOK, Phases
  <2>6. /\ record \in Records /\ final \in Records
        /\ record.ranked /\ final.ranked /\ record.round = current /\ final.round = current
    BY <2>3, <2>4 DEF Ranked, Records, TypeOK
  <2>7. /\ pending' = Append(pending, c) /\ history' = Append(history, final)
        /\ stop' = ending /\ pc' \in {"reproduce", "synthesis"}
    BY <2>1
  <2> HIDE DEF ending, final, record
  <2>8. /\ TellsOf(Append(history, record), current) /\ Append(history, record) \in Seq(Records)
        /\ TellsOf(history', current) /\ history' \in Seq(Records) /\ history' # <<>>
    <3>1. TellsOf(Append(history, record), current) /\ Append(history, record) \in Seq(Records)
      BY <2>4, <2>6, AppendTells
    <3>2. TellsOf(history', current) /\ history' \in Seq(Records)
      BY <2>4, <2>6, <2>7, AppendTells
    <3> QED
      BY <2>4, <2>6, <2>7, <3>1, <3>2, AppendProperties
  <2>9. /\ RankedRounds(Append(history, record)) = RankedRounds(history) \union {current}
        /\ RankedRounds(history') = RankedRounds(history) \union {current}
    BY <2>4, <2>6, <2>7, AppendRanks
  <2>10. c \in Checkpoints /\ c.history = Append(history, record) /\ c.round = current
    BY <2>4, <2>5, <2>8 DEF LiveCheckpoint, Checkpoints, TypeOK, Stops
  <2> HIDE DEF c
  <2>11. pending' \in Seq(Checkpoints) /\ CheckpointsTellOfTheirs' /\ RankingsOnlyGrow'
    BY <2>2, <2>7, <2>8, <2>9, <2>10, HandOverKeepsTheQueue
  <2>12. TypeOK'
    BY <2>2, <2>3, <2>5, <2>7, <2>8, <2>11 DEF TypeOK
  <2>13. HistoryTellsOfTheRounds'
    BY <2>2, <2>7, <2>8 DEF HistoryTellsOfTheRounds
  <2> QED
    BY <2>11, <2>12, <2>13
<1>7. CASE Reproduce
  <2>1. PICK receipt, fruitless \in BOOLEAN :
          LET record == [Last(history) EXCEPT !.receipt = receipt,
                                              !.stop = IF fruitless THEN "exhausted" ELSE ""]
          IN /\ history' = Append(Front(history), record)
             /\ stop' = record.stop
             /\ pc' = IF fruitless THEN "synthesis" ELSE "loop"
             /\ pending' = IF fruitless THEN pending
                           ELSE Append(pending, LiveCheckpoint(current, history', phase))
    BY <1>7 DEF Reproduce
  <2> DEFINE record == [Last(history) EXCEPT !.receipt = receipt,
                                             !.stop = IF fruitless THEN "exhausted" ELSE ""]
             c == LiveCheckpoint(current, history', phase)
  <2>2. /\ pc = "reproduce" /\ UNCHANGED <<adaptive, launches, seeded, current, limit>>
        /\ UNCHANGED <<phase, interrupted, disk>>
    BY <1>7 DEF Reproduce
  <2>3. /\ history \in Seq(Records) /\ history # <<>> /\ Last(history) \in Records
        /\ TellsOf(history, current) /\ current \in Nat
    BY <2>2, EmptySeq, ElementOfSeq DEF HistoryTellsOfTheRounds, TypeOK, Last
  <2>4. /\ record \in Records
        /\ record.round = Last(history).round /\ record.ranked = Last(history).ranked
        /\ record.stop \in Stops
    BY <2>3 DEF Records, Stops
  <2>5. /\ history' = Append(Front(history), record) /\ stop' \in Stops
        /\ pc' \in {"synthesis", "loop"} /\ pending' \in {pending, Append(pending, c)}
    BY <2>1, <2>4
  <2> HIDE DEF record
  <2>6. /\ history' \in Seq(Records) /\ history' # <<>> /\ TellsOf(history', current)
        /\ RankedRounds(history') = RankedRounds(history)
    BY <2>3, <2>4, <2>5, ReplaceLastTells
  <2>7. c \in Checkpoints /\ c.history = history' /\ c.round = current
    <3>1. current \in 0..MaxRound
      BY DEF TypeOK
    <3> QED
      BY <3>1, <2>6 DEF LiveCheckpoint, Checkpoints, TypeOK, Stops
  <2> HIDE DEF c
  <2>8. pending' \in Seq(Checkpoints) /\ CheckpointsTellOfTheirs' /\ RankingsOnlyGrow'
    BY <2>2, <2>5, <2>6, <2>7, HandOverKeepsTheQueue
  <2>9. TypeOK'
    BY <2>2, <2>5, <2>6, <2>8 DEF TypeOK
  <2>10. HistoryTellsOfTheRounds'
    BY <2>2, <2>5, <2>6 DEF HistoryTellsOfTheRounds
  <2> QED
    BY <2>8, <2>9, <2>10
<1>8. CASE RoundFails
  <2>1. PICK why \in {"quota", "model"} : Interrupt(current, why)
    BY <1>8 DEF RoundFails
  <2>2. /\ pc \in {"evaluate", "reproduce"} /\ pc' = "synthesis"
        /\ UNCHANGED <<launches, seeded, current, disk>> /\ UNCHANGED <<adaptive, limit, phase>>
    BY <1>8, <2>1 DEF RoundFails, Interrupt
  <2>3. PICK n \in Nat : TellsOf(history, n) /\ (n = current \/ n + 1 = current)
    <3>1. CASE pc = "evaluate"
      <4>1. current - 1 \in Nat /\ current - 1 + 1 = current /\ TellsOf(history, current - 1)
        BY <3>1 DEF HistoryTellsOfTheRounds, TypeOK
      <4> QED
        BY <4>1
    <3>2. CASE pc = "reproduce"
      BY <3>2 DEF HistoryTellsOfTheRounds, TypeOK
    <3> QED
      BY <2>2, <3>1, <3>2
  <2>4. current \in {n, n + 1} /\ current <= limit /\ why \in ErrorStops
    BY <2>3 DEF TypeOK, ErrorStops
  <2>5. /\ history' \in Seq(Records) /\ stop' \in Stops /\ interrupted' \in BOOLEAN
        /\ TellsOf(history', current)
        /\ pending' \in Seq(Checkpoints) /\ CheckpointsTellOfTheirs' /\ RankingsOnlyGrow'
    BY <2>1, <2>2, <2>3, <2>4, InterruptKeepsTelling
  <2>6. TypeOK'
    BY <2>2, <2>5 DEF TypeOK
  <2>7. HistoryTellsOfTheRounds'
    BY <2>2, <2>5 DEF HistoryTellsOfTheRounds
  <2> QED
    BY <2>5, <2>6, <2>7
<1>9. CASE SynthesisFails
  <2>1. PICK why \in {"quota", "model"} : Interrupt(current, why)
    BY <1>9 DEF SynthesisFails
  <2>2. /\ pc = "synthesis" /\ pc' = "synthesis"
        /\ UNCHANGED <<launches, seeded, current, disk>> /\ UNCHANGED <<adaptive, limit, phase>>
    BY <1>9, <2>1 DEF SynthesisFails, Interrupt
  <2>3. TellsOf(history, current) /\ current \in Nat /\ current <= limit /\ why \in ErrorStops
    BY <2>2 DEF HistoryTellsOfTheRounds, TypeOK, ErrorStops
  <2>4. /\ history' \in Seq(Records) /\ stop' \in Stops /\ interrupted' \in BOOLEAN
        /\ TellsOf(history', current)
        /\ pending' \in Seq(Checkpoints) /\ CheckpointsTellOfTheirs' /\ RankingsOnlyGrow'
    BY <2>1, <2>2, <2>3, InterruptKeepsTelling
  <2>5. TypeOK'
    BY <2>2, <2>4 DEF TypeOK
  <2>6. HistoryTellsOfTheRounds'
    BY <2>2, <2>4 DEF HistoryTellsOfTheRounds
  <2> QED
    BY <2>4, <2>5, <2>6
<1>10. CASE Conclude
  <2> DEFINE c == LiveCheckpoint(current, history, phase)
  <2>1. /\ pc = "synthesis" /\ pc' = "persist" /\ pending' = Append(pending, c) /\ stop' \in Stops
        /\ UNCHANGED <<adaptive, launches, seeded, current, limit>>
        /\ UNCHANGED <<phase, interrupted, history, disk>>
    BY <1>10 DEF Conclude, TypeOK, Stops
  <2>2. TellsOf(history, current)
    BY <2>1 DEF HistoryTellsOfTheRounds
  <2>3. c \in Checkpoints /\ c.history = history /\ c.round = current
    <3>1. current \in 0..MaxRound
      BY DEF TypeOK
    <3> QED
      BY <3>1 DEF LiveCheckpoint, Checkpoints, TypeOK, Stops
  <2> HIDE DEF c
  <2>4. pending' \in Seq(Checkpoints) /\ CheckpointsTellOfTheirs' /\ RankingsOnlyGrow'
    BY <2>1, <2>2, <2>3, HandOverKeepsTheQueue
  <2>5. TypeOK'
    BY <2>1, <2>4 DEF TypeOK
  <2>6. HistoryTellsOfTheRounds'
    BY <2>1, <2>2 DEF HistoryTellsOfTheRounds
  <2> QED
    BY <2>4, <2>5, <2>6
<1>11. CASE Persist
  <2>1. /\ pc = "persist" /\ pc' = "done" /\ pending = <<>> /\ pending' = <<>>
        /\ disk' = FinalCheckpoint /\ UNCHANGED <<launches, seeded, budget>>
    BY <1>11 DEF Persist
  <2>2. FinalCheckpoint \in Checkpoints
        /\ FinalCheckpoint.history = history /\ FinalCheckpoint.round = current
    BY DEF FinalCheckpoint, Status, Checkpoints, TypeOK
  <2>3. TypeOK'
    BY <2>1, <2>2 DEF TypeOK, budget
  <2>4. HistoryTellsOfTheRounds'
    BY <2>1 DEF HistoryTellsOfTheRounds, budget
  <2>5. CheckpointsTellOfTheirs'
    BY <2>1, <2>2 DEF CheckpointsTellOfTheirs, HistoryTellsOfTheRounds
  <2>6. RankingsOnlyGrow'
    BY <2>1, EmptySeq DEF RankingsOnlyGrow
  <2> QED
    BY <2>3, <2>4, <2>5, <2>6
<1>12. CASE CheckpointLands
  <2>1. /\ pending' \in Seq(Checkpoints) /\ disk' \in Checkpoints
        /\ CheckpointsTellOfTheirs' /\ RankingsOnlyGrow'
    BY <1>12, LandingKeepsTheOrder
  <2>2. TypeOK'
    BY <1>12, <2>1 DEF CheckpointLands, TypeOK, budget
  <2>3. HistoryTellsOfTheRounds'
    BY <1>12 DEF CheckpointLands, HistoryTellsOfTheRounds, budget
  <2> QED
    BY <2>1, <2>2, <2>3
<1>13. CASE Crash
  <2>1. TypeOK'
    <3>1. Limit \in 1..MaxRound /\ 0 \in 0..Limit
      OBVIOUS
    <3> QED
      BY <1>13, <3>1, EmptyTells, EmptyQueue DEF Crash, TypeOK, Phases, Stops
  <2>2. HistoryTellsOfTheRounds'
    BY <1>13, EmptyTells DEF Crash, HistoryTellsOfTheRounds
  <2>3. CheckpointsTellOfTheirs'
    BY <1>13, EmptyQueue DEF Crash, CheckpointsTellOfTheirs
  <2>4. RankingsOnlyGrow'
    BY <1>13, EmptyQueue DEF Crash, RankingsOnlyGrow
  <2> QED
    BY <2>1, <2>2, <2>3, <2>4
<1>14. CASE ReturnStored
  <2>1. TypeOK'
    BY <1>14 DEF ReturnStored, MayResume, TypeOK, budget
  <2>2. HistoryTellsOfTheRounds'
    BY <1>14 DEF ReturnStored, MayResume, HistoryTellsOfTheRounds, budget
  <2>3. CheckpointsTellOfTheirs'
    BY <1>14 DEF ReturnStored, CheckpointsTellOfTheirs
  <2>4. RankingsOnlyGrow'
    BY <1>14 DEF ReturnStored, MayResume, RankingsOnlyGrow
  <2> QED
    BY <2>1, <2>2, <2>3, <2>4
<1>15. CASE Resume
  <2>1. PICK ask \in Extensions \union {0} : ResumeLimit(ask) <= MaxRound /\ limit' = ResumeLimit(ask)
    BY <1>15 DEF Resume
  <2>2. /\ pc \in {"down", "done"} /\ pc' = "loop" /\ launches < MaxLaunches
        /\ launches' = launches + 1 /\ current' = disk.round /\ phase' = disk.phase
        /\ history' = disk.history /\ stop' = "" /\ interrupted' = FALSE /\ seeded' \in BOOLEAN
        /\ UNCHANGED <<adaptive, pending, disk>> /\ pending = <<>>
    BY <1>15 DEF Resume, MayResume, RestoredHistory, RankingsOnlyGrow, TypeOK, Checkpoints
  <2>3. disk \in Checkpoints /\ disk.round \in 0..MaxRound /\ disk.limit \in 1..MaxRound
        /\ disk.phase \in Phases /\ disk.history \in Seq(Records)
    BY DEF TypeOK, Checkpoints
  <2>4. ask \in Nat
    OBVIOUS
  <2>5. limit' \in 1..MaxRound /\ disk.round <= limit'
    BY <2>1, <2>3, <2>4, SMTT(40) DEF ResumeLimit, Larger
  <2>6. current' \in 0..limit' /\ launches' \in 0..MaxLaunches
    <3>1. current' \in Nat /\ limit' \in Nat /\ current' <= limit'
      <4>1. disk.round \in Nat /\ limit' \in Nat
        BY <2>3, <2>5, RoundsAreNumbers
      <4> QED
        BY <2>2, <2>5, <4>1
    <3>2. launches' \in 0..MaxLaunches
      <4>1. launches \in 0..MaxLaunches /\ MaxLaunches \in Nat
        BY DEF TypeOK
      <4>2. launches < MaxLaunches /\ launches' = launches + 1
        BY <2>2
      <4> QED
        BY <4>1, <4>2
    <3> QED
      BY <3>1, <3>2
  <2>7. TypeOK'
    BY <2>2, <2>3, <2>5, <2>6 DEF TypeOK, Stops
  <2>8. HistoryTellsOfTheRounds'
    BY <2>2 DEF HistoryTellsOfTheRounds, CheckpointsTellOfTheirs
  <2>9. CheckpointsTellOfTheirs'
    BY <2>2 DEF CheckpointsTellOfTheirs
  <2>10. RankingsOnlyGrow'
    BY <2>2, EmptyQueue DEF RankingsOnlyGrow
  <2> QED
    BY <2>7, <2>8, <2>9, <2>10
<1>16. CASE UNCHANGED vars
  <2>1. TypeOK'
    BY <1>16 DEF vars, TypeOK
  <2>2. HistoryTellsOfTheRounds'
    BY <1>16 DEF vars, HistoryTellsOfTheRounds
  <2>3. CheckpointsTellOfTheirs'
    BY <1>16 DEF vars, CheckpointsTellOfTheirs
  <2>4. RankingsOnlyGrow'
    BY <1>16 DEF vars, RankingsOnlyGrow
  <2> QED
    BY <2>1, <2>2, <2>3, <2>4
<1> QED
  BY <1>1, <1>2, <1>3, <1>4, <1>5, <1>6, <1>7, <1>8, <1>9, <1>10, <1>11, <1>12, <1>13,
     <1>14, <1>15, <1>16 DEF Next

\* The invariant holds throughout every behaviour.
THEOREM Invariance == Spec => []IInv
  BY InitIInv, InductiveStep, PTL DEF Spec

---------------------------------------------------------------------------
(* What the runs check, for every value of the constants *)

\* The variables keep their types, and the budget never runs past its limit.
THEOREM TypeCorrect == Spec => []TypeOK
  BY Invariance, PTL DEF IInv

\* No history, in memory or on disk, ranks a round twice, however often the run was
\* interrupted, killed and resumed.
THEOREM NoRoundIsRankedTwice == Spec => []EachRoundRankedOnce
<1>1. IInv => EachRoundRankedOnce
  <2> SUFFICES ASSUME IInv, NEW hist \in {history, disk.history}
               PROVE  RankedCount(hist) = Cardinality(RankedRounds(hist))
    BY DEF EachRoundRankedOnce
  <2>1. history \in Seq(Records) /\ disk.history \in Seq(Records)
    BY DEF IInv, TypeOK, Checkpoints
  <2>2. RankedOnce(history) /\ RankedOnce(disk.history)
    BY DEF IInv, HistoryTellsOfTheRounds, CheckpointsTellOfTheirs, TellsOf
  <2> QED
    BY <2>1, <2>2, RankedOnceCounts
<1> QED
  BY <1>1, Invariance, PTL

\* The durable checkpoint has a record of every round it says is behind the run.
THEOREM CheckpointsExplainTheirRounds == Spec => []CheckpointExplainsItsRounds
<1>1. IInv => CheckpointExplainsItsRounds
  BY DEF IInv, CheckpointsTellOfTheirs, TellsOf, ExplainedUpTo, CheckpointExplainsItsRounds
<1> QED
  BY <1>1, Invariance, PTL

\* A round that is durably ranked stays in the history of every later checkpoint.
THEOREM DurableRankingsStay == Spec => RankedRoundsAreKept
<1> DEFINE Kept == RankedRounds(disk.history) \subseteq RankedRounds(disk'.history)
<1>1. IInv /\ [Next]_vars => [Kept]_vars
  <2> SUFFICES ASSUME IInv, [Next]_vars PROVE Kept
    OBVIOUS
  <2>1. CASE UNCHANGED disk
    BY <2>1
  <2>2. CASE Persist
    BY <2>2 DEF IInv, Persist, FinalCheckpoint, RankingsOnlyGrow
  <2>3. CASE CheckpointLands
    BY <2>3, LandingKeepsTheOrder, SMTT(40) DEF IInv
  <2>4. CASE ~UNCHANGED disk /\ ~Persist /\ ~CheckpointLands
    BY <2>4 DEF Next, vars, budget, Launch, SeedingFailed, CancelRound, StartRound, LoopEnds, Evaluate,
                Reproduce, RoundFails, SynthesisFails, Conclude, Crash, ReturnStored, Resume
  <2> QED
    BY <2>1, <2>2, <2>3, <2>4
<1> QED
  BY <1>1, Invariance, PTL DEF Spec, RankedRoundsAreKept

===============================================================================
