---------------------------- MODULE GenerationProofs ----------------------------
(***************************************************************************)
(* The safety of Generation for any number of candidates: the lanes of the *)
(* archives follow the fates, the compactions lose nobody and spare the    *)
(* newborn, a population never dies out, the recorded plans replay, and    *)
(* the best answer stays.                                                  *)
(*                                                                         *)
(* An update of the archives routes the candidates one after another: it   *)
(* is a function by recursion over their numbers.  Induction is the one    *)
(* principle of recursion used here; UpdateUnfolds derives the recursive   *)
(* equations from it, and the effects of an update follow by induction on  *)
(* the candidates routed.                                                  *)
(***************************************************************************)
EXTENDS Generation, FiniteSetTheorems, SequenceTheorems, WellFoundedInduction, TLAPS

\* A set of numbers that has 0 and the successor of each of its members has them all.
LEMMA Induction ==
  ASSUME NEW S, 0 \in S, \A n \in Nat : n \in S => n + 1 \in S
  PROVE  \A n \in Nat : n \in S
<1> SUFFICES ASSUME NEW k \in Nat, k \notin S PROVE FALSE
  OBVIOUS
<1> DEFINE T == Nat \ S
<1>1. PICK n \in T : \A m \in T : <<m, n>> \notin OpToRel(<, Nat)
  BY NatLessThanWellFounded, WFMin
<1>2. \A m \in Nat : m < n => m \in S
  BY <1>1 DEF OpToRel
<1>3. n # 0
  OBVIOUS
<1>4. n - 1 \in Nat /\ n - 1 < n /\ (n - 1) + 1 = n
  BY <1>3
<1> QED
  BY <1>2, <1>4

\* The candidates are numbered from 1 to a number.
LEMMA CandsAreNumbers ==
  /\ Cardinality(Cands) \in Nat /\ Cands = 1 .. Cardinality(Cands) /\ 0 \notin Cands
<1>1. Cardinality(Cands) \in Nat
  BY ArchivesAssumption, FS_CardinalityType
<1>2. Cands = 1 .. Cardinality(Cands)
  BY ArchivesAssumption
<1> QED
  BY <1>1, <1>2

\* The recursive function of Update is what its definition says.
LEMMA UpdateUnfolds ==
  ASSUME NEW A, NEW bodies, NEW ids
  PROVE  \E f : /\ f = [c \in {0} \union Cands |->
                          IF c = 0 THEN A
                          ELSE IF c \in ids THEN UpdateOne(f[c - 1], c, bodies[c]) ELSE f[c - 1]]
                /\ Update(A, bodies, ids) = f[Cardinality(Cands)]
<1> DEFINE P(m) == \E f : f = [c \in 0 .. m |->
                          IF c = 0 THEN A
                          ELSE IF c \in ids THEN UpdateOne(f[c - 1], c, bodies[c]) ELSE f[c - 1]]
           S == {m \in Nat : P(m)}
<1>1. 0 \in S
  <2> DEFINE f == [c \in 0 .. 0 |-> A]
  <2>1. f = [c \in 0 .. 0 |->
                          IF c = 0 THEN A
                          ELSE IF c \in ids THEN UpdateOne(f[c - 1], c, bodies[c]) ELSE f[c - 1]]
    OBVIOUS
  <2> QED
    BY <2>1
<1>2. ASSUME NEW m \in Nat, m \in S PROVE m + 1 \in S
  <2>1. PICK f : f = [c \in 0 .. m |->
                          IF c = 0 THEN A
                          ELSE IF c \in ids THEN UpdateOne(f[c - 1], c, bodies[c]) ELSE f[c - 1]]
    BY <1>2
  <2> DEFINE last == IF m + 1 \in ids THEN UpdateOne(f[m], m + 1, bodies[m + 1]) ELSE f[m]
             g == [c \in 0 .. m + 1 |-> IF c = m + 1 THEN last ELSE f[c]]
             h == [c \in 0 .. m + 1 |->
                          IF c = 0 THEN A
                          ELSE IF c \in ids THEN UpdateOne(g[c - 1], c, bodies[c]) ELSE g[c - 1]]
  <2>2. \A c \in 0 .. m : g[c] = f[c]
    OBVIOUS
  <2>3. g[m + 1] = last
    OBVIOUS
  <2>4. ASSUME NEW c \in 0 .. m + 1 PROVE g[c] = h[c]
    <3>1. CASE c = 0
      <4>1. f[0] = A
        BY <2>1
      <4> QED
        BY <3>1, <4>1, <2>2
    <3>2. CASE c = m + 1
      <4>1. g[c - 1] = f[m]
        BY <3>2, <2>2
      <4>2. c # 0
        BY <3>2
      <4> QED
        BY <3>2, <4>1, <4>2, <2>3
    <3>3. CASE c \in 1 .. m
      <4>1. g[c - 1] = f[c - 1] /\ g[c] = f[c]
        BY <3>3, <2>2
      <4>2. f[c] = IF c \in ids THEN UpdateOne(f[c - 1], c, bodies[c]) ELSE f[c - 1]
        BY <3>3, <2>1
      <4> QED
        BY <3>3, <4>1, <4>2
    <3> QED
      BY <3>1, <3>2, <3>3
  <2>5. g = h
    BY <2>4
  <2> HIDE DEF g
  <2>6. P(m + 1)
    BY <2>5
  <2> QED
    BY <2>6
<1>3. P(Cardinality(Cands))
  <2> HIDE DEF P
  <2>1. \A n \in Nat : n \in S
    BY <1>1, <1>2, Induction
  <2> QED
    BY <2>1, CandsAreNumbers
<1>4. 0 .. Cardinality(Cands) = {0} \union Cands
  BY CandsAreNumbers
<1>5. \E f : f = [c \in {0} \union Cands |->
                          IF c = 0 THEN A
                          ELSE IF c \in ids THEN UpdateOne(f[c - 1], c, bodies[c]) ELSE f[c - 1]]
  BY <1>3, <1>4
<1> QED
  BY <1>5 DEF Update

\* The archives stay archives when a candidate is taken out of its lanes, and its lanes are
\* empty then.
LEMMA RemovalEffect ==
  ASSUME NEW A \in ArchiveStates, NEW c \in Cands
  PROVE  LET R == RemoveCandidate(A, c)
         IN  /\ R \in ArchiveStates /\ R.fate = A.fate /\ R.frozen = A.frozen /\ R.cell = A.cell
             /\ \A d \in Cands \ {c} : SameLanes(A, R, d)
             /\ R.answer[c] = Absent /\ R.dormant[c] = Absent
             /\ c \notin R.aux /\ c \notin R.failure /\ c \notin R.tomb
             /\ \A n \in DOMAIN R.elite :
                   R.elite[n] = NoEntry \/ (R.elite[n] = A.elite[n] /\ A.elite[n].id # c)
<1> DEFINE R == RemoveCandidate(A, c)
           elite == [n \in DOMAIN A.elite |-> IF A.elite[n].id = c THEN NoEntry ELSE A.elite[n]]
<1>1. /\ A.fate \in [Cands -> Fates \union {"none"}]
      /\ A.answer \in [Cands -> Copies] /\ A.dormant \in [Cands -> Copies]
      /\ A.aux \in SUBSET Cands /\ A.failure \in SUBSET Cands /\ A.tomb \in SUBSET Cands
      /\ A.elite \in [UNION Range(Niches) -> Entries] /\ A.cell \in [Range(Cell) -> Entries]
      /\ A.frozen \in SUBSET Range(Root)
  BY DEF ArchiveStates
<1>2. R = [fate |-> A.fate, answer |-> [A.answer EXCEPT ![c] = Absent],
           dormant |-> [A.dormant EXCEPT ![c] = Absent], aux |-> A.aux \ {c},
           failure |-> A.failure \ {c}, tomb |-> A.tomb \ {c}, elite |-> elite,
           cell |-> A.cell, frozen |-> A.frozen]
  <2>1. R = [A EXCEPT !.answer = [A.answer EXCEPT ![c] = Absent],
                      !.dormant = [A.dormant EXCEPT ![c] = Absent], !.aux = A.aux \ {c},
                      !.failure = A.failure \ {c}, !.tomb = A.tomb \ {c}, !.elite = elite]
    BY DEF ArchiveStates, RemoveCandidate
  <2> HIDE DEF R, elite
  <2> QED
    BY <2>1 DEF ArchiveStates
<1>3. Absent \in Copies /\ NoEntry \in Entries
  BY DEF Copies, Entries
<1>4. elite \in [UNION Range(Niches) -> Entries]
  BY <1>1, <1>3
<1> HIDE DEF R, elite
<1>5. R \in ArchiveStates
  BY <1>1, <1>2, <1>3, <1>4 DEF ArchiveStates
<1>6. \A d \in Cands \ {c} : SameLanes(A, R, d)
  BY <1>1, <1>2 DEF SameLanes
<1>7. R.fate = A.fate /\ R.frozen = A.frozen /\ R.cell = A.cell /\ R.elite = elite
  BY <1>2
<1>8. /\ R.answer[c] = Absent /\ R.dormant[c] = Absent
      /\ c \notin R.aux /\ c \notin R.failure /\ c \notin R.tomb
  BY <1>1, <1>2
<1>9. \A n \in DOMAIN elite :
         elite[n] = NoEntry \/ (elite[n] = A.elite[n] /\ A.elite[n].id # c)
  BY DEF elite
<1> QED
  BY <1>5, <1>6, <1>7, <1>8, <1>9 DEF R

\* A new body of a candidate is a body.
LEMMA CopyOfBody == \A b \in Bodies : [b EXCEPT !.new = FALSE] \in Bodies /\ b # Absent
                                       /\ [b EXCEPT !.new = FALSE] # Absent
<1> SUFFICES ASSUME NEW b \in Bodies
             PROVE  /\ [b EXCEPT !.new = FALSE] \in Bodies /\ b # Absent
                    /\ [b EXCEPT !.new = FALSE] # Absent
  OBVIOUS
<1>1. "absent" \notin Fates
  BY DEF Fates, Answering, Terminal
<1>2. b.fate \in Fates /\ Absent.fate = "absent"
  BY DEF Bodies, Absent
<1>3. [b EXCEPT !.new = FALSE] \in Bodies /\ [b EXCEPT !.new = FALSE].fate = b.fate
  BY DEF Bodies
<1> QED
  BY <1>1, <1>2, <1>3

\* The lanes a routed candidate joins: the niches, the cell, and the lane of its fate.
LEMMA RouteEffect ==
  ASSUME NEW A \in ArchiveStates, NEW c \in Cands, NEW b \in Bodies
  PROVE  LET D == Route(A, c, b)
         IN  /\ D \in ArchiveStates /\ D.fate = A.fate /\ D.tomb = A.tomb
             /\ \A d \in Cands \ {c} : SameLanes(A, D, d)
             /\ D.answer[c] # Absent => A.answer[c] # Absent \/ b.fate = "elite"
             /\ D.dormant[c] # Absent => A.dormant[c] # Absent \/ b.fate = "dormant"
             /\ c \in D.aux => c \in A.aux \/ b.fate = "auxiliary"
             /\ b.fate \in Terminal \union {"dormant"} => c \in D.failure \/ D.dormant[c] # Absent
             /\ \A n \in DOMAIN D.elite :
                   D.elite[n] = A.elite[n] \/ (D.elite[n].id = c /\ b.fate \notin Terminal)
<1> DEFINE copy == [b EXCEPT !.new = FALSE]
           stored == [id |-> c, body |-> copy]
           elite == [n \in DOMAIN A.elite |-> IF n \in Niches[c] /\ Beats(c, A.elite[n])
                                              THEN stored ELSE A.elite[n]]
           cell == [A.cell EXCEPT ![Cell[c]] = IF Beats(c, @) THEN stored ELSE @]
           D == Route(A, c, b)
<1>1. /\ A.fate \in [Cands -> Fates \union {"none"}]
      /\ A.answer \in [Cands -> Copies] /\ A.dormant \in [Cands -> Copies]
      /\ A.aux \in SUBSET Cands /\ A.failure \in SUBSET Cands /\ A.tomb \in SUBSET Cands
      /\ A.elite \in [UNION Range(Niches) -> Entries] /\ A.cell \in [Range(Cell) -> Entries]
      /\ A.frozen \in SUBSET Range(Root)
  BY DEF ArchiveStates
<1>2. copy \in Bodies /\ copy # Absent
  BY CopyOfBody
<1>3. stored \in Entries /\ copy \in Copies
  BY <1>2 DEF Entries, Copies
<1>4. elite \in [UNION Range(Niches) -> Entries]
  <2> HIDE DEF stored
  <2> QED
    BY <1>1, <1>3
<1>5. cell \in [Range(Cell) -> Entries]
  <2> HIDE DEF stored
  <2> QED
    BY <1>1, <1>3
<1>6. CASE b.fate \in Terminal \/ c \in Negative
  <2>1. D = [A EXCEPT !.failure = @ \union {c}]
    BY <1>6 DEF Route
  <2>2. D = [fate |-> A.fate, answer |-> A.answer, dormant |-> A.dormant, aux |-> A.aux,
             failure |-> A.failure \union {c}, tomb |-> A.tomb, elite |-> A.elite,
             cell |-> A.cell, frozen |-> A.frozen]
    BY <2>1 DEF ArchiveStates
  <2> HIDE DEF D
  <2>3. D \in ArchiveStates
    BY <1>1, <2>2 DEF ArchiveStates
  <2>4. \A d \in Cands \ {c} : SameLanes(A, D, d)
    BY <2>2 DEF SameLanes
  <2>5. /\ D.fate = A.fate /\ D.tomb = A.tomb /\ D.answer = A.answer /\ D.dormant = A.dormant
        /\ D.aux = A.aux /\ D.elite = A.elite /\ c \in D.failure
    BY <2>2
  <2> QED
    BY <2>3, <2>4, <2>5 DEF D
<1>7. CASE ~(b.fate \in Terminal \/ c \in Negative)
  <2> DEFINE answer == [A.answer EXCEPT ![c] = IF b.fate = "elite" /\ c \notin SourceBlocked
                                               THEN copy ELSE @]
             dormant == [A.dormant EXCEPT ![c] = IF b.fate = "dormant" THEN copy ELSE @]
             aux == IF b.fate = "auxiliary" THEN A.aux \union {c} ELSE A.aux
  <2>1. D = [fate |-> A.fate, answer |-> answer, dormant |-> dormant, aux |-> aux,
             failure |-> A.failure, tomb |-> A.tomb, elite |-> elite,
             cell |-> cell, frozen |-> A.frozen]
    BY <1>7 DEF Route, UpdateDiversity, ArchiveStates
  <2>2. answer \in [Cands -> Copies] /\ dormant \in [Cands -> Copies] /\ aux \in SUBSET Cands
    <3> HIDE DEF copy
    <3> QED
      BY <1>1, <1>3
  <2>3. /\ \A d \in Cands \ {c} : answer[d] = A.answer[d] /\ dormant[d] = A.dormant[d]
                                    /\ (d \in aux <=> d \in A.aux)
        /\ answer[c] # A.answer[c] => b.fate = "elite"
        /\ dormant[c] # A.dormant[c] => b.fate = "dormant"
        /\ b.fate = "dormant" => dormant[c] = copy
        /\ c \in aux => c \in A.aux \/ b.fate = "auxiliary"
    <3> HIDE DEF copy
    <3> QED
      BY <1>1
  <2>4. \A n \in DOMAIN elite : elite[n] = A.elite[n] \/ elite[n].id = c
    OBVIOUS
  <2> HIDE DEF D, answer, dormant, aux, elite, cell, copy
  <2>5. D \in ArchiveStates
    BY <1>1, <1>4, <1>5, <2>1, <2>2 DEF ArchiveStates
  <2>6. /\ D.fate = A.fate /\ D.tomb = A.tomb /\ D.failure = A.failure /\ D.answer = answer
        /\ D.dormant = dormant /\ D.aux = aux /\ D.elite = elite
    BY <2>1
  <2>7. \A d \in Cands \ {c} : SameLanes(A, D, d)
    BY <2>3, <2>6 DEF SameLanes
  <2>8. b.fate = "dormant" => D.dormant[c] # Absent
    BY <1>2, <2>3, <2>6
  <2> QED
    BY <1>7, <2>3, <2>4, <2>5, <2>6, <2>7, <2>8 DEF D
<1> QED
  BY <1>6, <1>7

\* One assignment of an update routes its candidate and no other.
LEMMA UpdateOneRoutes ==
  ASSUME NEW A \in ArchiveStates, NEW c \in Cands, NEW b \in Bodies
  PROVE  LET B == UpdateOne(A, c, b)
         IN  /\ B \in ArchiveStates
             /\ \A d \in Cands \ {c} : SameLanes(A, B, d)
             /\ LanesOf(B, c, b.fate)
             /\ \A n \in DOMAIN B.elite :
                   \/ B.elite[n] = NoEntry
                   \/ B.elite[n].id = c /\ b.fate \notin Terminal
                   \/ B.elite[n] = A.elite[n] /\ A.elite[n].id # c
<1> DEFINE I == [A EXCEPT !.fate[c] = b.fate]
           R == RemoveCandidate(I, c)
           T == IF b.fate \in Terminal THEN [R EXCEPT !.tomb = @ \union {c}] ELSE R
           D == Route(T, c, b)
           B == UpdateOne(A, c, b)
<1>1. b.fate \in Fates
  BY DEF Bodies
<1>2. /\ I \in ArchiveStates /\ I.fate[c] = b.fate /\ I.elite = A.elite
      /\ \A d \in Cands \ {c} : SameLanes(A, I, d)
  BY <1>1 DEF ArchiveStates, SameLanes
<1> HIDE DEF I
<1>3. /\ R \in ArchiveStates /\ R.fate = I.fate
      /\ \A d \in Cands \ {c} : SameLanes(I, R, d)
      /\ R.answer[c] = Absent /\ R.dormant[c] = Absent
      /\ c \notin R.aux /\ c \notin R.failure /\ c \notin R.tomb
      /\ \A n \in DOMAIN R.elite :
            R.elite[n] = NoEntry \/ (R.elite[n] = I.elite[n] /\ I.elite[n].id # c)
  BY <1>2, RemovalEffect
<1> HIDE DEF R
<1>4. /\ T \in ArchiveStates /\ T.fate = R.fate /\ T.answer = R.answer /\ T.dormant = R.dormant
      /\ T.aux = R.aux /\ T.failure = R.failure /\ T.elite = R.elite
      /\ \A d \in Cands \ {c} : d \in T.tomb <=> d \in R.tomb
      /\ c \in T.tomb <=> b.fate \in Terminal
  <2>1. CASE b.fate \in Terminal
    BY <1>3, <2>1 DEF ArchiveStates
  <2>2. CASE b.fate \notin Terminal
    BY <1>3, <2>2
  <2> QED
    BY <2>1, <2>2
<1> HIDE DEF T
<1>5. /\ D \in ArchiveStates /\ D.fate = T.fate /\ D.tomb = T.tomb
      /\ \A d \in Cands \ {c} : SameLanes(T, D, d)
      /\ D.answer[c] # Absent => T.answer[c] # Absent \/ b.fate = "elite"
      /\ D.dormant[c] # Absent => T.dormant[c] # Absent \/ b.fate = "dormant"
      /\ c \in D.aux => c \in T.aux \/ b.fate = "auxiliary"
      /\ b.fate \in Terminal \union {"dormant"} => c \in D.failure \/ D.dormant[c] # Absent
      /\ \A n \in DOMAIN D.elite :
            D.elite[n] = T.elite[n] \/ (D.elite[n].id = c /\ b.fate \notin Terminal)
  BY <1>4, RouteEffect
<1> HIDE DEF D
<1>6. /\ B \in ArchiveStates /\ B.fate = D.fate /\ B.answer = D.answer /\ B.dormant = D.dormant
      /\ B.aux = D.aux /\ B.failure = D.failure /\ B.tomb = D.tomb /\ B.elite = D.elite
  <2>1. B = RecordConstraints(D, c, b)
    BY DEF UpdateOne, D, T, R, I
  <2>2. Root[c] \in Range(Root)
    BY ArchivesAssumption DEF Range
  <2>3. CASE b.fate \in Terminal /\ Blocked(b) /\ c \notin Delta
    <3>1. B = [D EXCEPT !.frozen = @ \union {Root[c]}]
      BY <2>1, <2>3 DEF RecordConstraints
    <3> HIDE DEF B
    <3> QED
      BY <1>5, <2>2, <3>1 DEF ArchiveStates
  <2>4. CASE ~(b.fate \in Terminal /\ Blocked(b) /\ c \notin Delta)
    BY <1>5, <2>1, <2>4 DEF RecordConstraints
  <2> QED
    BY <2>3, <2>4
<1> HIDE DEF B
<1>7. \A d \in Cands \ {c} : SameLanes(A, B, d)
  BY <1>2, <1>3, <1>4, <1>5, <1>6 DEF SameLanes
<1>8. LanesOf(B, c, b.fate)
  BY <1>2, <1>3, <1>4, <1>5, <1>6 DEF LanesOf
<1>9. ASSUME NEW n \in DOMAIN B.elite
      PROVE  \/ B.elite[n] = NoEntry
             \/ B.elite[n].id = c /\ b.fate \notin Terminal
             \/ B.elite[n] = A.elite[n] /\ A.elite[n].id # c
  <2>1. DOMAIN B.elite = DOMAIN R.elite /\ DOMAIN D.elite = DOMAIN R.elite
    BY <1>3, <1>5, <1>6 DEF ArchiveStates
  <2> QED
    BY <1>2, <1>3, <1>4, <1>5, <1>6, <2>1
<1> QED
  BY <1>6, <1>7, <1>8, <1>9 DEF B

\* An update routes the candidates it names, in the order of their births, and no other.
LEMMA UpdateRoutes ==
  ASSUME NEW A \in ArchiveStates, NEW ids \in SUBSET Cands, NEW bodies,
         \A c \in ids : bodies[c] \in Bodies
  PROVE  Routed(A, Update(A, bodies, ids), bodies, ids)
<1> DEFINE N == Cardinality(Cands)
<1>1. N \in Nat /\ Cands = 1 .. N
  BY CandsAreNumbers
<1>2. PICK f : /\ f = [c \in {0} \union Cands |->
                          IF c = 0 THEN A
                          ELSE IF c \in ids THEN UpdateOne(f[c - 1], c, bodies[c]) ELSE f[c - 1]]
               /\ Update(A, bodies, ids) = f[N]
  BY UpdateUnfolds
<1> HIDE DEF N
<1> DEFINE upTo(n) == ids \intersect (1 .. n)
           S == {n \in Nat : n <= N => Routed(A, f[n], bodies, upTo(n))}
<1>3. 0 \in S
  <2>1. f[0] = A /\ upTo(0) = {}
    BY <1>1, <1>2
  <2>2. Routed(A, A, bodies, {})
    BY DEF Routed, SameLanes
  <2> QED
    BY <2>1, <2>2
<1>4. ASSUME NEW n \in Nat, n \in S PROVE n + 1 \in S
  <2> SUFFICES ASSUME n + 1 <= N PROVE Routed(A, f[n + 1], bodies, upTo(n + 1))
    OBVIOUS
  <2> DEFINE c == n + 1
  <2>1. c \in Cands /\ c # 0 /\ c - 1 = n
    BY <1>1
  <2>2. Routed(A, f[n], bodies, upTo(n))
    BY <1>4, <1>1
  <2>3. f[c] = IF c \in ids THEN UpdateOne(f[n], c, bodies[c]) ELSE f[n]
    BY <1>2, <2>1
  <2>4. CASE c \notin ids
    <3>1. upTo(n + 1) = upTo(n) /\ f[c] = f[n]
      BY <2>3, <2>4
    <3> QED
      BY <2>2, <3>1
  <2>5. CASE c \in ids
    <3>1. upTo(n + 1) = upTo(n) \union {c} /\ c \notin upTo(n)
      BY <2>5
    <3>2. f[c] = UpdateOne(f[n], c, bodies[c]) /\ bodies[c] \in Bodies
      BY <2>3, <2>5
    <3> HIDE DEF c, upTo
    <3>3. /\ f[c] \in ArchiveStates
          /\ \A d \in Cands \ {c} : SameLanes(f[n], f[c], d)
          /\ LanesOf(f[c], c, bodies[c].fate)
          /\ \A k \in DOMAIN f[c].elite :
                \/ f[c].elite[k] = NoEntry
                \/ f[c].elite[k].id = c /\ bodies[c].fate \notin Terminal
                \/ f[c].elite[k] = f[n].elite[k] /\ f[n].elite[k].id # c
      BY <2>1, <2>2, <3>2, UpdateOneRoutes DEF Routed
    <3>4. \A d \in Cands \ (upTo(n) \union {c}) : SameLanes(A, f[c], d)
      BY <2>2, <3>3 DEF Routed, SameLanes
    <3>5. \A d \in upTo(n) : LanesOf(f[c], d, bodies[d].fate)
      <4>1. \A d \in upTo(n) : d \in Cands \ {c}
        BY <3>1 DEF upTo
      <4> QED
        BY <2>2, <3>3, <4>1 DEF Routed, SameLanes, LanesOf
    <3>6. ASSUME NEW k \in DOMAIN f[c].elite
          PROVE  LET e == f[c].elite[k]
                 IN  \/ e = NoEntry
                     \/ e.id \in upTo(n) \union {c} /\ bodies[e.id].fate \notin Terminal
                     \/ e = A.elite[k] /\ e.id \notin upTo(n) \union {c}
      <4>1. k \in DOMAIN f[n].elite
        BY <2>2, <3>3 DEF Routed, ArchiveStates
      <4> QED
        BY <2>2, <3>3, <4>1 DEF Routed
    <3>7. Routed(A, f[c], bodies, upTo(n) \union {c})
      BY <3>3, <3>4, <3>5, <3>6 DEF Routed
    <3> QED
      BY <3>1, <3>7 DEF c
  <2> QED
    BY <2>4, <2>5
<1>5. N \in S
  <2> HIDE DEF S
  <2> QED
    BY <1>1, <1>3, <1>4, Induction
<1>6. Routed(A, f[N], bodies, upTo(N))
  BY <1>1, <1>5
<1>7. upTo(N) = ids
  BY <1>1
<1> QED
  BY <1>2, <1>6, <1>7 DEF N

\* Routing keeps the lanes in agreement with the fates.
LEMMA RoutingKeepsLanes ==
  ASSUME NEW A \in ArchiveStates, LanesAgree(A), NEW ids \in SUBSET Cands, NEW bodies, NEW B,
         Routed(A, B, bodies, ids)
  PROVE  LanesAgree(B)
<1>1. /\ B \in ArchiveStates
      /\ \A c \in Cands \ ids : SameLanes(A, B, c)
      /\ \A c \in ids : LanesOf(B, c, bodies[c].fate)
  BY DEF Routed
<1>2. ASSUME NEW c \in Cands
      PROVE  /\ B.answer[c] # Absent => B.fate[c] = "elite"
             /\ B.dormant[c] # Absent => B.fate[c] = "dormant"
             /\ c \in B.aux => B.fate[c] = "auxiliary"
             /\ c \in B.tomb <=> B.fate[c] \in Terminal
  <2>1. CASE c \in ids
    BY <1>1, <2>1 DEF LanesOf
  <2>2. CASE c \notin ids
    BY <1>1, <2>2 DEF SameLanes, LanesAgree, Held
  <2> QED
    BY <2>1, <2>2
<1>3. B.tomb = {c \in Cands : B.fate[c] \in Terminal}
  BY <1>1, <1>2 DEF ArchiveStates
<1>4. B.aux \subseteq Cands
  BY <1>1 DEF ArchiveStates
<1>5. ASSUME NEW e \in Range(B.elite), e # NoEntry PROVE B.fate[e.id] \notin Terminal
  <2>1. PICK n \in DOMAIN B.elite : e = B.elite[n]
    BY DEF Range
  <2>2. e.id \in Cands /\ n \in DOMAIN A.elite /\ B.elite[n] \in Entries
    BY <1>1, <1>5, <2>1 DEF ArchiveStates, Entries
  <2>3. \/ e.id \in ids /\ bodies[e.id].fate \notin Terminal
        \/ e = A.elite[n] /\ e.id \notin ids
    BY <1>5, <2>1 DEF Routed
  <2>4. CASE e.id \in ids /\ bodies[e.id].fate \notin Terminal
    BY <1>1, <2>4 DEF LanesOf
  <2>5. CASE e = A.elite[n] /\ e.id \notin ids
    <3>1. A.fate[e.id] \notin Terminal
      BY <1>5, <2>2, <2>5 DEF LanesAgree, Range
    <3> QED
      BY <1>1, <2>2, <2>5, <3>1 DEF SameLanes
  <2> QED
    BY <2>3, <2>4, <2>5
<1> QED
  BY <1>2, <1>3, <1>4, <1>5 DEF LanesAgree, Held

\* The capacity leaves somebody of those that compete.
LEMMA SomeSurvive ==
  ASSUME NEW S, NEW T \in Survivors(S)
  PROVE  T \subseteq S /\ (S # {} => T # {})
<1>1. T \subseteq S
  BY DEF Survivors
<1>2. ASSUME NEW c \in S, T = {} PROVE FALSE
  <2>1. \E x : CellElites <= Cardinality({d \in T \intersect x : Final[d] >= Final[c]})
    BY <1>2 DEF Survivors
  <2>2. \A x : {d \in T \intersect x : Final[d] >= Final[c]} = {}
    BY <1>2
  <2>3. Cardinality({}) = 0 /\ CellElites \in Nat \ {0}
    BY FS_EmptySet, GenerationAssumption
  <2> QED
    BY <2>1, <2>2, <2>3
<1> QED
  BY <1>1, <1>2

\* A body that is given a fate is a body, and somebody.
LEMMA BodyWithFate ==
  \A b \in Bodies, f \in Fates :
     [b EXCEPT !.fate = f] \in Bodies /\ [b EXCEPT !.fate = f] # Absent
<1> SUFFICES ASSUME NEW b \in Bodies, NEW f \in Fates
             PROVE  [b EXCEPT !.fate = f] \in Bodies /\ [b EXCEPT !.fate = f] # Absent
  OBVIOUS
<1>1. [b EXCEPT !.fate = f] \in Bodies
  BY DEF Bodies
<1> QED
  BY <1>1, CopyOfBody

\* What a compaction does: it tombstones and parks on record, loses nobody, and keeps
\* somebody whom it must not end.
LEMMA CompactionEffect ==
  ASSUME NEW p \in [Cands -> Copies], NEW A \in ArchiveStates, NEW after \in Compactions(p, A)
  PROVE  /\ after.pool \in [Cands -> Copies] /\ after.arch \in ArchiveStates
         /\ LanesAgree(A) => LanesAgree(after.arch)
         /\ Held(after.pool) \subseteq Held(p)
         /\ \A c \in (Cands \ Held(p)) \union Held(after.pool) : SameLanes(A, after.arch, c)
         /\ \A c \in Held(p) \ Held(after.pool) :
               c \in after.arch.failure \/ after.arch.dormant[c] # Absent
         /\ (\A c \in Held(p) : p[c].fate \in Terminal => A.fate[c] \in Terminal) =>
               /\ \A c \in Held(after.pool) :
                     after.pool[c].fate \in Terminal => after.arch.fate[c] \in Terminal
               /\ (\E c \in Held(p) : /\ p[c].fate \notin Terminal
                                      /\ ~(A.fate[c] \in Terminal /\ Blocked(p[c])))
                  => \E c \in Held(after.pool) :
                        /\ after.pool[c].fate \notin Terminal
                        /\ ~(after.arch.fate[c] \in Terminal /\ Blocked(after.pool[c]))
<1> DEFINE doomed == Doomed(p, A)
           indexed == [c \in Cands |-> [p[c] EXCEPT !.fate = IndexFate(A, c, p[c])]]
           tombs == Update(A, indexed, doomed)
           kept == Retained(p, A)
           parked == [c \in Cands |-> [kept[c] EXCEPT !.fate = "dormant"]]
<1>p. PICK turned \in Parkings(kept, tombs) :
         after = [pool |-> [c \in Cands |-> IF c \in turned THEN Absent ELSE kept[c]],
                  arch |-> Update(tombs, parked, turned)]
  BY DEF Compactions
<1>a. PICK a \in BestAnswers(tombs, kept) :
         \E s \in Survivors(Held(kept) \ Protected(kept, tombs, a)) :
            turned = (Held(kept) \ Protected(kept, tombs, a)) \ s
  BY DEF Parkings
<1> DEFINE competing == Held(kept) \ Protected(kept, tombs, a)
<1>1. PICK s \in Survivors(competing) :
         after = [pool |-> [c \in Cands |-> IF c \in competing \ s THEN Absent ELSE kept[c]],
                  arch |-> Update(tombs, parked, competing \ s)]
  BY <1>p, <1>a
<1> DEFINE away == competing \ s
<1>2. s \subseteq competing /\ (competing # {} => s # {})
  BY SomeSurvive, ZenonT(40)
<1>3. \A c \in Held(p) : p[c] \in Bodies
  BY DEF Held, Copies
<1>4. \A c \in Held(p) : IndexFate(A, c, p[c]) \in Fates
  <2> SUFFICES ASSUME NEW c \in Held(p) PROVE IndexFate(A, c, p[c]) \in Fates
    OBVIOUS
  <2>1. p[c].fate \in Fates /\ A.fate[c] \in Fates \union {"none"}
    BY <1>3 DEF Bodies, ArchiveStates, Held
  <2> QED
    BY <2>1 DEF IndexFate
<1>5. doomed \subseteq Held(p) /\ Held(p) \subseteq Cands
  BY DEF Doomed, Held
<1>6. \A c \in doomed : indexed[c] \in Bodies /\ indexed[c].fate \in Terminal
  <2> SUFFICES ASSUME NEW c \in doomed
               PROVE  indexed[c] \in Bodies /\ indexed[c].fate \in Terminal
    OBVIOUS
  <2>1. c \in Cands /\ c \in Held(p) /\ IndexFate(A, c, p[c]) \in Terminal
    BY <1>5 DEF Doomed
  <2>2. indexed[c] = [p[c] EXCEPT !.fate = IndexFate(A, c, p[c])]
    BY <2>1
  <2>3. indexed[c].fate = IndexFate(A, c, p[c])
    BY <1>3, <2>1, <2>2 DEF Bodies
  <2> QED
    BY <1>3, <1>4, <2>1, <2>2, <2>3, BodyWithFate
<1>7. Routed(A, tombs, indexed, doomed)
  <2> HIDE DEF indexed, doomed
  <2> QED
    BY <1>5, <1>6, UpdateRoutes
<1>8. /\ kept \in [Cands -> Copies] /\ Held(kept) = Held(p) \ doomed
      /\ \A c \in Held(kept) :
            /\ kept[c].verdict = p[c].verdict /\ Awaiting(kept[c]) = Awaiting(p[c])
            /\ \/ kept[c] = p[c] /\ (Awaiting(p[c]) \/ IndexFate(A, c, p[c]) \notin Terminal)
               \/ kept[c].fate = "dormant" /\ ~Blocked(p[c])
  <2>1. "dormant" \in Fates
    BY DEF Fates
  <2>2. ASSUME NEW c \in Cands
        PROVE  /\ kept[c] \in Copies
               /\ c \in Held(kept) <=> c \in Held(p) \ doomed
               /\ c \in Held(kept) =>
                    /\ kept[c].verdict = p[c].verdict /\ Awaiting(kept[c]) = Awaiting(p[c])
                    /\ \/ kept[c] = p[c] /\ (Awaiting(p[c]) \/ IndexFate(A, c, p[c]) \notin Terminal)
                       \/ kept[c].fate = "dormant" /\ ~Blocked(p[c])
    <3>1. CASE c \in doomed
      <4>1. kept[c] = Absent
        BY <3>1 DEF Retained
      <4> QED
        BY <3>1, <4>1 DEF Copies, Held
    <3>2. CASE c \notin doomed /\ p[c] = Absent
      <4>1. kept[c] = Absent
        BY <3>2 DEF Retained
      <4> QED
        BY <3>2, <4>1 DEF Copies, Held
    <3>3. CASE c \notin doomed /\ p[c] # Absent /\ ~Awaiting(p[c]) /\ IndexFate(A, c, p[c]) \in Terminal
      <4>1. kept[c] = [p[c] EXCEPT !.fate = "dormant"]
        BY <3>3 DEF Retained
      <4>2. c \in Held(p) /\ p[c] \in Bodies /\ ~Blocked(p[c])
        BY <1>3, <3>3 DEF Held, Doomed
      <4>3. kept[c] \in Bodies /\ kept[c] # Absent
        BY <2>1, <4>1, <4>2, BodyWithFate
      <4>4. /\ kept[c].fate = "dormant" /\ kept[c].verdict = p[c].verdict
            /\ Awaiting(kept[c]) = Awaiting(p[c])
        BY <4>1, <4>2 DEF Bodies, Awaiting
      <4> QED
        BY <3>3, <4>2, <4>3, <4>4 DEF Copies, Held
    <3>4. CASE c \notin doomed /\ p[c] # Absent /\ (Awaiting(p[c]) \/ IndexFate(A, c, p[c]) \notin Terminal)
      <4>1. kept[c] = p[c]
        BY <3>4 DEF Retained
      <4> QED
        BY <3>4, <4>1 DEF Held
    <3> QED
      BY <3>1, <3>2, <3>3, <3>4
  <2>3. kept \in [Cands -> Copies]
    <3>1. kept = [c \in Cands |-> kept[c]]
      BY DEF Retained
    <3> HIDE DEF kept
    <3> QED
      BY <2>2, <3>1
  <2> HIDE DEF kept, doomed
  <2>4. Held(kept) = Held(p) \ doomed
    BY <2>2 DEF Held
  <2> QED
    BY <2>2, <2>3, <2>4 DEF Held
<1> HIDE DEF doomed, indexed, tombs, kept
<1>9. away \subseteq Held(kept) /\ Held(kept) \subseteq Cands
  BY DEF Held
<1>10. \A c \in away : parked[c] \in Bodies /\ parked[c].fate = "dormant"
  <2> SUFFICES ASSUME NEW c \in away PROVE parked[c] \in Bodies /\ parked[c].fate = "dormant"
    OBVIOUS
  <2>1. c \in Cands /\ kept[c] \in Bodies
    BY <1>8, <1>9 DEF Held, Copies
  <2>2. parked[c] = [kept[c] EXCEPT !.fate = "dormant"]
    BY <2>1
  <2>3. "dormant" \in Fates
    BY DEF Fates
  <2> QED
    BY <2>1, <2>2, <2>3, BodyWithFate DEF Bodies
<1> HIDE DEF competing, away, parked
<1>11. Routed(tombs, after.arch, parked, away)
  <2>1. tombs \in ArchiveStates
    BY <1>7 DEF Routed
  <2>2. away \in SUBSET Cands
    BY <1>9
  <2>3. after.arch = Update(tombs, parked, away)
    BY <1>1 DEF away
  <2> QED
    BY <1>10, <2>1, <2>2, <2>3, UpdateRoutes
<1>12. after.pool = [c \in Cands |-> IF c \in away THEN Absent ELSE kept[c]]
  BY <1>1 DEF away
<1>13. after.pool \in [Cands -> Copies]
  <2>1. Absent \in Copies
    BY DEF Copies
  <2> QED
    BY <1>8, <1>12, <2>1
<1>14. Held(after.pool) = Held(kept) \ away /\ \A c \in Held(after.pool) : after.pool[c] = kept[c]
  BY <1>12 DEF Held
<1>15. LanesAgree(A) => LanesAgree(after.arch)
  <2>1. tombs \in ArchiveStates /\ doomed \in SUBSET Cands /\ away \in SUBSET Cands
    BY <1>5, <1>7, <1>9 DEF Routed
  <2> QED
    BY <2>1, <1>7, <1>11, RoutingKeepsLanes
<1>16. \A c \in (Cands \ Held(p)) \union Held(after.pool) : SameLanes(A, after.arch, c)
  <2> SUFFICES ASSUME NEW c \in (Cands \ Held(p)) \union Held(after.pool)
               PROVE  SameLanes(A, after.arch, c)
    OBVIOUS
  <2>1. c \in Cands \ doomed /\ c \in Cands \ away
    BY <1>5, <1>8, <1>9, <1>14
  <2>2. SameLanes(A, tombs, c) /\ SameLanes(tombs, after.arch, c)
    BY <1>7, <1>11, <2>1 DEF Routed
  <2> QED
    BY <2>2 DEF SameLanes
<1>17. \A c \in Held(p) \ Held(after.pool) :
          c \in after.arch.failure \/ after.arch.dormant[c] # Absent
  <2> SUFFICES ASSUME NEW c \in Held(p) \ Held(after.pool)
               PROVE  c \in after.arch.failure \/ after.arch.dormant[c] # Absent
    OBVIOUS
  <2>1. CASE c \in away
    BY <1>10, <1>11, <2>1 DEF Routed, LanesOf
  <2>2. CASE c \notin away
    <3>1. c \in doomed /\ c \in Cands \ away
      BY <1>5, <1>8, <1>14, <2>2
    <3>2. LanesOf(tombs, c, indexed[c].fate) /\ SameLanes(tombs, after.arch, c)
      BY <1>7, <1>11, <3>1 DEF Routed
    <3> QED
      BY <1>6, <3>1, <3>2 DEF LanesOf, SameLanes
  <2> QED
    BY <2>1, <2>2
<1>18. ASSUME \A c \in Held(p) : p[c].fate \in Terminal => A.fate[c] \in Terminal,
              NEW c \in Held(after.pool)
       PROVE  after.pool[c].fate \in Terminal => after.arch.fate[c] \in Terminal
  <2>1. c \in Held(p) /\ c \in Held(kept) /\ after.pool[c] = kept[c]
    BY <1>8, <1>14
  <2>2. kept[c].fate = p[c].fate \/ kept[c].fate = "dormant"
    BY <1>8, <2>1
  <2>3. after.arch.fate[c] = A.fate[c]
    BY <1>16 DEF SameLanes
  <2>4. "dormant" \notin Terminal
    BY DEF Terminal
  <2> QED
    BY <1>18, <2>1, <2>2, <2>3, <2>4
<1>19. ASSUME \A c \in Held(p) : p[c].fate \in Terminal => A.fate[c] \in Terminal,
              NEW c \in Held(p), p[c].fate \notin Terminal,
              ~(A.fate[c] \in Terminal /\ Blocked(p[c]))
       PROVE  \E d \in Held(after.pool) :
                 /\ after.pool[d].fate \notin Terminal
                 /\ ~(after.arch.fate[d] \in Terminal /\ Blocked(after.pool[d]))
  <2>1. "dormant" \notin Terminal /\ "none" \notin Terminal
    BY DEF Terminal
  <2>2. CASE c \notin away
    <3>1. c \notin doomed
      BY <1>19, <2>1 DEF doomed, Doomed, IndexFate
    <3>2. c \in Held(kept) /\ c \in Held(after.pool) /\ after.pool[c] = kept[c]
      BY <1>8, <1>14, <1>19, <2>2, <3>1
    <3>3. after.arch.fate[c] = A.fate[c]
      BY <1>16, <3>2 DEF SameLanes
    <3>4. kept[c].fate \notin Terminal /\ (Blocked(kept[c]) => Blocked(p[c]))
      BY <1>8, <1>19, <2>1, <3>2 DEF Blocked
    <3> QED
      BY <1>19, <3>2, <3>3, <3>4
  <2>3. CASE c \in away
    <3>1. PICK d \in s : TRUE
      BY <1>2, <2>3 DEF away
    <3>2. d \in Held(kept) \ away /\ ~Awaiting(kept[d])
      BY <1>2, <3>1 DEF away, competing, Protected
    <3>3. d \in Held(p) /\ d \notin doomed /\ ~Awaiting(p[d]) /\ d \in Held(after.pool)
          /\ after.pool[d] = kept[d] /\ kept[d].verdict = p[d].verdict
      BY <1>8, <1>14, <3>2
    <3>4. after.arch.fate[d] = A.fate[d]
      BY <1>16, <3>3 DEF SameLanes
    <3>5. ~(IndexFate(A, d, p[d]) \in Terminal /\ Blocked(p[d]))
      BY <3>3 DEF doomed, Doomed
    <3>6. kept[d].fate \notin Terminal
      <4>1. CASE kept[d] = p[d] /\ IndexFate(A, d, p[d]) \notin Terminal
        BY <1>19, <2>1, <3>3, <4>1 DEF IndexFate
      <4>2. CASE kept[d].fate = "dormant"
        BY <2>1, <4>2
      <4> QED
        BY <1>8, <3>2, <3>3, <4>1, <4>2
    <3>7. A.fate[d] \in Terminal => ~Blocked(kept[d])
      BY <2>1, <3>3, <3>5 DEF IndexFate, Blocked
    <3> QED
      BY <3>3, <3>4, <3>6, <3>7
  <2> QED
    BY <2>2, <2>3
<1>20. Held(after.pool) \subseteq Held(p) /\ after.arch \in ArchiveStates
  BY <1>8, <1>11, <1>14 DEF Routed
<1> QED
  BY <1>13, <1>15, <1>16, <1>17, <1>18, <1>19, <1>20

\* The twelve stages are different, and each requires the one before it.
LEMMA StageOrder ==
  /\ Ops \in Seq(Range(Ops)) /\ Len(Ops) = 12
  /\ \A i, j \in 1 .. 12 : Ops[i] = Ops[j] => i = j
  /\ \A i \in 2 .. 12 : Prerequisites(Ops[i]) = {Ops[i - 1]}
  /\ Prerequisites(Ops[1]) = {}
<1>1. Ops \in Seq(Range(Ops)) /\ Len(Ops) = 12 /\ DOMAIN Ops = 1 .. 12
  <2>1. Len(Ops) = 12 /\ DOMAIN Ops = 1 .. 12
    BY DEF Ops
  <2>2. \A i \in 1 .. 12 : Ops[i] \in Range(Ops)
    BY <2>1 DEF Range
  <2>3. Ops = [i \in 1 .. 12 |-> Ops[i]]
    BY DEF Ops
  <2> QED
    BY <2>1, <2>2, <2>3, SeqDef
<1>2. \A i, j \in 1 .. 12 : Ops[i] = Ops[j] => i = j
  BY DEF Ops
<1>3. \A i \in 1 .. 12 : Place(Ops[i]) = i
  <2> SUFFICES ASSUME NEW i \in 1 .. 12 PROVE Place(Ops[i]) = i
    OBVIOUS
  <2>1. \A k \in DOMAIN Ops : Ops[k] = Ops[i] <=> k = i
    BY <1>1, <1>2
  <2> QED
    BY <1>1, <2>1 DEF Place
<1> QED
  BY <1>1, <1>2, <1>3 DEF Prerequisites

\* The first stages in their order are a valid list of completed stages, and the next one
\* makes a longer one.
LEMMA FirstStages ==
  /\ \A n \in 0 .. 12 : CompletedValid(SubSeq(Ops, 1, n))
  /\ \A n \in 1 .. 11 : Append(SubSeq(Ops, 1, n), Ops[n + 1]) = SubSeq(Ops, 1, n + 1)
<1>1. ASSUME NEW n \in 0 .. 12 PROVE CompletedValid(SubSeq(Ops, 1, n))
  <2> DEFINE s == SubSeq(Ops, 1, n)
  <2>1. s \in Seq(Range(Ops)) /\ Len(s) = n /\ \A i \in 1 .. n : s[i] = Ops[i]
    <3>1. 1 \in Nat /\ n \in Int /\ n <= 12
      OBVIOUS
    <3>2. \A i \in 1 .. n : Ops[i] \in Range(Ops)
      BY <3>1, StageOrder DEF Range
    <3>3. s = [i \in 1 .. n |-> Ops[i]]
      BY <3>1, StageOrder
    <3> HIDE DEF s
    <3> QED
      BY <3>2, <3>3
  <2> HIDE DEF s
  <2>2. SUFFICES ASSUME NEW i \in 1 .. n
                 PROVE  LET before == SubSeq(s, 1, i - 1)
                        IN  s[i] \notin Range(before) /\ StageReady(s[i], before)
    <3>1. DOMAIN s = 1 .. n
      BY <2>1
    <3> QED
      BY <2>2, <3>1 DEF CompletedValid, s
  <2> DEFINE before == SubSeq(s, 1, i - 1)
  <2>3. DOMAIN before = 1 .. i - 1 /\ \A k \in 1 .. i - 1 : before[k] = Ops[k]
    BY <2>1
  <2> HIDE DEF before
  <2>4. s[i] = Ops[i] /\ i \in 1 .. 12
    BY <2>1
  <2>5. s[i] \notin Range(before)
    BY <2>3, <2>4, StageOrder DEF Range
  <2>6. StageReady(s[i], before)
    <3>1. CASE i = 1
      BY <2>4, <3>1, StageOrder DEF StageReady
    <3>2. CASE i # 1
      <4>1. i \in 2 .. 12 /\ i - 1 \in 1 .. i - 1
        BY <2>4, <3>2
      <4>2. Ops[i - 1] \in Range(before)
        BY <2>3, <4>1 DEF Range
      <4>3. Prerequisites(s[i]) = {Ops[i - 1]}
        BY <2>4, <4>1, StageOrder
      <4> QED
        BY <4>2, <4>3 DEF StageReady
    <3> QED
      BY <3>1, <3>2
  <2> QED
    BY <2>5, <2>6 DEF before
<1>2. ASSUME NEW n \in 1 .. 11
      PROVE  Append(SubSeq(Ops, 1, n), Ops[n + 1]) = SubSeq(Ops, 1, n + 1)
  BY StageOrder
<1> QED
  BY <1>1, <1>2

\* A stage that is completed is the last of one more stage.
LEMMA NextStage ==
  ASSUME NEW p, IsPlan(p), NEW n \in 1 .. 11, p.done = SubSeq(Ops, 1, n)
  PROVE  LET q == Complete(p, Ops[n + 1])
         IN  /\ IsPlan(q) /\ q.done = SubSeq(Ops, 1, n + 1) /\ Hashed(q) = Hashed(p)
             /\ q.id = p.id /\ q.fates = p.fates /\ q.round = p.round
             /\ q.receipts = p.receipts /\ q.slots = p.slots
<1> DEFINE q == Complete(p, Ops[n + 1])
<1>1. q = [round |-> p.round, fates |-> p.fates, parents |-> p.parents,
           objectives |-> p.objectives, receipts |-> p.receipts, id |-> p.id,
           done |-> Append(p.done, Ops[n + 1]), deferred |-> p.deferred, slots |-> p.slots]
  <2>1. q = [p EXCEPT !.done = Append(p.done, Ops[n + 1])]
    BY DEF IsPlan, Complete
  <2> HIDE DEF q
  <2>2. PICK a, b, c, d, e, f, g, h, i :
           p = [round |-> a, fates |-> b, parents |-> c, objectives |-> d, receipts |-> e,
                id |-> f, done |-> g, deferred |-> h, slots |-> i]
    BY DEF IsPlan
  <2> QED
    BY <2>1, <2>2
<1>2. Append(p.done, Ops[n + 1]) = SubSeq(Ops, 1, n + 1)
  BY FirstStages
<1> HIDE DEF q
<1>3. IsPlan(q) /\ q.done = SubSeq(Ops, 1, n + 1) /\ Hashed(q) = Hashed(p)
  BY <1>1, <1>2 DEF IsPlan, Hashed
<1>4. /\ q.id = p.id /\ q.fates = p.fates /\ q.round = p.round
      /\ q.receipts = p.receipts /\ q.slots = p.slots
  BY <1>1
<1> QED
  BY <1>3, <1>4 DEF q

\* What a later stage writes into a plan leaves it a plan.
LEMMA PlanFields ==
  ASSUME NEW p, IsPlan(p), NEW x
  PROVE  /\ LET q == [p EXCEPT !.parents = x]
             IN  IsPlan(q) /\ q.done = p.done /\ q.fates = p.fates /\ q.round = p.round
                 /\ q.receipts = p.receipts
         /\ LET q == [p EXCEPT !.objectives = x]
             IN  IsPlan(q) /\ q.done = p.done /\ q.fates = p.fates /\ q.round = p.round
                 /\ q.receipts = p.receipts
         /\ LET q == [p EXCEPT !.receipts = x]
             IN  IsPlan(q) /\ q.done = p.done /\ q.fates = p.fates /\ q.round = p.round
                 /\ q.receipts = x /\ q.slots = p.slots
<1>1. PICK a, b, c, d, e, f, g, h, i :
        p = [round |-> a, fates |-> b, parents |-> c, objectives |-> d, receipts |-> e,
             id |-> f, done |-> g, deferred |-> h, slots |-> i]
  BY DEF IsPlan
<1>2. LET q == [p EXCEPT !.parents = x]
      IN  IsPlan(q) /\ q.done = p.done /\ q.fates = p.fates /\ q.round = p.round
          /\ q.receipts = p.receipts
  BY <1>1 DEF IsPlan
<1>3. LET q == [p EXCEPT !.objectives = x]
      IN  IsPlan(q) /\ q.done = p.done /\ q.fates = p.fates /\ q.round = p.round
          /\ q.receipts = p.receipts
  BY <1>1 DEF IsPlan
<1>4. LET q == [p EXCEPT !.receipts = x]
      IN  IsPlan(q) /\ q.done = p.done /\ q.fates = p.fates /\ q.round = p.round
          /\ q.receipts = x /\ q.slots = p.slots
  BY <1>1 DEF IsPlan
<1> QED
  BY <1>2, <1>3, <1>4

\* And so do the slots that parent selection writes into it.
LEMMA SlotsField ==
  ASSUME NEW p, IsPlan(p), NEW x, NEW q, q = [p EXCEPT !.slots = x]
  PROVE  IsPlan(q) /\ q.done = p.done /\ q.fates = p.fates /\ q.round = p.round
         /\ q.receipts = p.receipts
<1>1. PICK a, b, c, d, e, f, g, h, i :
        p = [round |-> a, fates |-> b, parents |-> c, objectives |-> d, receipts |-> e,
             id |-> f, done |-> g, deferred |-> h, slots |-> i]
  BY DEF IsPlan
<1> QED
  BY <1>1 DEF IsPlan

\* A refresh makes the id what the plan says, and changes nothing else of it.
LEMMA Refreshed ==
  ASSUME NEW p, IsPlan(p)
  PROVE  LET q == Refresh(p)
         IN  IsPlan(q) /\ q.id = Hashed(q) /\ q.done = p.done /\ q.fates = p.fates
             /\ q.round = p.round /\ q.receipts = p.receipts /\ q.slots = p.slots
<1> DEFINE q == Refresh(p)
<1>1. q = [round |-> p.round, fates |-> p.fates, parents |-> p.parents,
           objectives |-> p.objectives, receipts |-> p.receipts, id |-> Hashed(p),
           done |-> p.done, deferred |-> p.deferred, slots |-> p.slots]
  BY DEF IsPlan, Refresh
<1> HIDE DEF q
<1>2. IsPlan(q) /\ Hashed(q) = Hashed(p) /\ q.id = Hashed(p)
  BY <1>1 DEF IsPlan, Hashed
<1> QED
  BY <1>1, <1>2 DEF q

\* A plan that is applied and has the first stages makes a record that replays.
LEMMA AppliedPlanReplays ==
  ASSUME NEW p, NEW entries, NEW n \in 0 .. 12, p.id = Hashed(p), DOMAIN p.fates # {},
         Witnessed(p, entries), p.done = SubSeq(Ops, 1, n), ReceiptsBacked(p.receipts, p)
  PROVE  RecordReplays(p, entries)
<1>1. CompletedValid(p.done)
  BY FirstStages
<1> QED
  BY <1>1 DEF RecordReplays

\* A record that replays does so with more entries in the archive history.
LEMMA ReplayIsKept ==
  ASSUME NEW p, NEW entries, NEW more, entries \subseteq more, RecordReplays(p, entries)
  PROVE  RecordReplays(p, more)
  BY DEF RecordReplays, Witnessed

\* Every assignment of a ranking names exactly the live candidates, and ends none that was
\* not terminal before.
LEMMA AssignmentsOfLive ==
  ASSUME NEW fates \in Assignments
  PROVE  /\ DOMAIN fates = Live /\ \A c \in Live : fates[c] \in Fates
         /\ \A c \in Live : pool[c].fate \notin Terminal => fates[c] \notin Terminal
<1>1. PICK f \in [Live -> RankFates \union Terminal \union {"elite"}] :
         /\ \E b : \A c \in Live : f[c] \in PolicyFates(c, pool[c], b)
         /\ fates = RaiseFloor(f)
  BY DEF Assignments
<1>2. PICK b : \A c \in Live : f[c] \in PolicyFates(c, pool[c], b)
  BY <1>1
<1>3. \A c \in Live : pool[c].fate \notin Terminal => f[c] \notin Terminal
  <2>1. RankFates \intersect Terminal = {} /\ "elite" \notin Terminal
        /\ "dormant" \notin Terminal /\ "incubating" \notin Terminal
    BY GenerationAssumption DEF Terminal
  <2> QED
    BY <1>2, <2>1 DEF PolicyFates
<1>4. DOMAIN fates = Live /\ \A c \in Live : fates[c] \in {"active", f[c]}
  BY <1>1 DEF RaiseFloor
<1>5. \A c \in Live : f[c] \in Fates
  BY GenerationAssumption DEF Fates, Answering
<1>6. "active" \in Fates /\ "active" \notin Terminal
  BY DEF Fates, Answering, Terminal
<1> QED
  BY <1>3, <1>4, <1>5, <1>6

\* The history has a record of the round once it is assessed, and a record is replaced in
\* its place.
LEMMA RecordEffect ==
  ASSUME history \in Seq(Range(history)), NEW p
  PROVE  /\ Record(p) \in Seq(Range(Record(p))) /\ Len(Record(p)) = Len(history)
         /\ \A i \in DOMAIN Record(p) : i \in DOMAIN history
                                        /\ (Record(p)[i] = history[i] \/ Record(p)[i] = p)
<1> DEFINE r == Record(p)
<1>1. r = [history EXCEPT ![Len(history)] = p]
  BY DEF Record
<1>2. Len(history) \in Nat /\ DOMAIN history = 1 .. Len(history)
  OBVIOUS
<1> HIDE DEF r
<1>4. DOMAIN r = 1 .. Len(history)
  BY <1>1, <1>2
<1>5. \A i \in 1 .. Len(history) : r[i] = history[i] \/ r[i] = p
  BY <1>1, <1>2
<1>6. r = [i \in 1 .. Len(history) |-> r[i]]
  BY <1>1, <1>2
<1>7. \A i \in 1 .. Len(history) : r[i] \in Range(r)
  BY <1>4 DEF Range
<1>8. r \in Seq(Range(r)) /\ Len(r) = Len(history)
  BY <1>2, <1>6, <1>7
<1> QED
  BY <1>2, <1>4, <1>5, <1>8 DEF r

\* A record appended to the history is its last one.
LEMMA AppendEffect ==
  ASSUME history \in Seq(Range(history)), NEW p
  PROVE  LET h == Append(history, p)
         IN  /\ h \in Seq(Range(h)) /\ Len(h) = Len(history) + 1
             /\ \A i \in DOMAIN h : (i \in DOMAIN history /\ h[i] = history[i]) \/ h[i] = p
<1> DEFINE h == Append(history, p)
<1>1. history \in Seq(Range(history) \union {p})
  BY SeqMonotonic
<1>2. /\ h \in Seq(Range(history) \union {p}) /\ Len(h) = Len(history) + 1
      /\ \A i \in 1 .. Len(history) : h[i] = history[i]
      /\ h[Len(history) + 1] = p
  BY <1>1
<1>3. Len(history) \in Nat /\ DOMAIN history = 1 .. Len(history)
  OBVIOUS
<1> HIDE DEF h
<1>4. DOMAIN h = 1 .. Len(history) + 1
  BY <1>2
<1>5. h = [i \in 1 .. Len(history) + 1 |-> h[i]]
  BY <1>2, <1>4
<1>6. \A i \in 1 .. Len(history) + 1 : h[i] \in Range(h)
  BY <1>4 DEF Range
<1>7. h \in Seq(Range(h))
  BY <1>3, <1>5, <1>6
<1>8. \A i \in DOMAIN h : (i \in DOMAIN history /\ h[i] = history[i]) \/ h[i] = p
  BY <1>2, <1>3, <1>4
<1> QED
  BY <1>2, <1>7, <1>8 DEF h

\* The plan stays applied through the stages of its round, and whatever the history takes
\* of it replays.
LEMMA PlanStep == IInv /\ [Next]_vars => PlanIsApplied' /\ HistoryReplays'
<1> SUFFICES ASSUME IInv, [Next]_vars PROVE PlanIsApplied' /\ HistoryReplays'
  OBVIOUS
<1>0. /\ PlanIsApplied /\ HistoryReplays /\ history \in Seq(Range(history))
      /\ Live # {}
  BY DEF IInv, CandidatesKept, ValuesTyped, SomebodyStays
<1>a. \A n \in 1 .. 12 : n \in 0 .. 12
  OBVIOUS
<1>1. CASE Evaluate
  BY <1>0, <1>1 DEF Evaluate, PlanIsApplied, HistoryReplays, Stages
<1>2. CASE Rank
  <2>1. PICK fates \in Assignments :
           /\ PlanValid(NewPlan(round, fates), Live)
           /\ plan' = [NewPlan(round, fates) EXCEPT !.deferred = plan.deferred]
           /\ applied' = applied \union {[round |-> round, fates |-> fates,
                                          id |-> NewPlan(round, fates).id]}
    BY <1>2 DEF Rank
  <2>2. plan' = [round |-> round, fates |-> fates, parents |-> {}, objectives |-> FALSE,
                 receipts |-> {},
                 id |-> [round |-> round, fates |-> fates, parents |-> {}, objectives |-> FALSE,
                         receipts |-> {}],
                 done |-> RankedOps, deferred |-> plan.deferred, slots |-> {}]
    BY <2>1 DEF NewPlan
  <2>3. IsPlan(plan') /\ plan'.id = Hashed(plan') /\ plan'.receipts = {}
    BY <2>2 DEF IsPlan, Hashed
  <2>4. DOMAIN plan'.fates # {}
    BY <1>0, <2>2, AssignmentsOfLive
  <2>5. Witnessed(plan', applied')
    <3> DEFINE w == [round |-> round, fates |-> fates, id |-> NewPlan(round, fates).id]
    <3>1. w \in applied' /\ w.round = plan'.round /\ w.fates = plan'.fates
      BY <2>1, <2>2
    <3> HIDE DEF w
    <3> QED
      BY <2>4, <3>1 DEF Witnessed
  <2>6. plan'.done = SubSeq(Ops, 1, 5)
    BY <2>2 DEF RankedOps
  <2>7. pc' = "ranked" /\ history' = history
    BY <1>2 DEF Rank
  <2>8. PlanIsApplied'
    BY <2>3, <2>4, <2>5, <2>6, <2>7 DEF PlanIsApplied, StagesDone
  <2>9. HistoryReplays'
    BY <1>0, <2>1, <2>7, ReplayIsKept DEF HistoryReplays
  <2> QED
    BY <2>8, <2>9
<1>3. CASE Assess
  <2>1. /\ IsPlan(plan) /\ plan.id = Hashed(plan) /\ DOMAIN plan.fates # {}
        /\ plan.receipts = {} /\ Witnessed(plan, applied) /\ plan.done = SubSeq(Ops, 1, 5)
    BY <1>0, <1>3 DEF Assess, PlanIsApplied, Stages, StagesDone
  <2> DEFINE p6 == Complete(plan, "compact")
             p7 == Complete(p6, "diagnose")
             p8 == Complete(p7, "stop_check")
  <2>2. Ops[6] = "compact" /\ Ops[7] = "diagnose" /\ Ops[8] = "stop_check"
    BY DEF Ops
  <2>3. /\ IsPlan(p6) /\ p6.done = SubSeq(Ops, 1, 6) /\ Hashed(p6) = Hashed(plan)
        /\ p6.id = plan.id /\ p6.fates = plan.fates /\ p6.round = plan.round
        /\ p6.receipts = plan.receipts
    <3>1. 5 \in 1 .. 11 /\ 5 + 1 = 6
      OBVIOUS
    <3> QED
      BY <2>1, <2>2, <3>1, NextStage
  <2> HIDE DEF p6
  <2>4. /\ IsPlan(p7) /\ p7.done = SubSeq(Ops, 1, 7) /\ Hashed(p7) = Hashed(p6)
        /\ p7.id = p6.id /\ p7.fates = p6.fates /\ p7.round = p6.round
        /\ p7.receipts = p6.receipts
    <3>1. 6 \in 1 .. 11 /\ 6 + 1 = 7
      OBVIOUS
    <3> QED
      BY <2>2, <2>3, <3>1, NextStage
  <2> HIDE DEF p7
  <2>5. /\ IsPlan(p8) /\ p8.done = SubSeq(Ops, 1, 8) /\ Hashed(p8) = Hashed(p7)
        /\ p8.id = p7.id /\ p8.fates = p7.fates /\ p8.round = p7.round
        /\ p8.receipts = p7.receipts
    <3>1. 7 \in 1 .. 11 /\ 7 + 1 = 8
      OBVIOUS
    <3> QED
      BY <2>2, <2>4, <3>1, NextStage
  <2> HIDE DEF p8
  <2>6. plan' = p8 /\ applied' = applied /\ history' = Append(history, plan')
        /\ pc' \in {"stopped", "assessed"}
    BY <1>3 DEF Assess, p6, p7, p8
  <2>7. /\ IsPlan(plan') /\ plan'.id = Hashed(plan') /\ DOMAIN plan'.fates # {}
        /\ plan'.done = SubSeq(Ops, 1, 8) /\ plan'.receipts = {}
    BY <2>1, <2>3, <2>4, <2>5, <2>6
  <2>8. Witnessed(plan', applied')
    BY <2>1, <2>3, <2>4, <2>5, <2>6 DEF Witnessed
  <2>9. PlanIsApplied'
    BY <2>6, <2>7, <2>8 DEF PlanIsApplied, StagesDone, Stages
  <2>10. RecordReplays(plan', applied')
    BY <1>a, <2>7, <2>8, AppliedPlanReplays DEF ReceiptsBacked
  <2>11. HistoryReplays'
    BY <1>0, <2>6, <2>10, AppendEffect DEF HistoryReplays
  <2> QED
    BY <2>9, <2>11
<1>4. CASE SelectParents
  <2>1. /\ IsPlan(plan) /\ plan.id = Hashed(plan) /\ DOMAIN plan.fates # {}
        /\ plan.receipts = {} /\ Witnessed(plan, applied) /\ plan.done = SubSeq(Ops, 1, 8)
    BY <1>0, <1>4 DEF SelectParents, PlanIsApplied, Stages, StagesDone
  <2>2. applied' = applied /\ history' = history
    BY <1>4 DEF SelectParents
  <2>3. HistoryReplays'
    BY <1>0, <2>2 DEF HistoryReplays
  <2>4. CASE pc' = "stopped"
    BY <2>3, <2>4 DEF PlanIsApplied, Stages
  <2>5. ASSUME NEW parents, plan' = Selected(parents), pc' = "parents" PROVE PlanIsApplied'
    <3> DEFINE slots == {round}
    <3> HIDE DEF slots
    <3> DEFINE o == [plan EXCEPT !.parents = parents]
               q == [o EXCEPT !.slots = slots]
               r == Refresh(q)
    <3>1. /\ IsPlan(o) /\ o.done = plan.done /\ o.fates = plan.fates
          /\ o.round = plan.round /\ o.receipts = plan.receipts
      BY <2>1, PlanFields
    <3> HIDE DEF o
    <3>2. /\ IsPlan(q) /\ q.done = plan.done /\ q.fates = plan.fates
          /\ q.round = plan.round /\ q.receipts = plan.receipts
      <4>1. q = [o EXCEPT !.slots = slots]
        OBVIOUS
      <4> HIDE DEF q
      <4> QED
        BY <3>1, <4>1, SlotsField
    <3> HIDE DEF q
    <3>3. /\ IsPlan(r) /\ r.id = Hashed(r) /\ r.done = SubSeq(Ops, 1, 8)
          /\ r.fates = plan.fates /\ r.round = plan.round /\ r.receipts = {}
      BY <2>1, <3>2, Refreshed
    <3> HIDE DEF r
    <3>4. Ops[8 + 1] = "select_parents" /\ 8 \in 1 .. 11 /\ 8 + 1 = 9
      BY DEF Ops
    <3>5. plan' = Complete(r, Ops[8 + 1])
      BY <2>5, <3>4 DEF Selected, slots, o, q, r
    <3>6. /\ IsPlan(plan') /\ plan'.id = Hashed(plan') /\ plan'.done = SubSeq(Ops, 1, 9)
          /\ plan'.fates = plan.fates /\ plan'.round = plan.round /\ plan'.receipts = {}
      BY <3>3, <3>4, <3>5, NextStage
    <3>7. Witnessed(plan', applied')
      BY <2>1, <2>2, <3>6 DEF Witnessed
    <3> QED
      BY <2>1, <2>5, <3>6, <3>7 DEF PlanIsApplied, StagesDone
  <2>6. pc' = "stopped" \/ (pc' = "parents" /\ \E parents : plan' = Selected(parents))
    BY <1>4 DEF SelectParents
  <2> QED
    BY <2>3, <2>4, <2>5, <2>6
<1>5. CASE PlanMutations
  <2>1. /\ IsPlan(plan) /\ plan.id = Hashed(plan) /\ DOMAIN plan.fates # {}
        /\ plan.receipts = {} /\ Witnessed(plan, applied) /\ plan.done = SubSeq(Ops, 1, 9)
    BY <1>0, <1>5 DEF PlanMutations, PlanIsApplied, Stages, StagesDone
  <2>2. applied' = applied /\ history' = history /\ pc' = "planned"
    BY <1>5 DEF PlanMutations
  <2> DEFINE q == [plan EXCEPT !.objectives = TRUE]
             r == Refresh(q)
  <2>4. /\ IsPlan(q) /\ q.done = plan.done /\ q.fates = plan.fates
        /\ q.round = plan.round /\ q.receipts = plan.receipts
    BY <2>1, PlanFields
  <2> HIDE DEF q
  <2>5. /\ IsPlan(r) /\ r.id = Hashed(r) /\ r.done = SubSeq(Ops, 1, 9)
        /\ r.fates = plan.fates /\ r.round = plan.round /\ r.receipts = {}
    BY <2>1, <2>4, Refreshed
  <2> HIDE DEF r
  <2>6. Ops[9 + 1] = "plan_mutations" /\ 9 \in 1 .. 11 /\ 9 + 1 = 10
    BY DEF Ops
  <2>7. plan' = Complete(r, Ops[9 + 1])
    BY <1>5, <2>6 DEF PlanMutations, q, r
  <2>8. /\ IsPlan(plan') /\ plan'.id = Hashed(plan') /\ plan'.done = SubSeq(Ops, 1, 10)
        /\ plan'.fates = plan.fates /\ plan'.round = plan.round /\ plan'.receipts = {}
    BY <2>5, <2>6, <2>7, NextStage
  <2>9. Witnessed(plan', applied')
    BY <2>1, <2>2, <2>8 DEF Witnessed
  <2> QED
    BY <1>0, <2>1, <2>2, <2>8, <2>9 DEF PlanIsApplied, StagesDone, HistoryReplays
<1>6. CASE Generate
  <2>1. /\ IsPlan(plan) /\ plan.id = Hashed(plan) /\ DOMAIN plan.fates # {}
        /\ plan.receipts = {} /\ Witnessed(plan, applied) /\ plan.done = SubSeq(Ops, 1, 10)
    BY <1>0, <1>6 DEF Generate, PlanIsApplied, Stages, StagesDone
  <2>2. applied' = applied /\ history' = history /\ pc' = "offspring"
        /\ plan' = Complete(plan, "generate_offspring")
    BY <1>6 DEF Generate
  <2>3. Ops[10 + 1] = "generate_offspring" /\ 10 \in 1 .. 11 /\ 10 + 1 = 11
    BY DEF Ops
  <2>4. /\ IsPlan(plan') /\ plan'.id = Hashed(plan') /\ plan'.done = SubSeq(Ops, 1, 11)
        /\ plan'.fates = plan.fates /\ plan'.round = plan.round /\ plan'.receipts = {}
    BY <2>1, <2>2, <2>3, NextStage
  <2>5. Witnessed(plan', applied')
    BY <2>1, <2>2, <2>4 DEF Witnessed
  <2> QED
    BY <1>0, <2>1, <2>2, <2>4, <2>5 DEF PlanIsApplied, StagesDone, HistoryReplays
<1>7. CASE NoOffspring
  <2>1. /\ plan.id = Hashed(plan) /\ DOMAIN plan.fates # {}
        /\ plan.receipts = {} /\ Witnessed(plan, applied) /\ plan.done = SubSeq(Ops, 1, 11)
    BY <1>0, <1>7 DEF NoOffspring, PlanIsApplied, Stages, StagesDone
  <2>2. applied' = applied /\ history' = Record(plan) /\ pc' \in {"stopped", "idle"}
    BY <1>7 DEF NoOffspring
  <2>3. RecordReplays(plan, applied)
    BY <1>a, <2>1, AppliedPlanReplays DEF ReceiptsBacked
  <2> QED
    BY <1>0, <2>2, <2>3, RecordEffect DEF PlanIsApplied, Stages, HistoryReplays
<1>8. CASE Integrate
  <2>1. /\ IsPlan(plan) /\ plan.id = Hashed(plan) /\ DOMAIN plan.fates # {}
        /\ Witnessed(plan, applied) /\ plan.done = SubSeq(Ops, 1, 11)
    BY <1>0, <1>8 DEF Integrate, JoinPopulation, PlanIsApplied, Stages, StagesDone
  <2>2. applied' = applied /\ history' = Record(plan') /\ pc' = "idle"
    BY <1>8 DEF Integrate, JoinPopulation
  <2>a. PICK named : ReceiptsBacked(named, plan) /\ plan' = Completed(plan, named)
    BY <1>8 DEF Integrate
  <2> DEFINE q == Complete(plan, "verify_offspring")
             r == [q EXCEPT !.receipts = named]
  <2>3. Ops[11 + 1] = "verify_offspring" /\ 11 \in 1 .. 11 /\ 11 + 1 = 12
    BY DEF Ops
  <2>4. /\ IsPlan(q) /\ q.done = SubSeq(Ops, 1, 12)
        /\ q.fates = plan.fates /\ q.round = plan.round /\ q.slots = plan.slots
    BY <2>1, <2>3, NextStage
  <2> HIDE DEF q
  <2>5. /\ IsPlan(r) /\ r.done = q.done /\ r.fates = q.fates /\ r.round = q.round
        /\ r.receipts = named /\ r.slots = q.slots
    BY <2>4, PlanFields
  <2> HIDE DEF r
  <2>6. plan' = Refresh(r)
    BY <2>a DEF Completed, q, r
  <2>7. /\ IsPlan(plan') /\ plan'.id = Hashed(plan') /\ plan'.done = SubSeq(Ops, 1, 12)
        /\ plan'.fates = plan.fates /\ plan'.round = plan.round
        /\ plan'.receipts = named /\ plan'.slots = plan.slots
    BY <2>4, <2>5, <2>6, Refreshed
  <2>8. Witnessed(plan', applied')
    BY <2>1, <2>2, <2>7 DEF Witnessed
  <2>b. ReceiptsBacked(plan'.receipts, plan')
    BY <2>a, <2>7 DEF ReceiptsBacked
  <2>9. RecordReplays(plan', applied')
    BY <1>a, <2>1, <2>7, <2>8, <2>b, AppliedPlanReplays
  <2> QED
    BY <1>0, <2>2, <2>9, RecordEffect DEF PlanIsApplied, Stages, HistoryReplays
<1>b. CASE RefuseReceipt
  BY <1>0, <1>b DEF RefuseReceipt, JoinPopulation, PlanIsApplied, HistoryReplays, Stages
<1>9. CASE Interrupt
  BY <1>0, <1>9 DEF Interrupt, PlanIsApplied, HistoryReplays, Stages
<1>10. CASE UNCHANGED vars
  BY <1>0, <1>10 DEF vars, PlanIsApplied, HistoryReplays, StagesDone
<1> QED
  BY <1>1, <1>2, <1>3, <1>4, <1>5, <1>6, <1>7, <1>8, <1>9, <1>10, <1>b DEF Next, Rest

\* The values after a step determine their shapes.
LEMMA Shapes ==
  ASSUME pc' \in {"idle", "evaluated", "stopped"} \union Stages, round' \in 0 .. MaxRound,
         Len(history') <= round', ValuesTyped', born' \subseteq Cands,
         Live' \union Held(hand') \subseteq born'
  PROVE  TypeOK'
<1>1. Range(pool') \union Range(hand') \subseteq Bodies \union {Absent}
  BY DEF ValuesTyped, Copies, Range
<1>2. /\ arch'.answer \in [Cands -> Copies] /\ arch'.dormant \in [Cands -> Copies]
      /\ arch'.fate \in [Cands -> Fates \union {"none"}]
  BY DEF ValuesTyped, ArchiveStates
<1>3. /\ Range(arch'.answer) \union Range(arch'.dormant) \subseteq Bodies \union {Absent}
      /\ Range(arch'.fate) \subseteq Fates \union {"none"}
  BY <1>2 DEF Copies, Range
<1> QED
  BY <1>1, <1>3 DEF TypeOK, Stages

\* A step that leaves the candidates and the archives alone, and lets go of the offspring at
\* most, keeps what is said of them.
LEMMA QuietStep ==
  ASSUME CandidatesKept, UNCHANGED <<round, pool, arch, born>>,
         history' \in Seq(Range(history')), Len(history') = Len(history),
         hand' = hand \/ hand' = Empty,
         pc' \in {"idle", "stopped", "parents", "planned"},
         pc' \in Stages => pc \in Stages
  PROVE  CandidatesKept'
<1> USE DEF CandidatesKept
<1>1. Held(hand') \subseteq Held(hand) /\ hand' \in [Cands -> Copies]
      /\ \A c \in Held(hand') : hand'[c] = hand[c]
  BY DEF Empty, Held, Copies, ValuesTyped
<1>2. ValuesTyped'
  BY <1>1 DEF ValuesTyped
<1>3. Live' = Live
  BY DEF Live
<1>4. TypeOK'
  <2>1. pc' \in {"idle", "evaluated", "stopped"} \union Stages
    BY DEF Stages
  <2>2. round' \in 0 .. MaxRound /\ Len(history') <= round' /\ born' \subseteq Cands
    BY DEF TypeOK
  <2>3. Live' \union Held(hand') \subseteq born'
    BY <1>1, <1>3 DEF TypeOK
  <2> QED
    BY <1>2, <2>1, <2>2, <2>3, Shapes
<1>5. OffspringAreApart'
  BY <1>1, <1>3 DEF OffspringAreApart
<1>6. TerminalIsIndexed' /\ SomebodyStays' /\ LanesFollowFates'
  BY <1>3 DEF TerminalIsIndexed, SomebodyStays, LanesFollowFates
<1>7. NobodyVanishes'
  BY <1>1, <1>3 DEF NobodyVanishes, OffspringAreApart
<1> QED
  BY <1>2, <1>4, <1>5, <1>6, <1>7

\* The evaluation changes verdicts and measurements, and nobody's fate.
LEMMA EvaluateStep == CandidatesKept /\ Evaluate => CandidatesKept'
<1> SUFFICES ASSUME CandidatesKept, Evaluate PROVE CandidatesKept'
  OBVIOUS
<1> USE DEF CandidatesKept
<1>1. UNCHANGED <<arch, history, hand, born>> /\ pc' = "evaluated" /\ round' = round + 1
      /\ round < MaxRound
  BY ZenonT(40) DEF Evaluate
<1>2. PICK verdict \in [Admitted -> Verdicting] :
        pool' = [c \in Cands |->
              IF c \notin Live THEN Absent
              ELSE IF c \in Admitted
                   THEN [pool[c] EXCEPT !.new = FALSE, !.measured = TRUE, !.verdict = verdict[c]]
                   ELSE [pool[c] EXCEPT !.new = FALSE]]
  BY DEF Evaluate
<1>3. ASSUME NEW c \in Live
      PROVE  pool'[c] \in Bodies /\ pool'[c].fate = pool[c].fate
  <2>1. c \in Cands /\ pool[c] \in Bodies
    BY DEF Live, Held, ValuesTyped, Copies
  <2>2. CASE c \in Admitted
    <3>1. verdict[c] \in Verdicts
      BY <2>2, GenerationAssumption
    <3>2. pool'[c] = [pool[c] EXCEPT !.new = FALSE, !.measured = TRUE, !.verdict = verdict[c]]
      BY <1>2, <2>1, <2>2
    <3> QED
      BY <2>1, <3>1, <3>2 DEF Bodies
  <2>3. CASE c \notin Admitted
    <3>1. pool'[c] = [pool[c] EXCEPT !.new = FALSE]
      BY <1>2, <2>1, <2>3
    <3> QED
      BY <2>1, <3>1 DEF Bodies
  <2> QED
    BY <2>2, <2>3
<1>4. \A c \in Cands \ Live : pool'[c] = Absent
  BY <1>2
<1>5. pool' \in [Cands -> Copies]
  <2>1. \A c \in Cands : pool'[c] \in Copies
    BY <1>3, <1>4 DEF Copies
  <2>2. pool' = [c \in Cands |-> pool'[c]]
    BY <1>2
  <2> QED
    BY <2>1, <2>2
<1>6. Live' = Live
  BY <1>3, <1>4, CopyOfBody DEF Live, Held
<1>7. ValuesTyped'
  BY <1>1, <1>5 DEF ValuesTyped, TypeOK
<1>8. TypeOK'
  <2>1. round' \in 0 .. MaxRound /\ Len(history') <= round' /\ Len(history) \in Nat
    BY <1>1, <1>7, GenerationAssumption DEF TypeOK, ValuesTyped
  <2> QED
    BY <1>1, <1>6, <1>7, <2>1, Shapes DEF TypeOK
<1>9. OffspringAreApart' /\ TerminalIsIndexed' /\ LanesFollowFates' /\ NobodyVanishes'
  BY <1>1, <1>6 DEF OffspringAreApart, TerminalIsIndexed, LanesFollowFates, NobodyVanishes, Stages
<1>10. SomebodyStays'
  BY <1>1, <1>3, <1>6 DEF SomebodyStays, Stages
<1> QED
  BY <1>7, <1>8, <1>9, <1>10

\* The ranking gives each live candidate its fate, in the population and in the index.
LEMMA RankStep == CandidatesKept /\ Rank => CandidatesKept'
<1> SUFFICES ASSUME CandidatesKept, Rank PROVE CandidatesKept'
  OBVIOUS
<1> USE DEF CandidatesKept
<1>1. UNCHANGED <<round, history, hand, born>> /\ pc' = "ranked" /\ pc = "evaluated"
  BY DEF Rank
<1>2. PICK fates \in Assignments :
         pool' = WithFates(pool, fates) /\ arch' = Update(arch, WithFates(pool, fates), Live)
  BY DEF Rank
<1> DEFINE bodies == WithFates(pool, fates)
<1>3. ASSUME NEW c \in Live
      PROVE  bodies[c] \in Bodies /\ bodies[c].fate = fates[c] /\ bodies[c] # Absent
  <2>1. c \in Cands /\ pool[c] \in Bodies /\ fates[c] \in Fates /\ c \in DOMAIN fates
    BY AssignmentsOfLive DEF Live, Held, ValuesTyped, Copies
  <2>2. bodies[c] = [pool[c] EXCEPT !.fate = fates[c]]
    BY <2>1 DEF WithFates
  <2> QED
    BY <2>1, <2>2, BodyWithFate DEF Bodies
<1>4. \A c \in Cands \ Live : bodies[c] = Absent
  BY AssignmentsOfLive DEF WithFates, Live, Held
<1>5. bodies \in [Cands -> Copies]
  <2>1. \A c \in Cands : bodies[c] \in Copies
    BY <1>3, <1>4 DEF Copies
  <2>2. bodies = [c \in Cands |-> bodies[c]]
    BY DEF WithFates
  <2> QED
    BY <2>1, <2>2
<1> HIDE DEF bodies
<1>6. pool' = bodies /\ arch' = Update(arch, bodies, Live)
  BY <1>2 DEF bodies
<1>7. Live' = Live
  BY <1>3, <1>4, <1>6 DEF Live, Held
<1>8. Routed(arch, arch', bodies, Live)
  <2>1. arch \in ArchiveStates /\ Live \in SUBSET Cands
    BY DEF ValuesTyped, Live, Held
  <2> QED
    BY <1>3, <1>6, <2>1, UpdateRoutes
<1>9. /\ \A c \in Cands \ Live : SameLanes(arch, arch', c)
      /\ \A c \in Live : arch'.fate[c] = fates[c] /\ pool'[c].fate = fates[c]
  BY <1>3, <1>6, <1>8 DEF Routed, LanesOf
<1>10. ValuesTyped'
  BY <1>1, <1>5, <1>6, <1>8 DEF ValuesTyped, Routed
<1>11. TypeOK'
  BY <1>1, <1>7, <1>10, Shapes DEF TypeOK, Stages
<1>12. OffspringAreApart'
  <2>1. \A c \in Held(hand) \union (Cands \ born) : c \in Cands \ Live
    BY DEF OffspringAreApart, TypeOK, Held
  <2> QED
    BY <1>1, <1>7, <1>9, <2>1 DEF OffspringAreApart, SameLanes
<1>13. TerminalIsIndexed'
  BY <1>7, <1>9 DEF TerminalIsIndexed
<1>14. SomebodyStays'
  <2>1. PICK c \in Live : pool[c].fate \notin Terminal
    BY DEF SomebodyStays
  <2>2. fates[c] \notin Terminal
    BY <2>1, AssignmentsOfLive
  <2> QED
    BY <1>7, <1>9, <2>2 DEF SomebodyStays
<1>15. LanesFollowFates'
  <2>1. arch \in ArchiveStates /\ Live \in SUBSET Cands /\ LanesAgree(arch)
    BY DEF ValuesTyped, Live, Held, LanesFollowFates
  <2> QED
    BY <1>8, <2>1, RoutingKeepsLanes DEF LanesFollowFates
<1>16. NobodyVanishes'
  <2> SUFFICES ASSUME NEW c \in born \ (Live \union Held(hand))
               PROVE  c \in Held(arch'.dormant) \union arch'.failure
                      \/ arch'.fate[c] \in {"none", "active"}
    BY <1>1, <1>7 DEF NobodyVanishes
  <2>1. c \in Cands \ Live
    BY DEF TypeOK
  <2> QED
    BY <1>9, <2>1 DEF NobodyVanishes, SameLanes, Held
<1> QED
  BY <1>10, <1>11, <1>12, <1>13, <1>14, <1>15, <1>16

\* The compaction after the ranking.
LEMMA AssessStep == CandidatesKept /\ Assess => CandidatesKept'
<1> SUFFICES ASSUME CandidatesKept, Assess PROVE CandidatesKept'
  OBVIOUS
<1> USE DEF CandidatesKept
<1>1. /\ UNCHANGED <<round, hand, born>> /\ pc' \in {"stopped", "assessed"} /\ pc = "ranked"
      /\ history' = Append(history, plan')
  BY DEF Assess
<1>2. PICK after \in Compactions(pool, arch) : pool' = after.pool /\ arch' = after.arch
  BY DEF Assess
<1>3. pool \in [Cands -> Copies] /\ arch \in ArchiveStates
      /\ \A c \in Held(pool) : pool[c].fate \in Terminal => arch.fate[c] \in Terminal
  BY <1>1 DEF ValuesTyped, TerminalIsIndexed, Stages, Live
<1>4. /\ pool' \in [Cands -> Copies] /\ arch' \in ArchiveStates
      /\ LanesAgree(arch) => LanesAgree(arch')
      /\ Held(pool') \subseteq Held(pool)
      /\ \A c \in (Cands \ Held(pool)) \union Held(pool') : SameLanes(arch, arch', c)
      /\ \A c \in Held(pool) \ Held(pool') : c \in arch'.failure \/ arch'.dormant[c] # Absent
      /\ \A c \in Held(pool') : pool'[c].fate \in Terminal => arch'.fate[c] \in Terminal
      /\ (\E c \in Held(pool) : /\ pool[c].fate \notin Terminal
                                /\ ~(arch.fate[c] \in Terminal /\ Blocked(pool[c])))
                  => \E c \in Held(pool') :
                        /\ pool'[c].fate \notin Terminal
                        /\ ~(arch'.fate[c] \in Terminal /\ Blocked(pool'[c]))
  BY <1>2, <1>3, CompactionEffect
<1>5. Live' = Held(pool') /\ Live = Held(pool)
  BY DEF Live
<1>6. history' \in Seq(Range(history')) /\ Len(history') = Len(history) + 1 /\ Len(history) \in Nat
  <2>1. history \in Seq(Range(history))
    BY DEF ValuesTyped
  <2> QED
    BY <1>1, <2>1, AppendEffect
<1>7. ValuesTyped'
  BY <1>1, <1>4, <1>6 DEF ValuesTyped
<1>8. TypeOK'
  <2>1. Len(history') <= round'
    BY <1>1, <1>6 DEF ValuesTyped
  <2> QED
    BY <1>1, <1>4, <1>5, <1>7, <2>1, Shapes DEF TypeOK, Stages
<1>9. OffspringAreApart'
  <2>1. \A c \in Held(hand) \union (Cands \ born) : c \in Cands \ Live
    BY DEF OffspringAreApart, TypeOK, Held
  <2> QED
    BY <1>1, <1>4, <1>5, <2>1 DEF OffspringAreApart, SameLanes
<1>10. TerminalIsIndexed' /\ LanesFollowFates'
  BY <1>4, <1>5 DEF TerminalIsIndexed, LanesFollowFates
<1>11. SomebodyStays'
  BY <1>1, <1>4, <1>5 DEF SomebodyStays, Stages
<1>12. NobodyVanishes'
  <2> SUFFICES ASSUME NEW c \in born \ (Live' \union Held(hand))
               PROVE  c \in Held(arch'.dormant) \union arch'.failure
                      \/ arch'.fate[c] \in {"none", "active"}
    BY <1>1 DEF NobodyVanishes
  <2>1. c \in Cands
    BY DEF TypeOK
  <2>2. CASE c \in Live
    BY <1>4, <1>5, <2>1, <2>2 DEF Held
  <2>3. CASE c \notin Live
    BY <1>4, <1>5, <2>1, <2>3 DEF NobodyVanishes, SameLanes, Held
  <2> QED
    BY <2>2, <2>3
<1> QED
  BY <1>7, <1>8, <1>9, <1>10, <1>11, <1>12

\* A candidate that is woken leaves its lanes, and is active in the index.
LEMMA ReactivationEffect ==
  ASSUME NEW A \in ArchiveStates, LanesAgree(A), NEW c \in Cands, A.dormant[c] # Absent
  PROVE  LET B == Reactivate(A, c).arch
             b == Reactivate(A, c).body
         IN  /\ B \in ArchiveStates /\ LanesAgree(B) /\ B.fate[c] = "active"
             /\ \A d \in Cands \ {c} : SameLanes(A, B, d)
             /\ b \in Bodies /\ b.fate = "active" /\ A.fate[c] = "dormant"
<1> DEFINE R == RemoveCandidate(A, c)
           B == Reactivate(A, c).arch
           b == Reactivate(A, c).body
<1>1. /\ R \in ArchiveStates /\ R.fate = A.fate
      /\ \A d \in Cands \ {c} : SameLanes(A, R, d)
      /\ R.answer[c] = Absent /\ R.dormant[c] = Absent
      /\ c \notin R.aux /\ c \notin R.failure /\ c \notin R.tomb
      /\ \A n \in DOMAIN R.elite :
            R.elite[n] = NoEntry \/ (R.elite[n] = A.elite[n] /\ A.elite[n].id # c)
  BY RemovalEffect
<1>2. B = [R EXCEPT !.fate[c] = "active"] /\ b = [A.dormant[c] EXCEPT !.fate = "active"]
  BY DEF Reactivate
<1> HIDE DEF R, B, b
<1>3. "active" \in Fates /\ "active" \notin Terminal
  BY DEF Fates, Answering, Terminal
<1>4. /\ B \in ArchiveStates /\ B.fate = [A.fate EXCEPT ![c] = "active"] /\ B.answer = R.answer
      /\ B.dormant = R.dormant /\ B.aux = R.aux /\ B.failure = R.failure /\ B.tomb = R.tomb
      /\ B.elite = R.elite
  BY <1>1, <1>2, <1>3 DEF ArchiveStates
<1>5. A.dormant[c] \in Bodies /\ c \in Held(A.dormant)
  BY DEF ArchiveStates, Copies, Held
<1>6. A.fate[c] = "dormant" /\ b \in Bodies /\ b.fate = "active"
  BY <1>2, <1>3, <1>5 DEF LanesAgree, Bodies
<1>7. B.fate[c] = "active" /\ \A d \in Cands \ {c} : B.fate[d] = A.fate[d]
  BY <1>4 DEF ArchiveStates
<1>8. \A d \in Cands \ {c} : SameLanes(A, B, d)
  BY <1>1, <1>4, <1>7 DEF SameLanes
<1>9. ASSUME NEW d \in Cands
      PROVE  /\ B.answer[d] # Absent => B.fate[d] = "elite"
             /\ B.dormant[d] # Absent => B.fate[d] = "dormant"
             /\ d \in B.aux => B.fate[d] = "auxiliary"
             /\ d \in B.tomb <=> B.fate[d] \in Terminal
  <2>1. CASE d = c
    BY <1>1, <1>3, <1>4, <1>7, <2>1
  <2>2. CASE d # c
    BY <1>8, <2>2 DEF SameLanes, LanesAgree, Held
  <2> QED
    BY <2>1, <2>2
<1>10. B.tomb = {d \in Cands : B.fate[d] \in Terminal} /\ B.aux \subseteq Cands
  BY <1>4, <1>9 DEF ArchiveStates
<1>11. ASSUME NEW e \in Range(B.elite), e # NoEntry PROVE B.fate[e.id] \notin Terminal
  <2>1. PICK n \in DOMAIN R.elite : e = R.elite[n]
    BY <1>4 DEF Range
  <2>2. e = A.elite[n] /\ e.id # c /\ n \in DOMAIN A.elite /\ e.id \in Cands
    BY <1>1, <1>11, <2>1 DEF ArchiveStates, Entries
  <2>3. A.fate[e.id] \notin Terminal
    BY <1>11, <2>2 DEF LanesAgree, Range
  <2> QED
    BY <1>7, <2>2, <2>3
<1>12. LanesAgree(B)
  BY <1>9, <1>10, <1>11 DEF LanesAgree, Held
<1> QED
  BY <1>4, <1>6, <1>7, <1>8, <1>12 DEF B, b

\* The generation: children that nothing holds yet, and at most one sleeper that is woken.
LEMMA GenerateStep == CandidatesKept /\ Generate => CandidatesKept'
<1> SUFFICES ASSUME CandidatesKept, Generate PROVE CandidatesKept'
  OBVIOUS
<1> USE DEF CandidatesKept
<1>1. UNCHANGED <<round, pool, history>> /\ pc' = "offspring" /\ pc = "planned"
  BY DEF Generate
<1>2. PICK k \in 0 .. Min({MaxChildren, Cardinality(Unborn)}), refused \in BOOLEAN,
           back \in Reactivable(arch) \union {0} :
          LET children == Top(Unborn, k, <)
              woken == Reactivate(arch, back)
              accepted == back # 0 /\ pool[back] = Absent /\ ~refused
          IN  /\ born' = born \union children
              /\ arch' = IF back = 0 THEN arch ELSE woken.arch
              /\ hand' = [c \in Cands |-> IF c \in children THEN Newborn
                                          ELSE IF accepted /\ c = back
                                               THEN [woken.body EXCEPT !.new = TRUE]
                                               ELSE Absent]
  BY ZenonT(40) DEF Generate
<1> DEFINE children == Top(Unborn, k, <)
           accepted == back # 0 /\ pool[back] = Absent /\ ~refused
           body == Reactivate(arch, back).body
<1>3. children \subseteq Cands \ born
  BY DEF Top, Unborn
<1> HIDE DEF children
<1>4. /\ born' = born \union children
      /\ arch' = IF back = 0 THEN arch ELSE Reactivate(arch, back).arch
      /\ hand' = [c \in Cands |-> IF c \in children THEN Newborn
                                  ELSE IF accepted /\ c = back THEN [body EXCEPT !.new = TRUE]
                                  ELSE Absent]
  BY <1>2 DEF children
<1>5. /\ arch' \in ArchiveStates /\ LanesAgree(arch')
      /\ \A c \in Cands \ {back} : SameLanes(arch, arch', c)
      /\ back # 0 => /\ back \in Cands /\ arch'.fate[back] = "active" /\ arch.fate[back] = "dormant"
                     /\ body \in Bodies /\ body.fate = "active"
  <2>1. arch \in ArchiveStates /\ LanesAgree(arch)
    BY DEF ValuesTyped, LanesFollowFates
  <2>2. CASE back = 0
    BY <1>4, <2>1, <2>2 DEF SameLanes
  <2>3. CASE back # 0
    <3>1. back \in Cands /\ arch.dormant[back] # Absent
      BY <2>3 DEF Reactivable, Held
    <3> QED
      BY <1>4, <2>1, <2>3, <3>1, ReactivationEffect
  <2> QED
    BY <2>2, <2>3
<1>6. Newborn \in Bodies /\ Newborn # Absent /\ Newborn.fate = "active"
  <2>1. Newborn \in Bodies /\ Newborn.fate = "active"
    BY DEF Newborn, Bodies, Fates, Answering, Verdicts
  <2> QED
    BY <2>1, CopyOfBody
<1>7. accepted => /\ [body EXCEPT !.new = TRUE] \in Bodies /\ [body EXCEPT !.new = TRUE] # Absent
                  /\ [body EXCEPT !.new = TRUE].fate = "active"
  <2> SUFFICES ASSUME accepted
               PROVE  /\ [body EXCEPT !.new = TRUE] \in Bodies /\ [body EXCEPT !.new = TRUE] # Absent
                      /\ [body EXCEPT !.new = TRUE].fate = "active"
    OBVIOUS
  <2>1. body \in Bodies /\ body.fate = "active"
    BY <1>5
  <2> HIDE DEF body
  <2>2. [body EXCEPT !.new = TRUE] \in Bodies /\ [body EXCEPT !.new = TRUE].fate = "active"
    BY <2>1 DEF Bodies
  <2> QED
    BY <2>2, CopyOfBody
<1> HIDE DEF body
<1>8. ASSUME NEW c \in Cands
      PROVE  /\ hand'[c] \in Copies
             /\ hand'[c] # Absent => /\ hand'[c].fate = "active"
                                     /\ c \in children \/ (accepted /\ c = back)
             /\ c \in children => hand'[c] # Absent
  <2>1. CASE c \in children
    BY <1>4, <1>6, <2>1 DEF Copies
  <2>2. CASE c \notin children /\ accepted /\ c = back
    BY <1>4, <1>7, <2>2 DEF Copies
  <2>3. CASE c \notin children /\ ~(accepted /\ c = back)
    BY <1>4, <2>3 DEF Copies
  <2> QED
    BY <2>1, <2>2, <2>3
<1>9. hand' \in [Cands -> Copies]
  <2>1. hand' = [c \in Cands |-> hand'[c]]
    BY <1>4
  <2> QED
    BY <1>8, <2>1
<1>10. back # 0 => back \in born
  <2>1. \A c \in Cands \ born : arch.fate[c] = "none"
    BY DEF OffspringAreApart
  <2> QED
    BY <1>5, <2>1
<1>11. Live' = Live /\ Live \subseteq born /\ born \subseteq Cands
  BY <1>1 DEF Live, TypeOK
<1>12. ValuesTyped'
  BY <1>1, <1>5, <1>9 DEF ValuesTyped
<1>13. TypeOK'
  <2>1. born' \subseteq Cands /\ Live' \union Held(hand') \subseteq born'
    BY <1>3, <1>4, <1>8, <1>10, <1>11 DEF Held
  <2> QED
    BY <1>1, <1>12, <2>1, Shapes DEF TypeOK, Stages
<1>14. OffspringAreApart'
  <2>1. \A c \in Held(hand') : c \notin Live /\ hand'[c].fate = "active"
                               /\ arch'.fate[c] \in {"none", "active"}
    <3> SUFFICES ASSUME NEW c \in Held(hand')
                 PROVE  c \notin Live /\ hand'[c].fate = "active"
                        /\ arch'.fate[c] \in {"none", "active"}
      OBVIOUS
    <3>1. c \in Cands /\ hand'[c].fate = "active" /\ (c \in children \/ (accepted /\ c = back))
      BY <1>8 DEF Held
    <3>2. CASE c \in children
      <4>1. c \notin born /\ c # back
        BY <1>3, <1>5, <1>10, <3>1, <3>2, CandsAreNumbers
      <4>2. arch.fate[c] = "none"
        BY <3>1, <4>1 DEF OffspringAreApart
      <4>3. arch'.fate[c] = arch.fate[c]
        BY <1>5, <3>1, <4>1 DEF SameLanes
      <4> QED
        BY <1>11, <3>1, <4>1, <4>2, <4>3
    <3>3. CASE accepted /\ c = back
      BY <1>5, <3>1, <3>3 DEF Live, Held
    <3> QED
      BY <3>1, <3>2, <3>3
  <2>2. \A c \in Cands \ born' : arch'.fate[c] = "none"
    <3> SUFFICES ASSUME NEW c \in Cands \ born' PROVE arch'.fate[c] = "none"
      OBVIOUS
    <3>1. c \in Cands \ born /\ c # back
      BY <1>4, <1>5, <1>10, CandsAreNumbers
    <3>2. arch'.fate[c] = arch.fate[c]
      BY <1>5, <3>1 DEF SameLanes
    <3> QED
      BY <3>1, <3>2 DEF OffspringAreApart
  <2> QED
    BY <1>11, <2>1, <2>2 DEF OffspringAreApart
<1>15. \A c \in Live : c \in Cands /\ (arch'.fate[c] = arch.fate[c]
                          \/ (c = back /\ back # 0 /\ arch'.fate[c] = "active" /\ arch.fate[c] = "dormant"))
  <2> SUFFICES ASSUME NEW c \in Live
               PROVE  c \in Cands /\ (arch'.fate[c] = arch.fate[c]
                          \/ (c = back /\ back # 0 /\ arch'.fate[c] = "active" /\ arch.fate[c] = "dormant"))
    OBVIOUS
  <2>1. c \in Cands /\ c # 0
    BY <1>11, CandsAreNumbers
  <2> QED
    BY <1>5, <2>1 DEF SameLanes
<1>16. "active" \notin Terminal /\ "dormant" \notin Terminal
  BY DEF Terminal
<1>17. TerminalIsIndexed'
  BY <1>1, <1>11, <1>15, <1>16 DEF TerminalIsIndexed, Stages
<1>18. SomebodyStays'
  BY <1>1, <1>11, <1>15, <1>16 DEF SomebodyStays, Stages
<1>19. LanesFollowFates'
  BY <1>5 DEF LanesFollowFates
<1>20. NobodyVanishes'
  <2> SUFFICES ASSUME NEW c \in born' \ (Live \union Held(hand'))
               PROVE  c \in Held(arch'.dormant) \union arch'.failure
                      \/ arch'.fate[c] \in {"none", "active"}
    BY <1>11 DEF NobodyVanishes
  <2>1. c \in born /\ c \in Cands /\ c \notin Live
    BY <1>3, <1>4, <1>8, <1>11 DEF Held
  <2>2. c # 0
    BY <2>1, CandsAreNumbers
  <2>3. CASE c = back
    BY <1>5, <2>2, <2>3
  <2>4. CASE c # back
    <3>1. SameLanes(arch, arch', c)
      BY <1>5, <2>1, <2>4
    <3>2. CASE c \in Held(hand)
      BY <3>1, <3>2 DEF OffspringAreApart, SameLanes
    <3>3. CASE c \notin Held(hand)
      BY <2>1, <3>1, <3>3 DEF NobodyVanishes, SameLanes, Held
    <3> QED
      BY <3>2, <3>3
  <2> QED
    BY <2>3, <2>4
<1> QED
  BY <1>12, <1>13, <1>14, <1>17, <1>18, <1>19, <1>20

\* What the verification makes of an offspring is a body; only a failure is terminal.
LEMMA VerifiedBody ==
  ASSUME NEW b \in Bodies, b.fate = "active", NEW result \in {"passed", "repairable", "failed"}
  PROVE  /\ Verified(b, result) \in Bodies /\ Verified(b, result) # Absent
         /\ result = "failed" => Verified(b, result).fate = "failed"
         /\ Verified(b, result).fate \in Terminal => result = "failed"
<1>1. "failed" \in Fates /\ "incubating" \in Fates /\ {"broken", "flawed"} \subseteq Verdicts
      /\ "active" \notin Terminal /\ "incubating" \notin Terminal
  BY DEF Fates, Terminal, Verdicts
<1>2. CASE result = "passed"
  BY <1>1, <1>2, CopyOfBody DEF Verified
<1>3. CASE result = "repairable"
  <2>1. Verified(b, result) = [b EXCEPT !.fate = "incubating", !.verdict = "flawed"]
    BY <1>3 DEF Verified
  <2>2. Verified(b, result) \in Bodies /\ Verified(b, result).fate = "incubating"
    BY <1>1, <2>1 DEF Bodies
  <2> QED
    BY <1>1, <1>3, <2>2, CopyOfBody
<1>4. CASE result = "failed"
  <2>1. Verified(b, result) = [b EXCEPT !.fate = "failed", !.verdict = "broken"]
    BY <1>4 DEF Verified
  <2>2. Verified(b, result) \in Bodies /\ Verified(b, result).fate = "failed"
    BY <1>1, <2>1 DEF Bodies
  <2> QED
    BY <1>4, <2>2, CopyOfBody
<1> QED
  BY <1>2, <1>3, <1>4

\* An integration, whether or not its receipts are accepted.
Joining ==
    /\ JoinPopulation /\ pc' \in {"idle", "stopped"}
    /\ history' = history \/ \E p : history' = Record(p)

\* The two ends of an integration.
LEMMA TwoJoinings == Integrate \/ RefuseReceipt => Joining
<1>1. Integrate => Joining
  BY DEF Integrate, Joining
<1>2. RefuseReceipt => Joining
  BY DEF RefuseReceipt, Joining
<1> QED
  BY <1>1, <1>2

\* The integration: failures go to the archives, all join, and the population is compacted.
LEMMA IntegrateStep == CandidatesKept /\ Joining => CandidatesKept'
<1> SUFFICES ASSUME CandidatesKept, Joining PROVE CandidatesKept'
  OBVIOUS
<1> USE DEF CandidatesKept
<1>1. /\ UNCHANGED <<round, born>> /\ pc = "offspring" /\ pc' \in {"idle", "stopped"}
      /\ hand' = Empty
  BY DEF Joining, JoinPopulation
<1>h. history' \in Seq(Range(history')) /\ Len(history') = Len(history)
  BY RecordEffect DEF Joining, ValuesTyped
<1>2. PICK result \in [Held(hand) -> {"passed", "repairable", "failed"}] :
          LET verified == [c \in Cands |-> IF c \in Held(hand) THEN Verified(hand[c], result[c])
                                           ELSE Absent]
              failed == {c \in Held(hand) : result[c] = "failed"}
              joined == [c \in Cands |-> IF c \in Held(hand) THEN verified[c] ELSE pool[c]]
          IN  \E after \in Compactions(joined, Update(arch, verified, failed)) :
                 pool' = after.pool /\ arch' = after.arch
  BY DEF Joining, JoinPopulation
<1> DEFINE verified == [c \in Cands |-> IF c \in Held(hand) THEN Verified(hand[c], result[c])
                                        ELSE Absent]
           failed == {c \in Held(hand) : result[c] = "failed"}
           joined == [c \in Cands |-> IF c \in Held(hand) THEN verified[c] ELSE pool[c]]
           B == Update(arch, verified, failed)
<1>3. PICK after \in Compactions(joined, B) : pool' = after.pool /\ arch' = after.arch
  BY <1>2
<1>4. ASSUME NEW c \in Held(hand)
      PROVE  /\ c \in Cands /\ verified[c] \in Bodies /\ verified[c] # Absent
             /\ c \in failed => verified[c].fate = "failed"
             /\ verified[c].fate \in Terminal => c \in failed
  <2>1. c \in Cands /\ hand[c] \in Bodies /\ hand[c].fate = "active"
    BY DEF Held, ValuesTyped, Copies, OffspringAreApart
  <2>2. verified[c] = Verified(hand[c], result[c])
    BY <2>1
  <2>3. result[c] \in {"passed", "repairable", "failed"} /\ (c \in failed <=> result[c] = "failed")
    BY <1>2
  <2> HIDE DEF verified, failed
  <2> QED
    BY <2>1, <2>2, <2>3, VerifiedBody
<1>5. failed \subseteq Held(hand) /\ Held(hand) \subseteq Cands
  BY DEF Held
<1>6. \A c \in Held(hand) : joined[c] = verified[c]
  BY <1>5
<1>7. \A c \in Cands \ Held(hand) : joined[c] = pool[c]
  OBVIOUS
<1>8. joined \in [Cands -> Copies]
  <2>1. \A c \in Cands : joined[c] \in Copies
    BY <1>4, <1>6, <1>7 DEF ValuesTyped, Copies
  <2>2. joined = [c \in Cands |-> joined[c]]
    OBVIOUS
  <2> HIDE DEF joined
  <2> QED
    BY <2>1, <2>2
<1> HIDE DEF verified, failed, joined
<1>9. Held(joined) = Live \union Held(hand)
  BY <1>4, <1>6, <1>7 DEF Live, Held
<1>10. arch \in ArchiveStates /\ LanesAgree(arch) /\ Held(hand) \intersect Live = {}
  BY DEF ValuesTyped, LanesFollowFates, OffspringAreApart
<1>11. Routed(arch, B, verified, failed)
  <2>1. \A c \in failed : verified[c] \in Bodies
    BY <1>4, <1>5
  <2> QED
    BY <1>5, <1>10, <2>1, UpdateRoutes
<1> HIDE DEF B
<1>12. B \in ArchiveStates /\ LanesAgree(B) /\ \A c \in Cands \ failed : SameLanes(arch, B, c)
  <2>1. failed \in SUBSET Cands
    BY <1>5
  <2> QED
    BY <1>10, <1>11, <2>1, RoutingKeepsLanes DEF Routed
<1>13. \A c \in Held(joined) : joined[c].fate \in Terminal => B.fate[c] \in Terminal
  <2> SUFFICES ASSUME NEW c \in Held(joined), joined[c].fate \in Terminal
               PROVE  B.fate[c] \in Terminal
    OBVIOUS
  <2>1. CASE c \in Held(hand)
    <3>1. c \in failed /\ verified[c].fate \in Terminal
      BY <1>4, <1>6, <2>1
    <3> QED
      BY <1>11, <3>1 DEF Routed, LanesOf
  <2>2. CASE c \notin Held(hand)
    <3>1. c \in Live /\ c \in Cands \ failed /\ pool[c].fate \in Terminal
      BY <1>5, <1>7, <1>9, <2>2 DEF Live, Held
    <3> QED
      BY <1>1, <1>12, <3>1 DEF TerminalIsIndexed, Stages, SameLanes
  <2> QED
    BY <2>1, <2>2
<1>14. PICK stays \in Held(joined) :
          /\ joined[stays].fate \notin Terminal
          /\ ~(B.fate[stays] \in Terminal /\ Blocked(joined[stays]))
  <2>1. PICK c \in Live : /\ pool[c].fate \notin Terminal
                          /\ ~(arch.fate[c] \in Terminal /\ Blocked(pool[c]))
    BY <1>1 DEF SomebodyStays, Stages
  <2>2. c \in Cands \ Held(hand) /\ c \in Cands \ failed
    BY <1>5, <1>10 DEF Live, Held
  <2> QED
    BY <1>7, <1>9, <1>12, <2>1, <2>2 DEF SameLanes
<1>15. /\ pool' \in [Cands -> Copies] /\ arch' \in ArchiveStates
       /\ LanesAgree(B) => LanesAgree(arch')
       /\ Held(pool') \subseteq Held(joined)
       /\ \A c \in (Cands \ Held(joined)) \union Held(pool') : SameLanes(B, arch', c)
       /\ \A c \in Held(joined) \ Held(pool') : c \in arch'.failure \/ arch'.dormant[c] # Absent
       /\ \E c \in Held(pool') : pool'[c].fate \notin Terminal
  BY <1>3, <1>8, <1>12, <1>13, <1>14, CompactionEffect
<1>16. Live' = Held(pool') /\ Held(hand') = {} /\ Empty \in [Cands -> Copies]
  BY <1>1 DEF Live, Held, Empty, Copies
<1>17. ValuesTyped'
  BY <1>1, <1>h, <1>15, <1>16 DEF ValuesTyped
<1>18. TypeOK'
  <2>1. Len(history') <= round'
    BY <1>1, <1>h DEF TypeOK
  <2>2. Live' \union Held(hand') \subseteq born'
    BY <1>1, <1>9, <1>15, <1>16 DEF TypeOK
  <2> QED
    BY <1>1, <1>17, <2>1, <2>2, Shapes DEF TypeOK
<1>19. OffspringAreApart'
  <2> SUFFICES ASSUME NEW c \in Cands \ born PROVE arch'.fate[c] = "none"
    BY <1>1, <1>16 DEF OffspringAreApart
  <2>1. c \in Cands \ Held(joined) /\ c \in Cands \ failed
    BY <1>5, <1>9 DEF TypeOK
  <2> QED
    BY <1>12, <1>15, <2>1 DEF SameLanes, OffspringAreApart
<1>20. TerminalIsIndexed' /\ SomebodyStays' /\ LanesFollowFates'
  BY <1>1, <1>12, <1>15, <1>16 DEF TerminalIsIndexed, SomebodyStays, LanesFollowFates, Stages
<1>21. NobodyVanishes'
  <2> SUFFICES ASSUME NEW c \in born \ Live'
               PROVE  c \in Held(arch'.dormant) \union arch'.failure
                      \/ arch'.fate[c] \in {"none", "active"}
    BY <1>1, <1>16 DEF NobodyVanishes
  <2>1. c \in Cands
    BY DEF TypeOK
  <2>2. CASE c \in Held(joined)
    BY <1>15, <1>16, <2>1, <2>2 DEF Held
  <2>3. CASE c \notin Held(joined)
    <3>1. c \in born \ (Live \union Held(hand)) /\ c \in Cands \ failed
      BY <1>5, <1>9, <2>1, <2>3
    <3>2. SameLanes(arch, B, c) /\ SameLanes(B, arch', c)
      BY <1>12, <1>15, <2>1, <2>3, <3>1
    <3> QED
      BY <2>1, <3>1, <3>2 DEF NobodyVanishes, SameLanes, Held
  <2> QED
    BY <2>2, <2>3
<1> QED
  BY <1>17, <1>18, <1>19, <1>20, <1>21

\* The invariant holds when a search is seeded.
LEMMA InitIInv == Init => IInv
<1> SUFFICES ASSUME Init PROVE IInv
  OBVIOUS
<1> USE DEF Init
<1>1. "absent" \notin Fates /\ "active" \in Fates /\ "active" \notin Terminal
  BY DEF Fates, Answering, Terminal
<1>2. [Newborn EXCEPT !.new = FALSE] \in Bodies /\ [Newborn EXCEPT !.new = FALSE].fate = "active"
  BY <1>1 DEF Newborn, Bodies, Verdicts
<1>3. Seeds \subseteq Cands /\ Seeds # {}
  BY GenerationAssumption
<1>4. pool \in [Cands -> Copies] /\ \A c \in Seeds : pool[c] = [Newborn EXCEPT !.new = FALSE]
  BY <1>2, <1>3 DEF Copies
<1>5. Live = Seeds
  <2>1. \A c \in Seeds : pool[c] # Absent
    BY <1>2, <1>4, CopyOfBody
  <2>2. \A c \in Cands \ Seeds : pool[c] = Absent
    OBVIOUS
  <2> QED
    BY <1>3, <2>1, <2>2 DEF Live, Held
<1>6. Held(hand) = {} /\ hand \in [Cands -> Copies]
  BY DEF Empty, Held, Copies
<1>7. /\ arch \in ArchiveStates /\ \A c \in Cands : arch.fate[c] = "none"
      /\ \A c \in Cands : arch.answer[c] = Absent /\ arch.dormant[c] = Absent
      /\ arch.aux = {} /\ arch.tomb = {} /\ \A n \in DOMAIN arch.elite : arch.elite[n] = NoEntry
  BY DEF EmptyArchives, ArchiveStates, Copies, Entries
<1>8. history \in Seq(Range(history)) /\ Len(history) = 0 /\ DOMAIN history = {}
  OBVIOUS
<1>9. ValuesTyped
  BY <1>4, <1>6, <1>7, <1>8 DEF ValuesTyped
<1>10. TypeOK
  <2>1. Range(pool) \union Range(hand) \subseteq Bodies \union {Absent}
    BY <1>9 DEF ValuesTyped, Copies, Range
  <2>2. /\ arch.answer \in [Cands -> Copies] /\ arch.dormant \in [Cands -> Copies]
        /\ arch.fate \in [Cands -> Fates \union {"none"}]
    BY <1>7 DEF ArchiveStates
  <2>3. /\ Range(arch.answer) \union Range(arch.dormant) \subseteq Bodies \union {Absent}
        /\ Range(arch.fate) \subseteq Fates \union {"none"}
    BY <2>2 DEF Copies, Range
  <2>4. round \in 0 .. MaxRound /\ Len(history) <= round
    BY <1>8, GenerationAssumption
  <2> QED
    BY <1>3, <1>5, <1>6, <2>1, <2>3, <2>4 DEF TypeOK
<1>11. OffspringAreApart /\ NobodyVanishes
  BY <1>5, <1>6, <1>7 DEF OffspringAreApart, NobodyVanishes
<1>12. SomebodyStays
  BY <1>1, <1>2, <1>3, <1>4, <1>5 DEF SomebodyStays, Stages
<1>13. TerminalIsIndexed /\ PlanIsApplied /\ HistoryReplays
  BY <1>8 DEF TerminalIsIndexed, PlanIsApplied, HistoryReplays, Stages
<1>14. LanesFollowFates
  <2>1. "none" \notin Terminal
    BY DEF Terminal
  <2> QED
    BY <1>7, <2>1 DEF LanesFollowFates, LanesAgree, Held, Range
<1> QED
  BY <1>9, <1>10, <1>11, <1>12, <1>13, <1>14 DEF IInv, CandidatesKept

\* Every step keeps what is said of the candidates.
LEMMA CandidatesStep == CandidatesKept /\ [Next]_vars => CandidatesKept'
<1> SUFFICES ASSUME CandidatesKept, [Next]_vars PROVE CandidatesKept'
  OBVIOUS
<1>1. CASE Evaluate
  BY <1>1, EvaluateStep
<1>2. CASE Rank
  BY <1>2, RankStep
<1>3. CASE Assess
  BY <1>3, AssessStep
<1>4. CASE SelectParents \/ PlanMutations \/ Interrupt
  <2>1. history' = history /\ history \in Seq(Range(history))
    BY <1>4 DEF SelectParents, PlanMutations, Interrupt, CandidatesKept, ValuesTyped
  <2>2. /\ UNCHANGED <<round, pool, arch, born>> /\ (hand' = hand \/ hand' = Empty)
        /\ pc' \in {"idle", "stopped", "parents", "planned"}
        /\ pc' \in Stages => pc \in Stages
    BY <1>4 DEF SelectParents, PlanMutations, Interrupt, Stages
  <2> QED
    BY <2>1, <2>2, QuietStep
<1>5. CASE Generate
  BY <1>5, GenerateStep
<1>6. CASE NoOffspring
  <2>1. history' \in Seq(Range(history')) /\ Len(history') = Len(history)
    BY <1>6, RecordEffect DEF NoOffspring, CandidatesKept, ValuesTyped
  <2>2. /\ UNCHANGED <<round, pool, arch, born>> /\ hand' = hand
        /\ pc' \in {"idle", "stopped"}
    BY <1>6 DEF NoOffspring
  <2>3. pc' \notin Stages
    BY <2>2 DEF Stages
  <2> QED
    BY <2>1, <2>2, <2>3, QuietStep
<1>7. CASE Integrate \/ RefuseReceipt
  BY <1>7, TwoJoinings, IntegrateStep
<1>8. CASE UNCHANGED vars
  BY <1>8 DEF vars, CandidatesKept, TypeOK, ValuesTyped, OffspringAreApart, TerminalIsIndexed,
     SomebodyStays, LanesFollowFates, NobodyVanishes, Live
<1> QED
  BY <1>1, <1>2, <1>3, <1>4, <1>5, <1>6, <1>7, <1>8 DEF Next, Rest

\* The inductive invariant holds in every state.
THEOREM Invariance == Spec => []IInv
<1>1. IInv /\ [Next]_vars => IInv'
  BY CandidatesStep, PlanStep DEF IInv
<1> QED
  BY <1>1, InitIInv, PTL DEF Spec

\* The state keeps its types.
THEOREM TypeCorrect == Spec => []TypeOK
<1>1. IInv => TypeOK
  BY DEF IInv, CandidatesKept
<1> QED
  BY <1>1, Invariance, PTL

\* The lanes of the archives hold only candidates whose newest fate is the lane's, in
\* whatever order the updates route them.
THEOREM LanesFollow == Spec => []LanesFollowFates
<1>1. IInv => LanesFollowFates
  BY DEF IInv, CandidatesKept
<1> QED
  BY <1>1, Invariance, PTL

\* The compactions lose nobody: who is not live is asleep or recorded as a failure.
THEOREM NobodyIsLost == Spec => []NobodyVanishes
<1>1. IInv => NobodyVanishes
  BY DEF IInv, CandidatesKept
<1> QED
  BY <1>1, Invariance, PTL

\* A seeded population never dies out, whatever the evaluators and the ranking say.
THEOREM PopulationLives == Spec => []NeverEmpty
<1>1. IInv => NeverEmpty
  BY DEF IInv, CandidatesKept, SomebodyStays, NeverEmpty
<1> QED
  BY <1>1, Invariance, PTL

\* Each recorded plan passes the validation of a resume but for its parents.
THEOREM RecordsReplay == Spec => []HistoryReplays
<1>1. IInv => HistoryReplays
  BY DEF IInv
<1> QED
  BY <1>1, Invariance, PTL

\* The order of the candidates is total: whoever is not better is worse.
LEMMA BetterOrders ==
  ASSUME NEW p
  PROVE  /\ \A c, d \in Cands : c # d => Better(p[c], c, p[d], d) \/ Better(p[d], d, p[c], c)
         /\ \A c, d, e \in Cands :
               Better(p[c], c, p[d], d) /\ Better(p[d], d, p[e], e) => Better(p[c], c, p[e], e)
<1> DEFINE t(c) == Tier(p[c])
<1>1. \A c \in Cands : t(c) \in 0 .. 2 /\ Score[c] \in Nat /\ c \in Nat
  BY CandsAreNumbers, GenerationAssumption DEF Tier
<1>2. \A c, d \in Cands :
         Better(p[c], c, p[d], d) <=>
            \/ t(c) > t(d)
            \/ t(c) = t(d) /\ (Score[c] > Score[d] \/ (Score[c] = Score[d] /\ c > d))
  BY DEF Better
<1> HIDE DEF t
<1>3. ASSUME NEW c \in Cands, NEW d \in Cands, c # d
      PROVE  Better(p[c], c, p[d], d) \/ Better(p[d], d, p[c], c)
  BY <1>1, <1>2, <1>3
<1>4. ASSUME NEW c \in Cands, NEW d \in Cands, NEW e \in Cands,
             Better(p[c], c, p[d], d), Better(p[d], d, p[e], e)
      PROVE  Better(p[c], c, p[e], e)
  BY <1>1, <1>2, <1>4
<1> QED
  BY <1>3, <1>4

\* Among measured candidates one is the incumbent, and better than the others.
LEMMA IncumbentIsBest ==
  ASSUME NEW p, NEW c \in Held(p), p[c].measured
  PROVE  /\ Incumbent(p) \in Held(p) /\ p[Incumbent(p)].measured
         /\ c # Incumbent(p) => Better(p[Incumbent(p)], Incumbent(p), p[c], c)
<1> DEFINE measured == {d \in Held(p) : p[d].measured}
           upTo(n) == {d \in measured : d <= n}
           Best(i, n) == i \in upTo(n) /\ \A d \in upTo(n) \ {i} : Better(p[i], i, p[d], d)
           S == {n \in Nat : upTo(n) = {} \/ \E i : Best(i, n)}
<1>1. measured \subseteq Cands /\ c \in measured /\ \A d \in measured : d \in Nat /\ d > 0
  BY CandsAreNumbers DEF Held
<1>2. 0 \in S
  BY <1>1
<1>3. ASSUME NEW n \in Nat, n \in S PROVE n + 1 \in S
  <2>1. CASE n + 1 \notin measured
    <3>1. upTo(n + 1) = upTo(n)
      BY <1>1, <2>1
    <3> QED
      BY <1>3, <3>1
  <2>2. CASE n + 1 \in measured
    <3>1. upTo(n + 1) = upTo(n) \union {n + 1}
      BY <1>1, <2>2
    <3>2. n + 1 \in Cands /\ upTo(n) \subseteq Cands
      BY <1>1, <2>2
    <3> HIDE DEF upTo
    <3>3. CASE upTo(n) = {}
      <4>1. Best(n + 1, n + 1)
        BY <3>1, <3>3
      <4> QED
        BY <4>1
    <3>4. ASSUME NEW i, Best(i, n) PROVE n + 1 \in S
      <4>1. i \in Cands /\ i \in upTo(n)
        BY <3>2, <3>4
      <4>2. CASE i = n + 1
        <5>1. Best(i, n + 1)
          BY <3>1, <3>4, <4>2
        <5> QED
          BY <5>1
      <4>3. CASE i # n + 1 /\ Better(p[i], i, p[n + 1], n + 1)
        <5>1. Best(i, n + 1)
          BY <3>1, <3>4, <4>3
        <5> QED
          BY <5>1
      <4>4. CASE i # n + 1 /\ Better(p[n + 1], n + 1, p[i], i)
        <5>1. ASSUME NEW d \in upTo(n + 1) \ {n + 1}
              PROVE  Better(p[n + 1], n + 1, p[d], d)
          <6>1. d \in upTo(n) /\ d \in Cands
            BY <3>1, <3>2, <5>1
          <6>2. d = i \/ Better(p[i], i, p[d], d)
            BY <3>4, <6>1
          <6> QED
            BY <3>2, <4>1, <4>4, <6>1, <6>2, BetterOrders
        <5>2. Best(n + 1, n + 1)
          BY <3>1, <5>1
        <5> QED
          BY <5>2
      <4> QED
        BY <3>2, <4>1, <4>2, <4>3, <4>4, BetterOrders
    <3> QED
      BY <1>3, <3>3, <3>4
  <2> QED
    BY <2>1, <2>2
<1>4. \A n \in Nat : n \in S
  <2> HIDE DEF S
  <2> QED
    BY <1>2, <1>3, Induction
<1>5. upTo(Cardinality(Cands)) = measured
  BY <1>1, CandsAreNumbers
<1>6. PICK i \in measured : \A d \in measured \ {i} : Better(p[i], i, p[d], d)
  <2>1. Cardinality(Cands) \in S
    BY <1>4, CandsAreNumbers
  <2> QED
    BY <1>1, <1>5, <2>1
<1>7. Incumbent(p) = CHOOSE d \in measured : \A e \in measured \ {d} : Better(p[d], d, p[e], e)
  BY <1>1 DEF Incumbent
<1>8. /\ Incumbent(p) \in measured
      /\ \A d \in measured \ {Incumbent(p)} : Better(p[Incumbent(p)], Incumbent(p), p[d], d)
  <2> HIDE DEF measured
  <2> QED
    BY <1>6, <1>7
<1> QED
  BY <1>1, <1>8

\* What a compaction spares: the candidates that await their measurement, and a better one of
\* every measured candidate it only parks.
LEMMA CompactionSparesSome ==
  ASSUME NEW p \in [Cands -> Copies], NEW A \in ArchiveStates, NEW after \in Compactions(p, A)
  PROVE  /\ \A c \in Held(p) : Awaiting(p[c]) => after.pool[c] # Absent
         /\ \A c \in Held(p) :
               (after.pool[c] = Absent /\ p[c].measured /\ after.arch.fate[c] \notin Terminal) =>
                  \E d \in Held(after.pool) :
                     after.pool[d].measured /\ Better(after.pool[d], d, p[c], c)
<1> DEFINE doomed == Doomed(p, A)
           indexed == [c \in Cands |-> [p[c] EXCEPT !.fate = IndexFate(A, c, p[c])]]
           tombs == Update(A, indexed, doomed)
           kept == Retained(p, A)
           parked == [c \in Cands |-> [kept[c] EXCEPT !.fate = "dormant"]]
<1>p. PICK turned \in Parkings(kept, tombs) :
         after = [pool |-> [c \in Cands |-> IF c \in turned THEN Absent ELSE kept[c]],
                  arch |-> Update(tombs, parked, turned)]
  BY DEF Compactions
<1>a. PICK a \in BestAnswers(tombs, kept) :
         \E s \in Survivors(Held(kept) \ Protected(kept, tombs, a)) :
            turned = (Held(kept) \ Protected(kept, tombs, a)) \ s
  BY DEF Parkings
<1> DEFINE competing == Held(kept) \ Protected(kept, tombs, a)
<1>1. PICK s \in Survivors(competing) :
         after = [pool |-> [c \in Cands |-> IF c \in competing \ s THEN Absent ELSE kept[c]],
                  arch |-> Update(tombs, parked, competing \ s)]
  BY <1>p, <1>a
<1> DEFINE away == competing \ s
<1>2. doomed \subseteq Held(p) /\ Held(p) \subseteq Cands /\ Held(kept) \subseteq Cands
  BY DEF Doomed, Held
<1>3. \A c \in Held(p) : p[c] \in Bodies
  BY DEF Held, Copies
<1>4. Routed(A, tombs, indexed, doomed) /\ \A c \in doomed : indexed[c].fate \in Terminal
  <2>1. ASSUME NEW c \in doomed
        PROVE  indexed[c] \in Bodies /\ indexed[c].fate \in Terminal
    <3>1. c \in Cands /\ p[c] \in Bodies /\ IndexFate(A, c, p[c]) \in Terminal
      BY <1>2, <1>3 DEF Doomed
    <3>2. indexed[c] = [p[c] EXCEPT !.fate = IndexFate(A, c, p[c])]
      BY <3>1
    <3>3. IndexFate(A, c, p[c]) \in Fates
      BY <3>1 DEF Fates
    <3> HIDE DEF indexed
    <3> QED
      BY <3>1, <3>2, <3>3, BodyWithFate DEF Bodies
  <2> HIDE DEF indexed, doomed
  <2>2. doomed \in SUBSET Cands
    BY <1>2
  <2> QED
    BY <2>1, <2>2, UpdateRoutes
<1>5. ASSUME NEW c \in Held(p), c \notin doomed
      PROVE  /\ c \in Held(kept) /\ kept[c] \in Bodies
             /\ kept[c].measured = p[c].measured /\ kept[c].verdict = p[c].verdict
             /\ Awaiting(kept[c]) = Awaiting(p[c])
  <2>1. c \in Cands /\ p[c] \in Bodies /\ p[c] # Absent
    BY <1>3 DEF Held
  <2>2. CASE kept[c] = p[c]
    BY <2>1, <2>2 DEF Held
  <2>3. CASE kept[c] # p[c]
    <3>1. kept[c] = [p[c] EXCEPT !.fate = "dormant"]
      BY <1>5, <2>1, <2>3 DEF Retained
    <3>2. kept[c] \in Bodies /\ kept[c] # Absent
      BY <2>1, <3>1, BodyWithFate DEF Fates
    <3> HIDE DEF kept
    <3> QED
      BY <2>1, <3>1, <3>2 DEF Bodies, Awaiting, Held
  <2> QED
    BY <2>2, <2>3
<1>6. \A c \in doomed : ~Awaiting(p[c])
  BY DEF Doomed
<1>7. \A c \in competing : ~Awaiting(kept[c]) /\ c # Incumbent(kept)
  BY DEF Protected
<1>8. Held(kept) \subseteq Held(p) \ doomed
  BY DEF Retained, Held
<1>9. kept \in [Cands -> Copies]
  <2>1. \A c \in Cands : kept[c] \in Copies
    <3> SUFFICES ASSUME NEW c \in Cands PROVE kept[c] \in Copies
      OBVIOUS
    <3>1. CASE kept[c] = Absent
      BY <3>1 DEF Copies
    <3>2. CASE kept[c] # Absent
      <4>1. c \in Held(p) /\ c \notin doomed
        BY <1>8, <3>2 DEF Held
      <4> QED
        BY <1>5, <4>1 DEF Copies
    <3> QED
      BY <3>1, <3>2
  <2>2. kept = [c \in Cands |-> kept[c]]
    BY DEF Retained
  <2> HIDE DEF kept
  <2> QED
    BY <2>1, <2>2
<1> HIDE DEF doomed, indexed, tombs, kept
<1>10. away \subseteq Held(kept) /\ away \subseteq competing
  OBVIOUS
<1>11. \A c \in away : parked[c] \in Bodies
  <2> SUFFICES ASSUME NEW c \in away PROVE parked[c] \in Bodies
    OBVIOUS
  <2>1. c \in Cands /\ kept[c] \in Bodies
    BY <1>2, <1>5, <1>8, <1>10
  <2>2. parked[c] = [kept[c] EXCEPT !.fate = "dormant"]
    BY <2>1
  <2> QED
    BY <2>1, <2>2, BodyWithFate DEF Fates
<1> HIDE DEF parked
<1>12. competing \subseteq Held(kept) /\ \A d \in Held(kept) \ competing : d \in Protected(kept, tombs, a)
  OBVIOUS
<1>13. ASSUME Incumbent(kept) \in Held(kept) PROVE Incumbent(kept) \notin away
  BY <1>7, <1>10
<1> HIDE DEF competing, away
<1>14. Routed(tombs, after.arch, parked, away)
  <2>1. tombs \in ArchiveStates /\ away \in SUBSET Cands
    BY <1>2, <1>4, <1>10 DEF Routed
  <2>2. after.arch = Update(tombs, parked, away)
    BY <1>1 DEF away
  <2> QED
    BY <1>11, <2>1, <2>2, UpdateRoutes
<1>15. after.pool = [c \in Cands |-> IF c \in away THEN Absent ELSE kept[c]]
  BY <1>1 DEF away
<1>16. Held(after.pool) = Held(kept) \ away /\ \A c \in Held(after.pool) : after.pool[c] = kept[c]
  BY <1>15 DEF Held
<1>17. ASSUME NEW c \in Held(p), Awaiting(p[c]) PROVE after.pool[c] # Absent
  <2>1. c \notin doomed /\ c \in Held(kept) /\ Awaiting(kept[c])
    BY <1>5, <1>6, <1>17
  <2>2. c \notin away
    BY <1>7, <1>10, <2>1
  <2> QED
    BY <1>16, <2>1, <2>2 DEF Held
<1>18. ASSUME NEW c \in Held(p), after.pool[c] = Absent, p[c].measured,
              after.arch.fate[c] \notin Terminal
       PROVE  \E d \in Held(after.pool) :
                 after.pool[d].measured /\ Better(after.pool[d], d, p[c], c)
  <2>1. c \notin doomed
    <3> SUFFICES ASSUME c \in doomed PROVE FALSE
      OBVIOUS
    <3>1. tombs.fate[c] \in Terminal /\ c \in Cands \ away
      BY <1>2, <1>4, <1>8, <1>10 DEF Routed, LanesOf
    <3>2. after.arch.fate[c] = tombs.fate[c]
      BY <1>14, <3>1 DEF Routed, SameLanes
    <3> QED
      BY <1>18, <3>1, <3>2
  <2>2. c \in Held(kept) /\ kept[c].measured /\ kept[c].verdict = p[c].verdict
    BY <1>5, <1>18, <2>1
  <2>3. c \in away
    <3>1. c \notin Held(after.pool)
      BY <1>18 DEF Held
    <3> QED
      BY <1>16, <2>2, <3>1
  <2> DEFINE i == Incumbent(kept)
  <2>4. i \in Held(kept) /\ kept[i].measured /\ (c # i => Better(kept[i], i, kept[c], c))
    BY <2>2, IncumbentIsBest
  <2>5. c # i /\ i \in Held(after.pool) /\ after.pool[i] = kept[i]
    BY <1>7, <1>10, <1>13, <1>16, <2>3, <2>4
  <2>6. Better(after.pool[i], i, p[c], c)
    <3>1. Tier(kept[c]) = Tier(p[c])
      BY <1>18, <2>2 DEF Tier, Passed
    <3> QED
      BY <2>4, <2>5, <3>1 DEF Better
  <2> QED
    BY <2>4, <2>5, <2>6
<1> QED
  BY <1>17, <1>18

\* Nobody is in hand before the offspring stage, and who is in hand is new.
LEMMA HandStep == CandidatesKept /\ HandIsNew /\ [Next]_vars => HandIsNew'
<1> SUFFICES ASSUME CandidatesKept, HandIsNew, [Next]_vars PROVE HandIsNew'
  OBVIOUS
<1>0. arch \in ArchiveStates /\ LanesAgree(arch)
  BY DEF CandidatesKept, ValuesTyped, LanesFollowFates
<1>1. CASE Generate
  <2>1. pc' = "offspring"
    BY <1>1 DEF Generate
  <2>2. PICK k \in 0 .. Min({MaxChildren, Cardinality(Unborn)}), refused \in BOOLEAN,
             back \in Reactivable(arch) \union {0} :
          LET children == Top(Unborn, k, <)
              woken == Reactivate(arch, back)
              accepted == back # 0 /\ pool[back] = Absent /\ ~refused
          IN  hand' = [c \in Cands |-> IF c \in children THEN Newborn
                                       ELSE IF accepted /\ c = back
                                            THEN [woken.body EXCEPT !.new = TRUE]
                                            ELSE Absent]
    BY <1>1, ZenonT(40) DEF Generate
  <2>3. ASSUME NEW c \in Held(hand') PROVE hand'[c].new
    <3>1. c \in Cands /\ hand'[c] # Absent
      BY DEF Held
    <3>2. CASE hand'[c] = Newborn
      BY <3>2 DEF Newborn
    <3>3. CASE hand'[c] # Newborn
      <4>1. back \in Held(arch.dormant) /\ hand'[c] = [Reactivate(arch, back).body EXCEPT !.new = TRUE]
        BY <2>2, <3>1, <3>3 DEF Reactivable
      <4>2. back \in Cands /\ arch.dormant[back] # Absent
        BY <4>1 DEF Held
      <4>3. Reactivate(arch, back).body \in Bodies
        BY <1>0, <4>2, ReactivationEffect
      <4> QED
        BY <4>1, <4>3 DEF Bodies
    <3> QED
      BY <3>2, <3>3
  <2> QED
    BY <2>1, <2>3 DEF HandIsNew
<1>2. CASE Integrate \/ RefuseReceipt \/ Interrupt
  <2>1. hand' = Empty
    BY <1>2 DEF Integrate, RefuseReceipt, JoinPopulation, Interrupt
  <2>2. Held(hand') = {}
    BY <2>1 DEF Held, Empty
  <2> QED
    BY <2>2 DEF HandIsNew
<1>3. CASE Evaluate \/ Rank \/ Assess \/ SelectParents \/ PlanMutations \/ NoOffspring
  <2>1. CASE NoOffspring
    BY <2>1 DEF NoOffspring, HandIsNew
  <2>2. CASE Evaluate \/ Rank \/ Assess
    BY <2>2 DEF Evaluate, Rank, Assess, HandIsNew
  <2>3. CASE SelectParents \/ PlanMutations
    BY <2>3 DEF SelectParents, PlanMutations, HandIsNew
  <2> QED
    BY <1>3, <2>1, <2>2, <2>3
<1>4. CASE UNCHANGED vars
  BY <1>4 DEF vars, HandIsNew
<1> QED
  BY <1>1, <1>2, <1>3, <1>4 DEF Next, Rest

\* An evaluation and a ranking take nobody from the live population.
LEMMA NobodyLeavesEarly ==
  ASSUME CandidatesKept, Evaluate \/ Rank
  PROVE  \A c \in Live : pool'[c] # Absent
<1> SUFFICES ASSUME NEW c \in Live PROVE pool'[c].fate \in Fates
  BY DEF Fates, Answering, Terminal, Absent
<1>1. c \in Cands /\ pool[c] \in Bodies
  BY DEF Live, Held, CandidatesKept, ValuesTyped, Copies
<1>2. CASE Evaluate
  <2>1. PICK verdict : \/ pool'[c] = [pool[c] EXCEPT !.new = FALSE, !.measured = TRUE, !.verdict = verdict]
                       \/ pool'[c] = [pool[c] EXCEPT !.new = FALSE]
    BY <1>1, <1>2 DEF Evaluate
  <2> QED
    BY <1>1, <2>1 DEF Bodies
<1>3. CASE Rank
  <2>1. PICK fates \in Assignments : pool' = WithFates(pool, fates)
    BY <1>3 DEF Rank
  <2>2. fates[c] \in Fates /\ c \in DOMAIN fates
    BY <2>1, AssignmentsOfLive
  <2>3. pool'[c] = [pool[c] EXCEPT !.fate = fates[c]]
    BY <1>1, <2>1, <2>2 DEF WithFates
  <2> QED
    BY <1>1, <2>2, <2>3 DEF Bodies
<1> QED
  BY <1>2, <1>3

\* What CompactionSpares says of one step.
SparesStep ==
    /\ history' # history => \A c \in Held(hand) : hand[c].measured \/ pool'[c] # Absent
    /\ \A c \in Live : (pool'[c] = Absent /\ pool[c].measured /\ arch'.fate[c] \notin Terminal)
          => \E d \in Held(pool') : pool'[d].measured /\ Better(pool'[d], d, pool[c], c)

\* The compaction that follows the verification of the offspring.
LEMMA IntegrationSpares == CandidatesKept /\ HandIsNew /\ Joining => SparesStep
<1> SUFFICES ASSUME CandidatesKept, HandIsNew, Joining PROVE SparesStep
  OBVIOUS
<1> USE DEF CandidatesKept
<1>1. PICK result \in [Held(hand) -> {"passed", "repairable", "failed"}] :
          LET verified == [c \in Cands |-> IF c \in Held(hand) THEN Verified(hand[c], result[c])
                                           ELSE Absent]
              failed == {c \in Held(hand) : result[c] = "failed"}
              joined == [c \in Cands |-> IF c \in Held(hand) THEN verified[c] ELSE pool[c]]
          IN  \E after \in Compactions(joined, Update(arch, verified, failed)) :
                 pool' = after.pool /\ arch' = after.arch
  BY DEF Joining, JoinPopulation
<1> DEFINE verified == [c \in Cands |-> IF c \in Held(hand) THEN Verified(hand[c], result[c])
                                        ELSE Absent]
           failed == {c \in Held(hand) : result[c] = "failed"}
           joined == [c \in Cands |-> IF c \in Held(hand) THEN verified[c] ELSE pool[c]]
           B == Update(arch, verified, failed)
<1>2. PICK after \in Compactions(joined, B) : pool' = after.pool /\ arch' = after.arch
  BY <1>1
<1>3. ASSUME NEW c \in Held(hand)
      PROVE  /\ c \in Cands /\ joined[c] \in Bodies /\ joined[c] # Absent
             /\ c \in failed => verified[c] \in Bodies
             /\ joined[c].new = hand[c].new /\ joined[c].measured = hand[c].measured
  <2>1. c \in Cands /\ hand[c] \in Bodies /\ hand[c].fate = "active"
    BY DEF Held, ValuesTyped, Copies, OffspringAreApart
  <2>2. joined[c] = Verified(hand[c], result[c]) /\ verified[c] = joined[c]
    BY <2>1
  <2>3. result[c] \in {"passed", "repairable", "failed"}
    BY <1>1
  <2> HIDE DEF verified, failed, joined
  <2>4. joined[c] \in Bodies /\ joined[c] # Absent
    BY <2>1, <2>2, <2>3, VerifiedBody
  <2>5. joined[c].new = hand[c].new /\ joined[c].measured = hand[c].measured
    BY <2>1, <2>2, <2>3 DEF Verified, Bodies
  <2> QED
    BY <2>1, <2>2, <2>4, <2>5
<1>4. \A c \in Cands \ Held(hand) : joined[c] = pool[c]
  OBVIOUS
<1>5. failed \in SUBSET Cands /\ failed \subseteq Held(hand)
  BY DEF Held
<1>6. joined \in [Cands -> Copies]
  <2>1. \A c \in Cands : joined[c] \in Copies
    BY <1>3, <1>4 DEF ValuesTyped, Copies
  <2>2. joined = [c \in Cands |-> joined[c]]
    OBVIOUS
  <2> HIDE DEF joined
  <2> QED
    BY <2>1, <2>2
<1> HIDE DEF verified, failed, joined
<1>7. B \in ArchiveStates
  <2>1. arch \in ArchiveStates /\ \A c \in failed : verified[c] \in Bodies
    BY <1>3, <1>5 DEF ValuesTyped
  <2>2. Routed(arch, B, verified, failed)
    BY <1>5, <2>1, UpdateRoutes
  <2> QED
    BY <2>2 DEF Routed
<1> HIDE DEF B
<1>8. /\ \A c \in Held(joined) : Awaiting(joined[c]) => pool'[c] # Absent
      /\ \A c \in Held(joined) :
            (pool'[c] = Absent /\ joined[c].measured /\ arch'.fate[c] \notin Terminal) =>
               \E d \in Held(pool') : pool'[d].measured /\ Better(pool'[d], d, joined[c], c)
  BY <1>2, <1>6, <1>7, CompactionSparesSome
<1>9. ASSUME NEW c \in Held(hand), ~hand[c].measured PROVE pool'[c] # Absent
  <2>1. hand[c].new
    BY DEF HandIsNew
  <2>2. c \in Held(joined) /\ Awaiting(joined[c])
    BY <1>3, <1>9, <2>1 DEF Held, Awaiting
  <2> QED
    BY <1>8, <2>2
<1>10. \A c \in Live : c \in Held(joined) /\ joined[c] = pool[c]
  BY <1>4 DEF Live, Held, OffspringAreApart
<1> QED
  BY <1>8, <1>9, <1>10 DEF SparesStep

\* A compaction spares the newborn, and turns a measured candidate away only for a better
\* measured one that stays.
THEOREM CompactionsSpare == Spec => CompactionSpares
<1>1. Init => HandIsNew
  BY DEF Init, Empty, HandIsNew, Held
<1>2. Spec => []HandIsNew
  <2>1. IInv /\ HandIsNew /\ [Next]_vars => HandIsNew'
    BY HandStep DEF IInv
  <2> QED
    BY <1>1, <2>1, Invariance, PTL DEF Spec
<1>3. IInv /\ HandIsNew /\ [Next]_vars => [SparesStep]_vars
  <2> SUFFICES ASSUME CandidatesKept, HandIsNew, Next PROVE SparesStep
    BY DEF IInv
  <2>1. CASE Integrate \/ RefuseReceipt
    BY <2>1, TwoJoinings, IntegrationSpares
  <2>2. CASE Assess
    <3>1. Held(hand) = {}
      BY <2>2 DEF Assess, HandIsNew
    <3>2. pool \in [Cands -> Copies] /\ arch \in ArchiveStates
      BY DEF CandidatesKept, ValuesTyped
    <3>3. PICK after \in Compactions(pool, arch) : pool' = after.pool /\ arch' = after.arch
      BY <2>2 DEF Assess
    <3> QED
      BY <3>1, <3>2, <3>3, CompactionSparesSome DEF SparesStep, Live
  <2>3. CASE Evaluate \/ Rank
    <3>1. history' = history
      BY <2>3 DEF Evaluate, Rank
    <3> QED
      BY <2>3, <3>1, NobodyLeavesEarly DEF SparesStep
  <2>4. CASE SelectParents \/ PlanMutations \/ Generate \/ NoOffspring \/ Interrupt \/ Rest
    <3>1. pool' = pool /\ (history' = history \/ Held(hand) = {})
      BY <2>4, ZenonT(40) DEF SelectParents, PlanMutations, Generate, NoOffspring, Interrupt, Rest, vars
    <3> QED
      BY <3>1 DEF SparesStep, Live, Held
  <2> QED
    BY <2>1, <2>2, <2>3, <2>4 DEF Next
<1> QED
  BY <1>2, <1>3, Invariance, PTL DEF Spec, CompactionSpares, SparesStep

\* What one assignment of an update does to the niches.
LEMMA NichesOfOne ==
  ASSUME NEW A \in ArchiveStates, NEW c \in Cands, NEW bodies, bodies[c] \in Bodies
  PROVE  NichesRouted(A, UpdateOne(A, c, bodies[c]), bodies, {c})
<1> DEFINE b == bodies[c]
           stored == [id |-> c, body |-> [b EXCEPT !.new = FALSE]]
           I == [A EXCEPT !.fate[c] = b.fate]
           R == RemoveCandidate(I, c)
           T == IF b.fate \in Terminal THEN [R EXCEPT !.tomb = @ \union {c}] ELSE R
           D == Route(T, c, b)
           B == UpdateOne(A, c, b)
           removed == [n \in DOMAIN A.elite |-> IF A.elite[n].id = c THEN NoEntry ELSE A.elite[n]]
           takes(n) == n \in Niches[c] /\ Beats(c, removed[n])
<1>1. I \in ArchiveStates /\ I.elite = A.elite
  BY DEF ArchiveStates, Bodies
<1> HIDE DEF I
<1>2. R \in ArchiveStates /\ R.elite = removed
  <2>1. R \in ArchiveStates
    BY <1>1, RemovalEffect
  <2>2. R.elite = [n \in DOMAIN I.elite |-> IF I.elite[n].id = c THEN NoEntry ELSE I.elite[n]]
    BY <1>1 DEF RemoveCandidate, ArchiveStates
  <2> QED
    BY <1>1, <2>1, <2>2
<1> HIDE DEF R, removed
<1>3. T \in ArchiveStates /\ T.elite = removed
  <2>1. CASE b.fate \in Terminal
    BY <1>2, <2>1 DEF ArchiveStates
  <2>2. CASE b.fate \notin Terminal
    BY <1>2, <2>2
  <2> QED
    BY <2>1, <2>2
<1> HIDE DEF T
<1>4. \/ D.elite = removed
      \/ b.fate \notin Terminal
         /\ D.elite = [n \in DOMAIN removed |-> IF takes(n) THEN stored ELSE removed[n]]
  <2>1. CASE b.fate \in Terminal \/ c \in Negative
    <3>1. D = [T EXCEPT !.failure = @ \union {c}]
      BY <2>1 DEF Route
    <3> QED
      BY <1>3, <3>1 DEF ArchiveStates
  <2>2. CASE ~(b.fate \in Terminal \/ c \in Negative)
    <3>1. D.elite = UpdateDiversity(T, c, b).elite
      BY <1>3, <2>2 DEF Route, UpdateDiversity, ArchiveStates
    <3>2. UpdateDiversity(T, c, b).elite =
            [n \in DOMAIN T.elite |-> IF n \in Niches[c] /\ Beats(c, T.elite[n]) THEN stored
                                      ELSE T.elite[n]]
      BY <1>3 DEF UpdateDiversity, ArchiveStates
    <3> QED
      BY <1>3, <2>2, <3>1, <3>2
  <2> QED
    BY <2>1, <2>2
<1>5. D \in ArchiveStates
  BY <1>3, RouteEffect
<1> HIDE DEF D
<1>6. B.elite = D.elite
  <2>1. B = RecordConstraints(D, c, b)
    BY DEF UpdateOne, D, T, R, I
  <2> HIDE DEF B
  <2> QED
    BY <1>5, <2>1 DEF RecordConstraints, ArchiveStates
<1> HIDE DEF B
<1>7. ASSUME NEW n \in DOMAIN A.elite
      PROVE  LET a == A.elite[n]
                 e == B.elite[n]
             IN  \/ e = NoEntry /\ (a = NoEntry \/ a.id \in {c})
                 \/ e = a /\ a.id \notin {c}
                 \/ /\ e.id \in {c} /\ bodies[e.id].fate \notin Terminal
                    /\ e = [id |-> e.id, body |-> [bodies[e.id] EXCEPT !.new = FALSE]]
                    /\ a.id \notin {0} \union {c} => Quality[e.id] >= Quality[a.id]
  <2>1. DOMAIN removed = DOMAIN A.elite
        /\ removed[n] = IF A.elite[n].id = c THEN NoEntry ELSE A.elite[n]
    BY DEF removed
  <2>2. \/ B.elite[n] = removed[n]
        \/ b.fate \notin Terminal /\ takes(n) /\ B.elite[n] = stored
    BY <1>4, <1>6, <2>1, ZenonT(40)
  <2>3. CASE B.elite[n] = removed[n]
    BY <2>1, <2>3
  <2>4. CASE b.fate \notin Terminal /\ takes(n) /\ B.elite[n] = stored
    <3>1. A.elite[n].id \notin {0, c} => Quality[c] >= Quality[A.elite[n].id]
      BY <2>1, <2>4 DEF Beats, NoEntry
    <3>2. B.elite[n].id = c /\ B.elite[n].body = [b EXCEPT !.new = FALSE]
      BY <2>4
    <3> HIDE DEF takes
    <3> QED
      BY <2>4, <3>1, <3>2
  <2> QED
    BY <2>2, <2>3, <2>4
<1> QED
  BY <1>7 DEF NichesRouted, B

\* Routing one more candidate.
LEMMA NichesCompose ==
  ASSUME NEW A \in ArchiveStates, NEW B \in ArchiveStates, NEW C, NEW bodies,
         NEW ids \in SUBSET Cands, NEW c \in Cands \ ids,
         NichesRouted(A, B, bodies, ids), NichesRouted(B, C, bodies, {c})
  PROVE  NichesRouted(A, C, bodies, ids \union {c})
<1> SUFFICES ASSUME NEW n \in DOMAIN A.elite
             PROVE  LET a == A.elite[n]
                        e == C.elite[n]
                    IN  \/ e = NoEntry /\ (a = NoEntry \/ a.id \in ids \union {c})
                        \/ e = a /\ a.id \notin ids \union {c}
                        \/ /\ e.id \in ids \union {c} /\ bodies[e.id].fate \notin Terminal
                           /\ e = [id |-> e.id, body |-> [bodies[e.id] EXCEPT !.new = FALSE]]
                           /\ a.id \notin {0} \union (ids \union {c}) => Quality[e.id] >= Quality[a.id]
  BY DEF NichesRouted
<1> DEFINE a == A.elite[n]
           e == B.elite[n]
           g == C.elite[n]
           Third(x, y, S) == /\ x.id \in S /\ bodies[x.id].fate \notin Terminal
                             /\ x = [id |-> x.id, body |-> [bodies[x.id] EXCEPT !.new = FALSE]]
                             /\ y.id \notin {0} \union S => Quality[x.id] >= Quality[y.id]
<1>1. DOMAIN A.elite = DOMAIN B.elite /\ a \in Entries /\ e \in Entries
  BY DEF ArchiveStates
<1>2. /\ a = NoEntry \/ (a.id \in Cands /\ Quality[a.id] \in Nat)
      /\ e = NoEntry \/ (e.id \in Cands /\ Quality[e.id] \in Nat)
      /\ Quality[c] \in Nat /\ c # 0 /\ NoEntry.id = 0 /\ 0 \notin Cands
  <2>1. NoEntry.id = 0
    BY DEF NoEntry
  <2> QED
    BY <1>1, <2>1, ArchivesAssumption, CandsAreNumbers DEF Entries
<1>3. \/ e = NoEntry /\ (a = NoEntry \/ a.id \in ids)
      \/ e = a /\ a.id \notin ids
      \/ Third(e, a, ids)
  BY DEF NichesRouted
<1>4. \/ g = NoEntry /\ (e = NoEntry \/ e.id \in {c})
      \/ g = e /\ e.id \notin {c}
      \/ Third(g, e, {c})
  BY <1>1 DEF NichesRouted
<1> HIDE DEF a, e, g
<1>5. CASE g = NoEntry /\ (e = NoEntry \/ e.id \in {c})
  BY <1>2, <1>3, <1>5 DEF a, g
<1>6. CASE g = e /\ e.id \notin {c}
  BY <1>2, <1>3, <1>6 DEF a, g
<1>7. CASE Third(g, e, {c})
  <2>1. ASSUME a.id \notin {0} \union (ids \union {c}) PROVE Quality[g.id] >= Quality[a.id]
    <3>1. g.id = c
      BY <1>7
    <3>2. CASE e = a
      BY <1>2, <1>7, <2>1, <3>2
    <3>3. CASE Third(e, a, ids)
      <4>1. Quality[e.id] >= Quality[a.id] /\ e.id \notin {0} \union {c} /\ e # NoEntry /\ a # NoEntry
        BY <1>2, <2>1, <3>3
      <4>2. Quality[c] >= Quality[e.id]
        BY <1>7, <3>1, <4>1
      <4> QED
        BY <1>2, <3>1, <4>1, <4>2
    <3> QED
      BY <1>2, <1>3, <2>1, <3>2, <3>3
  <2> QED
    BY <1>7, <2>1 DEF a, g
<1> QED
  BY <1>4, <1>5, <1>6, <1>7

\* What an update does to the niches.
LEMMA UpdateNiches ==
  ASSUME NEW A \in ArchiveStates, NEW ids \in SUBSET Cands, NEW bodies,
         \A c \in ids : bodies[c] \in Bodies
  PROVE  NichesRouted(A, Update(A, bodies, ids), bodies, ids)
<1> DEFINE N == Cardinality(Cands)
<1>1. N \in Nat /\ Cands = 1 .. N
  BY CandsAreNumbers
<1>2. PICK f : /\ f = [c \in {0} \union Cands |->
                          IF c = 0 THEN A
                          ELSE IF c \in ids THEN UpdateOne(f[c - 1], c, bodies[c]) ELSE f[c - 1]]
               /\ Update(A, bodies, ids) = f[N]
  BY UpdateUnfolds
<1> HIDE DEF N
<1> DEFINE upTo(n) == ids \intersect (1 .. n)
           S == {n \in Nat : n <= N => /\ f[n] \in ArchiveStates
                                       /\ NichesRouted(A, f[n], bodies, upTo(n))}
<1>3. 0 \in S
  <2>1. f[0] = A /\ upTo(0) = {}
    BY <1>1, <1>2
  <2>2. NichesRouted(A, A, bodies, {})
    BY DEF NichesRouted
  <2> QED
    BY <2>1, <2>2
<1>4. ASSUME NEW n \in Nat, n \in S PROVE n + 1 \in S
  <2> SUFFICES ASSUME n + 1 <= N
               PROVE  f[n + 1] \in ArchiveStates /\ NichesRouted(A, f[n + 1], bodies, upTo(n + 1))
    OBVIOUS
  <2> DEFINE c == n + 1
  <2>1. c \in Cands /\ c # 0 /\ c - 1 = n
    BY <1>1
  <2>2. f[n] \in ArchiveStates /\ NichesRouted(A, f[n], bodies, upTo(n))
    BY <1>4, <1>1
  <2>3. f[c] = IF c \in ids THEN UpdateOne(f[n], c, bodies[c]) ELSE f[n]
    BY <1>2, <2>1
  <2>4. CASE c \notin ids
    <3>1. upTo(n + 1) = upTo(n) /\ f[c] = f[n]
      BY <2>3, <2>4
    <3> QED
      BY <2>2, <3>1
  <2>5. CASE c \in ids
    <3>1. upTo(n + 1) = upTo(n) \union {c} /\ c \notin upTo(n) /\ upTo(n) \in SUBSET Cands
      BY <2>5
    <3>2. f[c] = UpdateOne(f[n], c, bodies[c]) /\ bodies[c] \in Bodies
      BY <2>3, <2>5
    <3> HIDE DEF c, upTo
    <3>3. f[c] \in ArchiveStates /\ NichesRouted(f[n], f[c], bodies, {c})
      <4>1. UpdateOne(f[n], c, bodies[c]) \in ArchiveStates
        BY <2>1, <2>2, <3>2, UpdateOneRoutes
      <4>2. NichesRouted(f[n], UpdateOne(f[n], c, bodies[c]), bodies, {c})
        BY <2>1, <2>2, <3>2, NichesOfOne
      <4> QED
        BY <3>2, <4>1, <4>2
    <3>4. NichesRouted(A, f[c], bodies, upTo(n) \union {c})
      BY <2>1, <2>2, <3>1, <3>3, NichesCompose
    <3> QED
      BY <3>1, <3>3, <3>4 DEF c
  <2> QED
    BY <2>4, <2>5
<1>5. N \in S
  <2> HIDE DEF S
  <2> QED
    BY <1>1, <1>3, <1>4, Induction
<1>6. NichesRouted(A, f[N], bodies, upTo(N))
  BY <1>1, <1>5
<1>7. upTo(N) = ids
  BY <1>1
<1> QED
  BY <1>2, <1>6, <1>7 DEF N

\* The copies of one candidate stay the same.
LEMMA RoutingKeepsCopies ==
  ASSUME NEW A \in ArchiveStates, NEW B \in ArchiveStates, NEW bodies, NEW ids \in SUBSET Cands,
         CopiesAgree(A), NichesRouted(A, B, bodies, ids)
  PROVE  CopiesAgree(B)
<1> SUFFICES ASSUME NEW n \in DOMAIN B.elite, NEW m \in DOMAIN B.elite,
                    B.elite[n].id = B.elite[m].id
             PROVE  B.elite[n] = B.elite[m]
  BY DEF CopiesAgree
<1>1. /\ DOMAIN A.elite = DOMAIN B.elite
      /\ B.elite[n] = NoEntry \/ B.elite[n].id \in Cands
      /\ B.elite[m] = NoEntry \/ B.elite[m].id \in Cands
      /\ NoEntry.id = 0 /\ 0 \notin Cands
  BY CandsAreNumbers DEF ArchiveStates, Entries, NoEntry
<1>2. CASE B.elite[n] = NoEntry
  BY <1>1, <1>2
<1>3. CASE B.elite[n] # NoEntry /\ B.elite[n].id \in ids
  <2>1. \A k \in DOMAIN A.elite : B.elite[k].id \in ids =>
           B.elite[k] = [id |-> B.elite[k].id, body |-> [bodies[B.elite[k].id] EXCEPT !.new = FALSE]]
    BY <1>1 DEF NichesRouted
  <2> QED
    BY <1>1, <1>3, <2>1
<1>4. CASE B.elite[n] # NoEntry /\ B.elite[n].id \notin ids
  <2>1. \A k \in DOMAIN A.elite : (B.elite[k] # NoEntry /\ B.elite[k].id \notin ids) =>
           B.elite[k] = A.elite[k]
    BY DEF NichesRouted
  <2> QED
    BY <1>1, <1>4, <2>1 DEF CopiesAgree
<1> QED
  BY <1>2, <1>3, <1>4

\* There is a best answer, one of the best of the answers if there are any.
LEMMA BestOfAnswers ==
  ASSUME NEW A \in ArchiveStates, NEW p
  PROVE  /\ BestAnswers(A, p) # {} /\ AnswerPool(A, p) \subseteq Cands
         /\ \A b \in BestAnswers(A, p) :
               /\ b # 0 \/ AnswerPool(A, p) # {} => b \in AnswerPool(A, p)
               /\ \A d \in AnswerPool(A, p) : Final[d] <= Final[b]
<1> DEFINE answers == AnswerPool(A, p)
           upTo(n) == {d \in answers : d <= n}
           Best(i, n) == i \in upTo(n) /\ \A d \in upTo(n) :
                            Final[d] <= Final[i]
           S == {n \in Nat : upTo(n) = {} \/ \E i : Best(i, n)}
<1>1. answers \subseteq Cands
  <2>1. \A e \in Range(A.elite) : e.id \in Cands \union {0}
    BY DEF ArchiveStates, Entries, NoEntry, Range
  <2> QED
    BY <2>1 DEF AnswerPool, Archived, Held
<1>2. BestAnswers(A, p) = IF answers = {} THEN {0}
                          ELSE {c \in answers : \A d \in answers : Final[d] <= Final[c]}
  BY DEF BestAnswers
<1> HIDE DEF answers
<1>3. \A d \in answers : d \in Nat /\ d > 0 /\ Final[d] \in Nat
  BY <1>1, CandsAreNumbers, ArchivesAssumption
<1>4. 0 \in S
  BY <1>3
<1>5. ASSUME NEW n \in Nat, n \in S PROVE n + 1 \in S
  <2>1. CASE n + 1 \notin answers
    <3>1. upTo(n + 1) = upTo(n)
      BY <1>3, <2>1
    <3> QED
      BY <1>5, <3>1
  <2>2. CASE n + 1 \in answers
    <3>1. upTo(n + 1) = upTo(n) \union {n + 1}
      BY <1>3, <2>2
    <3>2. Final[n + 1] \in Nat /\ \A d \in upTo(n) : Final[d] \in Nat /\ d \in Nat /\ d <= n
      BY <1>3, <2>2
    <3> HIDE DEF upTo
    <3>3. CASE upTo(n) = {}
      <4>1. Best(n + 1, n + 1)
        BY <3>1, <3>2, <3>3
      <4> QED
        BY <4>1
    <3>4. ASSUME NEW i, Best(i, n) PROVE n + 1 \in S
      <4>1. i \in upTo(n) /\ Final[i] \in Nat /\ i \in Nat /\ i <= n
        BY <3>2, <3>4
      <4>2. CASE Final[n + 1] <= Final[i]
        <5>1. Best(i, n + 1)
          BY <3>1, <3>2, <3>4, <4>1, <4>2
        <5> QED
          BY <5>1
      <4>3. CASE Final[n + 1] > Final[i]
        <5>1. Best(n + 1, n + 1)
          BY <3>1, <3>2, <3>4, <4>1, <4>3
        <5> QED
          BY <5>1
      <4> QED
        BY <3>2, <4>1, <4>2, <4>3
    <3> QED
      BY <1>5, <3>3, <3>4
  <2> QED
    BY <2>1, <2>2
<1>6. \A n \in Nat : n \in S
  <2> HIDE DEF S
  <2> QED
    BY <1>4, <1>5, Induction
<1>7. ASSUME answers # {} PROVE \E i \in answers : \A d \in answers : Final[d] <= Final[i]
  <2>1. upTo(Cardinality(Cands)) = answers
    BY <1>1, CandsAreNumbers
  <2>2. Cardinality(Cands) \in S
    BY <1>6, CandsAreNumbers
  <2> QED
    BY <1>7, <2>1, <2>2
<1> QED
  BY <1>1, <1>2, <1>7 DEF answers

\* While there is an answer, some best one is at least as good.
LEMMA AnswerIsMatched ==
  ASSUME NEW A \in ArchiveStates, NEW p, NEW b \in AnswerPool(A, p)
  PROVE  AsGood(A, p, b)
<1>1. PICK d \in BestAnswers(A, p) : TRUE
  BY BestOfAnswers
<1>2. d \in Cands /\ b \in Cands /\ Final[b] <= Final[d]
  BY <1>1, BestOfAnswers
<1>3. d # 0 /\ Final[b] \in Nat /\ Final[d] \in Nat
  BY <1>2, CandsAreNumbers, ArchivesAssumption
<1> QED
  BY <1>1, <1>2, <1>3 DEF AsGood

\* Who is eligible is not terminal in the index, and not blocked.
LEMMA EligibleFate ==
  ASSUME NEW A \in ArchiveStates, NEW c, NEW b, Eligible(A, c, b)
  PROVE  /\ IndexFate(A, c, b) \notin Terminal /\ A.fate[c] \notin Terminal
         /\ ~Blocked(b) /\ b.fate \notin Terminal
<1>1. IndexFate(A, c, b) \in Answering \union {"dormant"} /\ b.fate \in Answering \union {"dormant"}
  BY DEF Eligible, IndexFate
<1>2. Answering \union {"dormant"} = {"active", "elite", "dormant"}
  BY DEF Answering
<1> QED
  BY <1>1, <1>2 DEF Eligible, IndexFate, Terminal, Passed, Blocked

\* The body by which a candidate is judged that is in no lane but the niches.
LEMMA JudgedByNiche ==
  ASSUME NEW A \in ArchiveStates, CopiesAgree(A), NEW p, NEW n \in DOMAIN A.elite,
         NEW c, A.elite[n].id = c, p[c] = Absent, A.answer[c] = Absent
  PROVE  JudgedBody(A, p, c) = A.elite[n].body
<1> DEFINE e == CHOOSE x \in Range(A.elite) : x.id = c
<1>1. A.elite[n] \in Range(A.elite)
  BY DEF Range
<1>2. e \in Range(A.elite) /\ e.id = c
  BY <1>1
<1> HIDE DEF e
<1>3. PICK m \in DOMAIN A.elite : e = A.elite[m]
  BY <1>2 DEF Range
<1>4. e = A.elite[n]
  BY <1>2, <1>3 DEF CopiesAgree
<1> QED
  BY <1>4 DEF JudgedBody, e

\* A candidate that keeps its body, its lanes and its niches is judged as before.
LEMMA JudgedAsBefore ==
  ASSUME NEW A \in ArchiveStates, NEW B \in ArchiveStates, CopiesAgree(A), CopiesAgree(B),
         NEW p, NEW q, NEW c \in Cands, q[c] = p[c], SameLanes(A, B, c),
         B.answer[c] # Absent \/ \E n \in DOMAIN B.elite :
                                    B.elite[n].id = c /\ A.elite[n] = B.elite[n]
  PROVE  /\ JudgedBody(B, q, c) = JudgedBody(A, p, c)
         /\ Eligible(B, c, JudgedBody(B, q, c)) <=> Eligible(A, c, JudgedBody(A, p, c))
         /\ c \in Archived(A) /\ c \in Archived(B)
<1>1. A.fate[c] = B.fate[c] /\ A.answer[c] = B.answer[c] /\ c # 0 /\ DOMAIN A.elite = DOMAIN B.elite
  BY CandsAreNumbers DEF SameLanes, ArchiveStates
<1>2. JudgedBody(B, q, c) = JudgedBody(A, p, c)
  <2>1. CASE p[c] # Absent \/ A.answer[c] # Absent
    BY <1>1, <2>1 DEF JudgedBody
  <2>2. CASE p[c] = Absent /\ A.answer[c] = Absent
    <3>1. PICK n \in DOMAIN B.elite : B.elite[n].id = c /\ A.elite[n] = B.elite[n]
      BY <1>1, <2>2
    <3>2. JudgedBody(B, q, c) = B.elite[n].body
      <4>1. q[c] = Absent /\ B.answer[c] = Absent /\ B.elite[n].id = c
        BY <1>1, <2>2, <3>1
      <4> QED
        BY <4>1, JudgedByNiche
    <3>3. n \in DOMAIN A.elite /\ A.elite[n].id = c
      BY <1>1, <3>1
    <3>4. JudgedBody(A, p, c) = A.elite[n].body
      BY <2>2, <3>3, JudgedByNiche
    <3> QED
      BY <3>1, <3>2, <3>4
  <2> QED
    BY <2>1, <2>2
<1>3. c \in Archived(A) /\ c \in Archived(B)
  BY <1>1 DEF Archived, Held, Range
<1> QED
  BY <1>1, <1>2, <1>3 DEF Eligible

\* An update that ends candidates which are no answers leaves the answers as they are.
LEMMA SameAnswers ==
  ASSUME NEW A \in ArchiveStates, CopiesAgree(A), NEW B, NEW bodies, NEW ids \in SUBSET Cands,
         Routed(A, B, bodies, ids), NichesRouted(A, B, bodies, ids), NEW p, NEW q,
         \A c \in ids : bodies[c].fate \in Terminal /\ c \notin AnswerPool(A, p),
         \A c \in Cands \ ids : q[c] = p[c] \/ A.fate[c] \in Terminal \/ c \notin Archived(A)
  PROVE  /\ AnswerPool(B, q) = AnswerPool(A, p)
         /\ \A c \in AnswerPool(A, p) :
               /\ A.answer[c] = B.answer[c]
               /\ \A n \in DOMAIN A.elite : A.elite[n].id = c => B.elite[n] = A.elite[n]
<1>1. /\ B \in ArchiveStates /\ CopiesAgree(B) /\ DOMAIN A.elite = DOMAIN B.elite
      /\ \A c \in Cands \ ids : SameLanes(A, B, c)
      /\ \A c \in ids : B.fate[c] \in Terminal
  <2>1. B \in ArchiveStates
    BY DEF Routed
  <2>2. \A c \in ids : B.fate[c] \in Terminal
    BY DEF Routed, LanesOf
  <2> QED
    BY <2>1, <2>2, RoutingKeepsCopies DEF Routed, ArchiveStates
<1>2. AnswerPool(A, p) \subseteq Cands /\ AnswerPool(B, q) \subseteq Cands
  BY <1>1, BestOfAnswers
<1>3. \A n \in DOMAIN A.elite :
         \/ A.elite[n].id \in {0} \union ids /\ B.elite[n].id = 0
         \/ A.elite[n] = B.elite[n]
  <2> SUFFICES ASSUME NEW n \in DOMAIN A.elite
               PROVE  \/ A.elite[n].id \in {0} \union ids /\ B.elite[n].id = 0
                      \/ A.elite[n] = B.elite[n]
    OBVIOUS
  <2>1. \/ B.elite[n] = NoEntry /\ (A.elite[n] = NoEntry \/ A.elite[n].id \in ids)
        \/ B.elite[n] = A.elite[n]
        \/ B.elite[n].id \in ids /\ bodies[B.elite[n].id].fate \notin Terminal
    BY DEF NichesRouted
  <2>2. NoEntry.id = 0
    BY DEF NoEntry
  <2> QED
    BY <2>1, <2>2
<1>4. ASSUME NEW c \in AnswerPool(B, q) PROVE c \in AnswerPool(A, p)
  <2>1. c \in Cands /\ c \in Archived(B) /\ Eligible(B, c, JudgedBody(B, q, c))
    BY <1>2 DEF AnswerPool
  <2>2. c \in Cands \ ids /\ B.fate[c] \notin Terminal
    BY <1>1, <2>1, EligibleFate
  <2>3. B.answer[c] # Absent \/ \E n \in DOMAIN B.elite : B.elite[n].id = c
    BY <2>1 DEF Archived, Held, Range
  <2>4. B.answer[c] # Absent \/ \E n \in DOMAIN B.elite :
                                   B.elite[n].id = c /\ A.elite[n] = B.elite[n]
    BY <1>1, <1>3, <2>2, <2>3, CandsAreNumbers
  <2>5. A.fate[c] = B.fate[c] /\ SameLanes(A, B, c)
    BY <1>1, <2>2 DEF SameLanes
  <2>6. c \in Archived(A)
    <3>1. A.answer[c] # Absent \/ \E n \in DOMAIN A.elite : A.elite[n].id = c
      BY <1>1, <2>4, <2>5 DEF SameLanes
    <3> QED
      BY <2>1, <3>1, CandsAreNumbers DEF Archived, Held, Range
  <2>7. q[c] = p[c]
    BY <2>2, <2>5, <2>6
  <2> QED
    BY <1>1, <2>1, <2>4, <2>5, <2>7, JudgedAsBefore DEF AnswerPool
<1>5. ASSUME NEW c \in AnswerPool(A, p)
      PROVE  /\ c \in AnswerPool(B, q) /\ A.answer[c] = B.answer[c]
             /\ \A n \in DOMAIN A.elite : A.elite[n].id = c => B.elite[n] = A.elite[n]
  <2>1. c \in Cands \ ids /\ c \in Archived(A) /\ Eligible(A, c, JudgedBody(A, p, c))
    BY <1>2 DEF AnswerPool
  <2>2. q[c] = p[c] /\ SameLanes(A, B, c) /\ A.answer[c] = B.answer[c]
    BY <1>1, <2>1, EligibleFate DEF SameLanes
  <2>3. \A n \in DOMAIN A.elite : A.elite[n].id = c => B.elite[n] = A.elite[n]
    BY <1>3, <2>1, CandsAreNumbers
  <2>4. B.answer[c] # Absent \/ \E n \in DOMAIN B.elite :
                                   B.elite[n].id = c /\ A.elite[n] = B.elite[n]
    <3>1. A.answer[c] # Absent \/ \E n \in DOMAIN A.elite : A.elite[n].id = c
      BY <2>1 DEF Archived, Held, Range
    <3> QED
      BY <1>1, <2>2, <2>3, <3>1
  <2> QED
    BY <1>1, <2>1, <2>2, <2>3, <2>4, JudgedAsBefore DEF AnswerPool
<1> QED
  BY <1>4, <1>5

\* What a compaction does to the answers: the best one stays, or another at least as good, or
\* it was in niches only and lost them to candidates at least as good.
LEMMA CompactionAnswers ==
  ASSUME NEW p \in [Cands -> Copies], NEW A \in ArchiveStates, CopiesAgree(A),
         \A c \in Held(p) : p[c].fate \in Terminal => A.fate[c] \in Terminal,
         NEW after \in Compactions(p, A)
  PROVE  /\ CopiesAgree(after.arch)
         /\ \A n \in DOMAIN A.elite : after.arch.elite[n].id \in {0, A.elite[n].id} \union Held(p)
         /\ \E b \in BestAnswers(A, p) :
               b = 0 \/ AsGood(after.arch, after.pool, b) \/ Displaced(A, after.arch, b)
<1> DEFINE doomed == Doomed(p, A)
           indexed == [c \in Cands |-> [p[c] EXCEPT !.fate = IndexFate(A, c, p[c])]]
           tombs == Update(A, indexed, doomed)
           kept == Retained(p, A)
           parked == [c \in Cands |-> [kept[c] EXCEPT !.fate = "dormant"]]
<1>p. PICK turned \in Parkings(kept, tombs) :
         after = [pool |-> [c \in Cands |-> IF c \in turned THEN Absent ELSE kept[c]],
                  arch |-> Update(tombs, parked, turned)]
  BY DEF Compactions
<1>a. PICK b \in BestAnswers(tombs, kept) :
         \E s \in Survivors(Held(kept) \ Protected(kept, tombs, b)) :
            turned = (Held(kept) \ Protected(kept, tombs, b)) \ s
  BY DEF Parkings
<1> DEFINE competing == Held(kept) \ Protected(kept, tombs, b)
<1>1. PICK s \in Survivors(competing) :
         after = [pool |-> [c \in Cands |-> IF c \in competing \ s THEN Absent ELSE kept[c]],
                  arch |-> Update(tombs, parked, competing \ s)]
  BY <1>p, <1>a
<1> DEFINE away == competing \ s
<1>2. doomed \subseteq Held(p) /\ Held(p) \subseteq Cands
  BY DEF Doomed, Held
<1>3. \A c \in Held(p) : p[c] \in Bodies
  BY DEF Held, Copies
<1>4. \A c \in doomed : indexed[c] \in Bodies /\ indexed[c].fate \in Terminal
  <2> SUFFICES ASSUME NEW c \in doomed
               PROVE  indexed[c] \in Bodies /\ indexed[c].fate \in Terminal
    OBVIOUS
  <2>1. c \in Cands /\ p[c] \in Bodies /\ IndexFate(A, c, p[c]) \in Terminal
    BY <1>2, <1>3 DEF Doomed
  <2>2. indexed[c] = [p[c] EXCEPT !.fate = IndexFate(A, c, p[c])]
    BY <2>1
  <2>3. IndexFate(A, c, p[c]) \in Fates
    BY <2>1 DEF Fates
  <2> HIDE DEF indexed
  <2> QED
    BY <2>1, <2>2, <2>3, BodyWithFate DEF Bodies
<1>5. \A c \in Held(p) \ doomed :
         kept[c] = p[c] \/ (kept[c] = [p[c] EXCEPT !.fate = "dormant"] /\ A.fate[c] \in Terminal)
  BY <1>2 DEF Retained, IndexFate
<1>6. \A c \in Cands \ Held(p) : kept[c] = p[c]
  BY DEF Retained, Held, Doomed
<1>7. Held(kept) \subseteq Held(p) \ doomed
  BY DEF Retained, Held
<1> HIDE DEF indexed
<1>8. Routed(A, tombs, indexed, doomed) /\ NichesRouted(A, tombs, indexed, doomed)
  <2>1. doomed \in SUBSET Cands
    BY <1>2
  <2> HIDE DEF doomed
  <2> QED
    BY <1>4, <2>1, UpdateRoutes, UpdateNiches
<1>9. /\ b \in Protected(kept, tombs, b)
      /\ AnswerPool(tombs, kept) = AnswerPool(A, p) => b \in BestAnswers(A, p)
  BY <1>a DEF Protected, BestAnswers
<1> HIDE DEF doomed, tombs, kept
<1>10. tombs \in ArchiveStates /\ CopiesAgree(tombs) /\ doomed \in SUBSET Cands
  <2>1. tombs \in ArchiveStates /\ doomed \in SUBSET Cands
    BY <1>2, <1>8 DEF Routed
  <2> QED
    BY <1>8, <2>1, RoutingKeepsCopies
<1>11. \A c \in away : c \in Held(p) /\ c \in Cands /\ parked[c] \in Bodies /\ c \notin Protected(kept, tombs, b)
  <2> SUFFICES ASSUME NEW c \in away
               PROVE  c \in Held(p) /\ c \in Cands /\ parked[c] \in Bodies /\ c \notin Protected(kept, tombs, b)
    OBVIOUS
  <2>1. c \in Held(p) \ doomed /\ c \in Cands /\ p[c] \in Bodies
    BY <1>2, <1>3, <1>7
  <2>2. parked[c] = [p[c] EXCEPT !.fate = "dormant"]
    BY <1>5, <2>1 DEF Bodies
  <2>3. parked[c] \in Bodies
    BY <2>1, <2>2, BodyWithFate DEF Fates
  <2> HIDE DEF parked
  <2> QED
    BY <2>1, <2>3
<1> HIDE DEF parked
<1>12. away \in SUBSET Cands /\ away \subseteq Held(p) /\ \A c \in away : c \notin Protected(kept, tombs, b)
  BY <1>11
<1> HIDE DEF competing
<1>13. Routed(tombs, after.arch, parked, away) /\ NichesRouted(tombs, after.arch, parked, away)
  <2>1. after.arch = Update(tombs, parked, away)
    BY <1>1
  <2>2. \A c \in away : parked[c] \in Bodies
    BY <1>11
  <2> HIDE DEF away
  <2> QED
    BY <1>10, <1>12, <2>1, <2>2, UpdateRoutes, UpdateNiches
<1>14. after.pool = [c \in Cands |-> IF c \in away THEN Absent ELSE kept[c]]
  BY <1>1
<1> HIDE DEF away
<1>15. after.arch \in ArchiveStates /\ CopiesAgree(after.arch)
  <2>1. after.arch \in ArchiveStates
    BY <1>13 DEF Routed
  <2> QED
    BY <1>10, <1>12, <1>13, <2>1, RoutingKeepsCopies
<1>16. DOMAIN A.elite = DOMAIN tombs.elite /\ DOMAIN A.elite = DOMAIN after.arch.elite /\ NoEntry.id = 0
  BY <1>10, <1>15 DEF ArchiveStates, NoEntry
<1>17. ASSUME NEW n \in DOMAIN A.elite
       PROVE  after.arch.elite[n].id \in {0, A.elite[n].id} \union Held(p)
  <2>1. tombs.elite[n].id \in {0, A.elite[n].id} \union Held(p)
    BY <1>2, <1>8, <1>16 DEF NichesRouted
  <2> QED
    BY <1>12, <1>13, <1>16, <2>1 DEF NichesRouted
<1>18. /\ AnswerPool(tombs, kept) = AnswerPool(A, p)
       /\ \A c \in AnswerPool(A, p) :
             /\ A.answer[c] = tombs.answer[c]
             /\ \A n \in DOMAIN A.elite : A.elite[n].id = c => tombs.elite[n] = A.elite[n]
  <2>1. ASSUME NEW c \in doomed PROVE c \notin AnswerPool(A, p)
    <3>1. c \in Held(p) /\ Blocked(p[c])
      BY <1>2 DEF doomed, Doomed
    <3>2. JudgedBody(A, p, c) = p[c]
      BY <3>1 DEF JudgedBody, Held
    <3> QED
      BY <3>1, <3>2, EligibleFate DEF AnswerPool
  <2>2. \A c \in doomed : indexed[c].fate \in Terminal /\ c \notin AnswerPool(A, p)
    BY <1>4, <2>1
  <2>3. \A c \in Cands \ doomed : kept[c] = p[c] \/ A.fate[c] \in Terminal \/ c \notin Archived(A)
    BY <1>5, <1>6
  <2> QED
    BY <1>8, <1>10, <2>2, <2>3, SameAnswers
<1>b. b \in BestAnswers(A, p)
  BY <1>9, <1>18
<1>19. ASSUME b # 0
       PROVE  AsGood(after.arch, after.pool, b) \/ Displaced(A, after.arch, b)
  <2>1. b \in AnswerPool(A, p) /\ b \in Cands
    BY <1>b, <1>19, BestOfAnswers
  <2>2. b \notin away /\ after.pool[b] = kept[b] /\ SameLanes(tombs, after.arch, b)
    BY <1>9, <1>12, <1>13, <1>14, <1>18, <2>1 DEF Routed
  <2>3. Eligible(tombs, b, JudgedBody(tombs, kept, b)) /\ tombs.answer[b] = A.answer[b]
        /\ after.arch.answer[b] = A.answer[b]
    BY <1>18, <2>1, <2>2 DEF AnswerPool, SameLanes
  <2>4. CASE A.answer[b] # Absent \/ \E n \in DOMAIN A.elite :
                                        A.elite[n].id = b /\ after.arch.elite[n].id = b
    <3>1. after.arch.answer[b] # Absent \/ \E n \in DOMAIN after.arch.elite :
             after.arch.elite[n].id = b /\ tombs.elite[n] = after.arch.elite[n]
      <4>1. \A n \in DOMAIN A.elite : after.arch.elite[n].id = b =>
               tombs.elite[n] = after.arch.elite[n]
        BY <1>16, <1>19, <2>2, <1>13 DEF NichesRouted
      <4> QED
        BY <1>16, <2>3, <2>4, <4>1
    <3>2. b \in AnswerPool(after.arch, after.pool)
      <4>1. /\ Eligible(after.arch, b, JudgedBody(after.arch, after.pool, b))
            /\ b \in Archived(after.arch)
        BY <1>10, <1>15, <2>1, <2>2, <2>3, <3>1, JudgedAsBefore
      <4> QED
        BY <4>1 DEF AnswerPool
    <3> QED
      BY <1>15, <3>2, AnswerIsMatched
  <2>5. CASE A.answer[b] = Absent /\ \A n \in DOMAIN A.elite :
                                        ~(A.elite[n].id = b /\ after.arch.elite[n].id = b)
    <3>1. ASSUME NEW n \in DOMAIN A.elite, A.elite[n].id = b
          PROVE  after.arch.elite[n].id \notin {0, b} /\ Quality[after.arch.elite[n].id] >= Quality[b]
      <4>1. tombs.elite[n].id = b /\ after.arch.elite[n].id # b
        BY <1>18, <2>1, <2>5, <3>1
      <4>2. /\ after.arch.elite[n].id \in away
            /\ Quality[after.arch.elite[n].id] >= Quality[b]
        BY <1>13, <1>16, <1>19, <2>2, <3>1, <4>1 DEF NichesRouted
      <4> QED
        BY <1>12, <4>1, <4>2, CandsAreNumbers
    <3> QED
      BY <2>5, <3>1 DEF Displaced
  <2> QED
    BY <2>4, <2>5
<1>c. \E x \in BestAnswers(A, p) :
         x = 0 \/ AsGood(after.arch, after.pool, x) \/ Displaced(A, after.arch, x)
  BY <1>b, <1>19
<1> QED
  BY <1>15, <1>17, <1>c

\* What an update of the archives does to the niches, when it routes born candidates that are
\* not in hand.
LEMMA UpdateKeepsNiches ==
  ASSUME NichesAgree, NEW B, NEW bodies, NEW ids \in SUBSET Cands, arch \in ArchiveStates,
         \A c \in ids : bodies[c] \in Bodies, B = Update(arch, bodies, ids)
  PROVE  /\ B \in ArchiveStates /\ CopiesAgree(B)
         /\ \A n \in DOMAIN B.elite : B.elite[n].id \in {0, arch.elite[n].id} \union ids
<1>1. Routed(arch, B, bodies, ids) /\ NichesRouted(arch, B, bodies, ids)
  BY UpdateRoutes, UpdateNiches
<1>2. B \in ArchiveStates /\ DOMAIN arch.elite = DOMAIN B.elite
  BY <1>1 DEF Routed, ArchiveStates
<1>3. CopiesAgree(B)
  BY <1>1, <1>2, RoutingKeepsCopies DEF NichesAgree
<1>4. NoEntry.id = 0
  BY DEF NoEntry
<1> QED
  BY <1>1, <1>2, <1>3, <1>4 DEF NichesRouted

\* The verification: what it archives, who joins, and that nothing changes for the answers.
LEMMA IntegrationAnswers ==
  ASSUME CandidatesKept, NichesAgree, pc = "offspring",
         NEW result \in [Held(hand) -> {"passed", "repairable", "failed"}]
  PROVE  LET verified == [c \in Cands |-> IF c \in Held(hand) THEN Verified(hand[c], result[c])
                                           ELSE Absent]
             failed == {c \in Held(hand) : result[c] = "failed"}
             joined == [c \in Cands |-> IF c \in Held(hand) THEN verified[c] ELSE pool[c]]
             B == Update(arch, verified, failed)
         IN  /\ joined \in [Cands -> Copies] /\ B \in ArchiveStates /\ CopiesAgree(B)
             /\ Held(joined) \subseteq born
             /\ \A c \in Held(joined) : joined[c].fate \in Terminal => B.fate[c] \in Terminal
             /\ \A n \in DOMAIN arch.elite : B.elite[n].id \in {0, arch.elite[n].id} \union born
             /\ AnswerPool(B, joined) = AnswerPool(arch, pool)
             /\ \A c \in AnswerPool(arch, pool) :
                   /\ arch.answer[c] = B.answer[c]
                   /\ \A n \in DOMAIN arch.elite :
                         arch.elite[n].id = c => B.elite[n] = arch.elite[n]
<1> USE DEF CandidatesKept
<1> DEFINE verified == [c \in Cands |-> IF c \in Held(hand) THEN Verified(hand[c], result[c])
                                        ELSE Absent]
           failed == {c \in Held(hand) : result[c] = "failed"}
           joined == [c \in Cands |-> IF c \in Held(hand) THEN verified[c] ELSE pool[c]]
           B == Update(arch, verified, failed)
<1>1. ASSUME NEW c \in Held(hand)
      PROVE  /\ c \in Cands /\ verified[c] \in Bodies
             /\ c \in failed => verified[c].fate = "failed"
             /\ verified[c].fate \in Terminal => c \in failed
             /\ arch.fate[c] \in {"none", "active"} /\ c \in born
  <2>1. c \in Cands /\ hand[c] \in Bodies /\ hand[c].fate = "active"
        /\ arch.fate[c] \in {"none", "active"} /\ c \in born
    BY DEF Held, ValuesTyped, Copies, OffspringAreApart, TypeOK
  <2>2. verified[c] = Verified(hand[c], result[c])
    BY <2>1
  <2>3. result[c] \in {"passed", "repairable", "failed"} /\ (c \in failed <=> result[c] = "failed")
    OBVIOUS
  <2> HIDE DEF verified, failed
  <2> QED
    BY <2>1, <2>2, <2>3, VerifiedBody
<1>2. failed \in SUBSET Cands /\ failed \subseteq Held(hand) /\ Held(hand) \subseteq Cands
  BY DEF Held
<1>3. /\ \A c \in Held(hand) : joined[c] = verified[c]
      /\ \A c \in Cands \ Held(hand) : joined[c] = pool[c]
  BY <1>2
<1>4. joined \in [Cands -> Copies]
  <2>1. \A c \in Cands : joined[c] \in Copies
    BY <1>1, <1>3 DEF ValuesTyped, Copies
  <2>2. joined = [c \in Cands |-> joined[c]]
    OBVIOUS
  <2> HIDE DEF joined
  <2> QED
    BY <2>1, <2>2
<1> HIDE DEF verified, failed, joined
<1>5. arch \in ArchiveStates /\ LanesAgree(arch) /\ CopiesAgree(arch)
  BY DEF ValuesTyped, LanesFollowFates, NichesAgree
<1>6. \A c \in failed : verified[c] \in Bodies /\ verified[c].fate \in Terminal
  BY <1>1, <1>2 DEF Terminal
<1>7. Routed(arch, B, verified, failed) /\ NichesRouted(arch, B, verified, failed)
  BY <1>2, <1>5, <1>6, UpdateRoutes, UpdateNiches
<1>8. /\ B \in ArchiveStates /\ CopiesAgree(B)
      /\ \A n \in DOMAIN B.elite : B.elite[n].id \in {0, arch.elite[n].id} \union failed
  BY <1>2, <1>5, <1>6, UpdateKeepsNiches
<1> HIDE DEF B
<1>9. ASSUME NEW c \in Held(hand) PROVE c \notin Archived(arch)
  <2>1. c \in Cands /\ arch.answer[c] = Absent
    <3>1. arch.fate[c] # "elite" /\ c \in Cands
      BY <1>1
    <3> QED
      BY <1>5, <3>1 DEF LanesAgree, Held
  <2>2. \A n \in DOMAIN arch.elite : arch.elite[n].id # c
    BY DEF NichesAgree
  <2> QED
    BY <2>1, <2>2 DEF Archived, Held, Range
<1>10. /\ AnswerPool(B, joined) = AnswerPool(arch, pool)
       /\ \A c \in AnswerPool(arch, pool) :
             /\ arch.answer[c] = B.answer[c]
             /\ \A n \in DOMAIN arch.elite : arch.elite[n].id = c => B.elite[n] = arch.elite[n]
  <2>1. \A c \in failed : verified[c].fate \in Terminal /\ c \notin AnswerPool(arch, pool)
    BY <1>2, <1>6, <1>9 DEF AnswerPool
  <2>2. \A c \in Cands \ failed :
           joined[c] = pool[c] \/ arch.fate[c] \in Terminal \/ c \notin Archived(arch)
    BY <1>3, <1>9
  <2> QED
    BY <1>2, <1>5, <1>7, <2>1, <2>2, SameAnswers
<1>11. \A c \in Held(joined) : joined[c].fate \in Terminal => B.fate[c] \in Terminal
  <2> SUFFICES ASSUME NEW c \in Held(joined), joined[c].fate \in Terminal
               PROVE  B.fate[c] \in Terminal
    OBVIOUS
  <2>1. CASE c \in Held(hand)
    <3>1. c \in failed /\ verified[c].fate \in Terminal
      BY <1>1, <1>3, <2>1
    <3> QED
      BY <1>7, <3>1 DEF Routed, LanesOf
  <2>2. CASE c \notin Held(hand)
    <3>1. c \in Live /\ c \in Cands \ failed /\ pool[c].fate \in Terminal
      BY <1>2, <1>3, <2>2 DEF Live, Held
    <3> QED
      BY <1>7, <3>1 DEF TerminalIsIndexed, Stages, SameLanes, Routed
  <2> QED
    BY <2>1, <2>2
<1>12. Held(joined) \subseteq born
  <2> SUFFICES ASSUME NEW c \in Held(joined), c \notin Held(hand) PROVE c \in Live
    BY <1>1 DEF TypeOK
  <2> QED
    BY <1>3 DEF Held, Live
<1>13. \A n \in DOMAIN arch.elite : B.elite[n].id \in {0, arch.elite[n].id} \union born
  <2>1. DOMAIN arch.elite = DOMAIN B.elite /\ failed \subseteq born
    BY <1>1, <1>2, <1>5, <1>8 DEF ArchiveStates
  <2> QED
    BY <1>8, <2>1
<1> QED
  BY <1>4, <1>8, <1>10, <1>11, <1>12, <1>13 DEF B, joined, failed, verified

\* The niches never hold a candidate in hand or unborn, nor different copies of one.
LEMMA NichesStep == CandidatesKept /\ NichesAgree /\ [Next]_vars => NichesAgree'
<1> SUFFICES ASSUME CandidatesKept, NichesAgree, [Next]_vars PROVE NichesAgree'
  OBVIOUS
<1> USE DEF CandidatesKept
<1>1. arch \in ArchiveStates /\ CopiesAgree(arch) /\ 0 \notin Cands
      /\ \A n \in DOMAIN arch.elite : arch.elite[n].id \notin Held(hand) \union (Cands \ born)
  BY CandsAreNumbers DEF ValuesTyped, NichesAgree
<1>2. Live \subseteq born /\ Held(hand) \subseteq born /\ Held(hand) \intersect Live = {}
      /\ Held(hand) \subseteq Cands /\ Live \subseteq Cands
  BY DEF TypeOK, OffspringAreApart, Held, Live
<1>3. CASE Evaluate \/ SelectParents \/ PlanMutations \/ NoOffspring \/ UNCHANGED vars
  <2>1. UNCHANGED <<arch, hand, born>>
    BY <1>3 DEF Evaluate, SelectParents, PlanMutations, NoOffspring, vars
  <2> QED
    BY <2>1 DEF NichesAgree
<1>4. CASE Interrupt
  <2>1. UNCHANGED <<arch, born>> /\ Held(hand') = {}
    BY <1>4 DEF Interrupt, Empty, Held
  <2> QED
    BY <1>1, <2>1 DEF NichesAgree
<1>5. CASE Rank
  <2>1. PICK fates \in Assignments : arch' = Update(arch, WithFates(pool, fates), Live)
    BY <1>5 DEF Rank
  <2>2. UNCHANGED <<hand, born>>
    BY <1>5 DEF Rank
  <2>3. \A c \in Live : WithFates(pool, fates)[c] \in Bodies
    <3> SUFFICES ASSUME NEW c \in Live PROVE WithFates(pool, fates)[c] \in Bodies
      OBVIOUS
    <3>1. c \in Cands /\ pool[c] \in Bodies /\ fates[c] \in Fates /\ c \in DOMAIN fates
      BY AssignmentsOfLive DEF Live, Held, ValuesTyped, Copies
    <3>2. WithFates(pool, fates)[c] = [pool[c] EXCEPT !.fate = fates[c]]
      BY <3>1 DEF WithFates
    <3> QED
      BY <3>1, <3>2, BodyWithFate
  <2>4. /\ CopiesAgree(arch') /\ DOMAIN arch'.elite = DOMAIN arch.elite
        /\ \A n \in DOMAIN arch'.elite : arch'.elite[n].id \in {0, arch.elite[n].id} \union Live
    <3>1. /\ arch' \in ArchiveStates /\ CopiesAgree(arch')
          /\ \A n \in DOMAIN arch'.elite : arch'.elite[n].id \in {0, arch.elite[n].id} \union Live
      BY <1>1, <1>2, <2>1, <2>3, UpdateKeepsNiches
    <3> QED
      BY <1>1, <3>1 DEF ArchiveStates
  <2> QED
    BY <1>1, <1>2, <2>2, <2>4 DEF NichesAgree
<1>6. CASE Assess
  <2>1. PICK after \in Compactions(pool, arch) : pool' = after.pool /\ arch' = after.arch
    BY <1>6 DEF Assess
  <2>2. UNCHANGED <<hand, born>> /\ pc = "ranked"
    BY <1>6 DEF Assess
  <2>3. pool \in [Cands -> Copies]
        /\ \A c \in Held(pool) : pool[c].fate \in Terminal => arch.fate[c] \in Terminal
    BY <2>2 DEF ValuesTyped, TerminalIsIndexed, Stages, Live
  <2>4. /\ CopiesAgree(arch')
        /\ \A n \in DOMAIN arch.elite : arch'.elite[n].id \in {0, arch.elite[n].id} \union Live
    BY <1>1, <2>1, <2>3, CompactionAnswers DEF Live
  <2>5. DOMAIN arch'.elite = DOMAIN arch.elite
    <3>1. after.arch \in ArchiveStates
      BY <1>1, <2>3, CompactionEffect
    <3>2. arch' \in ArchiveStates
      BY <2>1, <3>1
    <3> QED
      BY <1>1, <3>2 DEF ArchiveStates
  <2> QED
    BY <1>1, <1>2, <2>2, <2>4, <2>5 DEF NichesAgree
<1>7. CASE Generate
  <2>1. PICK k \in 0 .. Min({MaxChildren, Cardinality(Unborn)}), refused \in BOOLEAN,
             back \in Reactivable(arch) \union {0} :
          LET children == Top(Unborn, k, <)
              woken == Reactivate(arch, back)
              accepted == back # 0 /\ pool[back] = Absent /\ ~refused
          IN  /\ born' = born \union children
              /\ arch' = IF back = 0 THEN arch ELSE woken.arch
              /\ hand' = [c \in Cands |-> IF c \in children THEN Newborn
                                          ELSE IF accepted /\ c = back
                                               THEN [woken.body EXCEPT !.new = TRUE]
                                               ELSE Absent]
    BY <1>7, ZenonT(40) DEF Generate
  <2> DEFINE children == Top(Unborn, k, <)
  <2>2. children \subseteq Unborn
    BY DEF Top
  <2>3. Held(hand') \subseteq children \union ({back} \ {0})
    BY <2>1 DEF Held
  <2>4. born' = born \union children
    BY <2>1
  <2> HIDE DEF children
  <2>5. CASE back = 0
    <3>1. arch' = arch
      BY <2>1, <2>5
    <3> QED
      BY <1>1, <2>2, <2>3, <2>4, <2>5, <3>1 DEF NichesAgree, Unborn
  <2>6. CASE back # 0
    <3>1. arch' = Reactivate(arch, back).arch
      BY <2>1, <2>6
    <3>2. back \in Cands
      BY <2>1, <2>6 DEF Reactivable, Held
    <3>3. arch'.elite = [n \in DOMAIN arch.elite |-> IF arch.elite[n].id = back THEN NoEntry
                                                     ELSE arch.elite[n]]
      <4>1. RemoveCandidate(arch, back) \in ArchiveStates
        BY <1>1, <3>2, RemovalEffect
      <4>2. arch'.elite = RemoveCandidate(arch, back).elite
        BY <3>1, <4>1 DEF Reactivate, ArchiveStates
      <4> QED
        BY <1>1, <4>2 DEF RemoveCandidate, ArchiveStates
    <3>4. NoEntry.id = 0
      BY DEF NoEntry
    <3>5. CopiesAgree(arch')
      <4>1. \A n \in DOMAIN arch.elite : arch.elite[n].id = 0 => arch.elite[n] = NoEntry
        BY <1>1 DEF ArchiveStates, Entries
      <4> QED
        BY <1>1, <3>3, <3>4, <4>1 DEF CopiesAgree
    <3>6. \A n \in DOMAIN arch'.elite : arch'.elite[n].id \notin Held(hand') \union (Cands \ born')
      BY <1>1, <2>2, <2>3, <2>4, <3>2, <3>3, <3>4 DEF Unborn
    <3> QED
      BY <3>5, <3>6 DEF NichesAgree
  <2> QED
    BY <2>5, <2>6
<1>8. CASE Integrate \/ RefuseReceipt
  <2>1. PICK result \in [Held(hand) -> {"passed", "repairable", "failed"}] :
          LET verified == [c \in Cands |-> IF c \in Held(hand) THEN Verified(hand[c], result[c])
                                           ELSE Absent]
              failed == {c \in Held(hand) : result[c] = "failed"}
              joined == [c \in Cands |-> IF c \in Held(hand) THEN verified[c] ELSE pool[c]]
          IN  \E after \in Compactions(joined, Update(arch, verified, failed)) :
                 pool' = after.pool /\ arch' = after.arch
    BY <1>8 DEF Integrate, RefuseReceipt, JoinPopulation
  <2> DEFINE verified == [c \in Cands |-> IF c \in Held(hand) THEN Verified(hand[c], result[c])
                                          ELSE Absent]
             failed == {c \in Held(hand) : result[c] = "failed"}
             joined == [c \in Cands |-> IF c \in Held(hand) THEN verified[c] ELSE pool[c]]
             B == Update(arch, verified, failed)
  <2>2. PICK after \in Compactions(joined, B) : pool' = after.pool /\ arch' = after.arch
    BY <2>1
  <2>3. born' = born /\ Held(hand') = {} /\ pc = "offspring"
    BY <1>8 DEF Integrate, RefuseReceipt, JoinPopulation, Empty, Held
  <2>4. /\ joined \in [Cands -> Copies] /\ B \in ArchiveStates /\ CopiesAgree(B)
        /\ Held(joined) \subseteq born
        /\ \A c \in Held(joined) : joined[c].fate \in Terminal => B.fate[c] \in Terminal
        /\ \A n \in DOMAIN arch.elite : B.elite[n].id \in {0, arch.elite[n].id} \union born
    BY <2>3, IntegrationAnswers
  <2> HIDE DEF verified, failed, joined, B
  <2>5. /\ CopiesAgree(arch')
        /\ \A n \in DOMAIN B.elite : arch'.elite[n].id \in {0, B.elite[n].id} \union Held(joined)
    BY <2>2, <2>4, CompactionAnswers
  <2>6. DOMAIN arch'.elite = DOMAIN arch.elite /\ DOMAIN B.elite = DOMAIN arch.elite
    <3>1. after.arch \in ArchiveStates
      BY <2>4, CompactionEffect
    <3>2. arch' \in ArchiveStates
      BY <2>2, <3>1
    <3> QED
      BY <1>1, <2>4, <3>2 DEF ArchiveStates
  <2>7. \A n \in DOMAIN arch'.elite : arch'.elite[n].id \in {0, arch.elite[n].id} \union born
    BY <2>4, <2>5, <2>6
  <2> QED
    BY <1>1, <2>3, <2>5, <2>6, <2>7 DEF NichesAgree
<1> QED
  BY <1>3, <1>4, <1>5, <1>6, <1>7, <1>8 DEF Next, Rest

\* What a step must do to the best answer between a ranking and the next evaluation.
AnswerStep ==
    pc \notin {"idle", "evaluated"} =>
       \E b \in BestAnswers(arch, pool) :
          b = 0 \/ Woken(b) \/ Displaced(arch, arch', b) \/ AsGood(arch', pool', b)

\* The niches agree in every state.
LEMMA NichesAlwaysAgree == Spec => []NichesAgree
<1>1. Init => NichesAgree
  <2> SUFFICES ASSUME Init PROVE NichesAgree
    OBVIOUS
  <2>1. \A n \in DOMAIN arch.elite : arch.elite[n] = NoEntry
    BY DEF Init, EmptyArchives
  <2>2. NoEntry.id = 0 /\ 0 \notin Cands /\ Held(hand) \subseteq Cands
    BY CandsAreNumbers DEF NoEntry, Init, Empty, Held
  <2> QED
    BY <2>1, <2>2 DEF NichesAgree, CopiesAgree
<1>2. IInv /\ NichesAgree /\ [Next]_vars => NichesAgree'
  BY NichesStep DEF IInv
<1> QED
  BY <1>1, <1>2, Invariance, PTL DEF Spec

\* An answer whose lanes, body and a copy stay is an answer still, and the best is no worse.
LEMMA AnswerRemains ==
  ASSUME NEW A \in ArchiveStates, NEW B \in ArchiveStates, CopiesAgree(A), CopiesAgree(B),
         NEW p, NEW b \in BestAnswers(A, p), b # 0, SameLanes(A, B, b),
         \A n \in DOMAIN A.elite : A.elite[n].id = b => B.elite[n] = A.elite[n]
  PROVE  AsGood(B, p, b)
<1>1. b \in AnswerPool(A, p) /\ b \in Cands
  BY BestOfAnswers
<1>2. b \in Archived(A) /\ Eligible(A, b, JudgedBody(A, p, b)) /\ DOMAIN A.elite = DOMAIN B.elite
  BY <1>1 DEF AnswerPool, ArchiveStates
<1>3. B.answer[b] # Absent \/ \E n \in DOMAIN B.elite : B.elite[n].id = b /\ A.elite[n] = B.elite[n]
  <2>1. A.answer[b] # Absent \/ \E n \in DOMAIN A.elite : A.elite[n].id = b
    BY <1>2 DEF Archived, Held, Range
  <2> QED
    BY <1>2, <2>1 DEF SameLanes
<1>4. b \in Archived(B) /\ Eligible(B, b, JudgedBody(B, p, b))
  BY <1>1, <1>2, <1>3, JudgedAsBefore
<1>5. b \in AnswerPool(B, p)
  BY <1>4 DEF AnswerPool
<1> QED
  BY <1>5, AnswerIsMatched

\* The generation takes the best answer from the archives only to wake it.
LEMMA GenerateAnswers == CandidatesKept /\ NichesAgree /\ NichesAgree' /\ Generate => AnswerStep
<1> SUFFICES ASSUME CandidatesKept, NichesAgree, NichesAgree', Generate
             PROVE  \E b \in BestAnswers(arch, pool) :
                       b = 0 \/ Woken(b) \/ AsGood(arch', pool', b)
  BY DEF AnswerStep
<1>1. arch \in ArchiveStates /\ LanesAgree(arch) /\ CopiesAgree(arch) /\ CopiesAgree(arch')
  BY DEF CandidatesKept, ValuesTyped, LanesFollowFates, NichesAgree
<1>2. pool' = pool
  BY DEF Generate
<1>3. PICK back \in Reactivable(arch) \union {0} :
         arch' = IF back = 0 THEN arch ELSE Reactivate(arch, back).arch
  BY DEF Generate
<1>4. PICK b \in BestAnswers(arch, pool) : TRUE
  BY <1>1, BestOfAnswers
<1> SUFFICES ASSUME b # 0 PROVE Woken(b) \/ AsGood(arch', pool', b)
  BY <1>4
<1>b. b \in Cands
  BY <1>1, <1>4, BestOfAnswers
<1>5. CASE back = 0
  BY <1>1, <1>2, <1>3, <1>4, <1>5, AnswerRemains DEF SameLanes
<1>6. CASE back # 0
  <2>1. back \in Cands /\ arch.dormant[back] # Absent /\ arch' = Reactivate(arch, back).arch
    BY <1>3, <1>6 DEF Reactivable, Held
  <2>2. arch' \in ArchiveStates /\ \A d \in Cands \ {back} : SameLanes(arch, arch', d)
    BY <1>1, <2>1, ReactivationEffect
  <2>3. RemoveCandidate(arch, back) \in ArchiveStates
        /\ RemoveCandidate(arch, back).dormant[back] = Absent
    BY <1>1, <2>1, RemovalEffect
  <2>4. /\ arch'.elite = RemoveCandidate(arch, back).elite
        /\ arch'.dormant = RemoveCandidate(arch, back).dormant
    BY <2>1, <2>3 DEF Reactivate, ArchiveStates
  <2>5. CASE b = back
    BY <2>1, <2>3, <2>4, <2>5 DEF Woken
  <2>6. CASE b # back
    <3>1. SameLanes(arch, arch', b)
      BY <1>b, <2>2, <2>6
    <3>2. arch'.elite = [n \in DOMAIN arch.elite |-> IF arch.elite[n].id = back THEN NoEntry
                                                     ELSE arch.elite[n]]
      BY <1>1, <2>4 DEF RemoveCandidate, ArchiveStates
    <3>3. \A n \in DOMAIN arch.elite : arch.elite[n].id = b => arch'.elite[n] = arch.elite[n]
      BY <2>6, <3>2
    <3>4. AsGood(arch', pool, b)
      BY <1>1, <1>4, <2>2, <3>1, <3>3, AnswerRemains
    <3> QED
      BY <1>2, <3>4
  <2> QED
    BY <2>5, <2>6
<1> QED
  BY <1>5, <1>6

\* A compaction replaces the best answer by one no worse, or displaces it from its niches.
LEMMA IntegrateAnswers == CandidatesKept /\ NichesAgree /\ Joining => AnswerStep
<1> SUFFICES ASSUME CandidatesKept, NichesAgree, Joining
             PROVE  \E b \in BestAnswers(arch, pool) :
                       b = 0 \/ Displaced(arch, arch', b) \/ AsGood(arch', pool', b)
  BY DEF AnswerStep
<1>1. PICK result \in [Held(hand) -> {"passed", "repairable", "failed"}] :
        LET verified == [c \in Cands |-> IF c \in Held(hand) THEN Verified(hand[c], result[c])
                                         ELSE Absent]
            failed == {c \in Held(hand) : result[c] = "failed"}
            joined == [c \in Cands |-> IF c \in Held(hand) THEN verified[c] ELSE pool[c]]
        IN  \E after \in Compactions(joined, Update(arch, verified, failed)) :
               pool' = after.pool /\ arch' = after.arch
  BY DEF Joining, JoinPopulation
<1> DEFINE verified == [c \in Cands |-> IF c \in Held(hand) THEN Verified(hand[c], result[c])
                                        ELSE Absent]
           failed == {c \in Held(hand) : result[c] = "failed"}
           joined == [c \in Cands |-> IF c \in Held(hand) THEN verified[c] ELSE pool[c]]
           B == Update(arch, verified, failed)
<1>2. PICK after \in Compactions(joined, B) : pool' = after.pool /\ arch' = after.arch
  BY <1>1
<1>3. /\ joined \in [Cands -> Copies] /\ B \in ArchiveStates /\ CopiesAgree(B)
      /\ \A c \in Held(joined) : joined[c].fate \in Terminal => B.fate[c] \in Terminal
      /\ AnswerPool(B, joined) = AnswerPool(arch, pool)
      /\ \A c \in AnswerPool(arch, pool) :
            /\ arch.answer[c] = B.answer[c]
            /\ \A n \in DOMAIN arch.elite : arch.elite[n].id = c => B.elite[n] = arch.elite[n]
  BY IntegrationAnswers DEF Joining, JoinPopulation
<1> HIDE DEF verified, failed, joined, B
<1>4. BestAnswers(B, joined) = BestAnswers(arch, pool)
  BY <1>3 DEF BestAnswers
<1>5. arch \in ArchiveStates
  BY DEF CandidatesKept, ValuesTyped
<1>6. PICK b \in BestAnswers(arch, pool) :
         b = 0 \/ AsGood(arch', pool', b) \/ Displaced(B, arch', b)
  BY <1>2, <1>3, <1>4, CompactionAnswers
<1>7. DOMAIN B.elite = DOMAIN arch.elite
  BY <1>3, <1>5 DEF ArchiveStates
<1>8. ASSUME b # 0, Displaced(B, arch', b) PROVE Displaced(arch, arch', b)
  <2>1. b \in AnswerPool(arch, pool)
    BY <1>5, <1>8, BestOfAnswers
  <2>2. /\ arch.answer[b] = B.answer[b]
        /\ \A n \in DOMAIN arch.elite : arch.elite[n].id = b => B.elite[n] = arch.elite[n]
    BY <1>3, <2>1
  <2> QED
    BY <1>7, <1>8, <2>2 DEF Displaced
<1> QED
  BY <1>6, <1>8

\* The same of the compaction after a ranking.
LEMMA AssessAnswers == CandidatesKept /\ NichesAgree /\ Assess => AnswerStep
<1> SUFFICES ASSUME CandidatesKept, NichesAgree, Assess
             PROVE  \E b \in BestAnswers(arch, pool) :
                       b = 0 \/ Displaced(arch, arch', b) \/ AsGood(arch', pool', b)
  BY DEF AnswerStep
<1>1. pool \in [Cands -> Copies] /\ arch \in ArchiveStates /\ CopiesAgree(arch)
      /\ \A c \in Held(pool) : pool[c].fate \in Terminal => arch.fate[c] \in Terminal
  BY DEF Assess, CandidatesKept, ValuesTyped, NichesAgree, TerminalIsIndexed, Stages, Live
<1>2. PICK after \in Compactions(pool, arch) : pool' = after.pool /\ arch' = after.arch
  BY DEF Assess
<1> QED
  BY <1>1, <1>2, CompactionAnswers

\* From a ranking to the next evaluation the best answer is not lost and not replaced by a
\* worse one, unless it is woken or displaced from its niches.
THEOREM AnswerStays == Spec => AnswerSurvives
<1>1. IInv /\ NichesAgree /\ NichesAgree' /\ [Next]_vars => [AnswerStep]_vars
  <2> SUFFICES ASSUME CandidatesKept, NichesAgree, NichesAgree', Next PROVE AnswerStep \/ UNCHANGED vars
    BY DEF IInv
  <2>1. CASE Evaluate \/ Rank
    BY <2>1 DEF Evaluate, Rank, AnswerStep
  <2>2. CASE SelectParents \/ PlanMutations \/ NoOffspring \/ Interrupt
    <3>1. UNCHANGED <<arch, pool>>
      BY <2>2 DEF SelectParents, PlanMutations, NoOffspring, Interrupt
    <3>2. arch \in ArchiveStates
      BY DEF CandidatesKept, ValuesTyped
    <3>3. PICK b \in BestAnswers(arch, pool) : TRUE
      BY <3>2, BestOfAnswers
    <3>4. b = 0 \/ AsGood(arch, pool, b)
      BY <3>2, <3>3, BestOfAnswers, AnswerIsMatched
    <3>5. b = 0 \/ AsGood(arch', pool', b)
      BY <3>1, <3>4
    <3> QED
      BY <3>3, <3>5 DEF AnswerStep
  <2>3. CASE Rest
    BY <2>3 DEF Rest
  <2> QED
    BY <2>1, <2>2, <2>3, GenerateAnswers, IntegrateAnswers, AssessAnswers, TwoJoinings DEF Next
<1> QED
  BY <1>1, NichesAlwaysAgree, Invariance, PTL DEF Spec, AnswerSurvives, AnswerStep
=============================================================================
