----------------------------- MODULE BreedingProofs -----------------------------
(***************************************************************************)
(* The safety of Breeding and Harvest for any number of texts, workers,    *)
(* slots and rounds: who may be in the population, what a window accounts  *)
(* for, how many requests a seeding issues, and whose child and whose      *)
(* credit a slot is.                                                       *)
(*                                                                         *)
(* TakeAll, Consume and BindAll are functions by recursion over a          *)
(* sequence.  Induction is the one principle of recursion used here: the   *)
(* Unfolds lemmas derive the recursive equations from it, the Effect       *)
(* lemmas say by induction what such a function makes of a harvest, and    *)
(* the Keeps lemmas, one for each action, cite only those.                 *)
(***************************************************************************)
EXTENDS Breeding, FiniteSetTheorems, SequenceTheorems, WellFoundedInduction, TLAPS

\* A set of numbers that has 0 and the successor of each of its members has them all.
LEMMA Induction ==
  ASSUME NEW S, 0 \in S, \A n \in Nat : n \in S => n + 1 \in S
  PROVE  \A n \in Nat : n \in S
<1> SUFFICES ASSUME NEW k \in Nat, k \notin S PROVE FALSE
  OBVIOUS
<1> DEFINE T == Nat \ S
<1>1. PICK n \in T : \A m \in T : <<m, n>> \notin OpToRel(<, Nat)
  BY NatLessThanWellFounded, WFMin
<1>2. \A m \in Nat : m < n => m \in S
  BY <1>1 DEF OpToRel
<1>3. n # 0
  OBVIOUS
<1>4. n - 1 \in Nat /\ n - 1 < n /\ (n - 1) + 1 = n
  BY <1>3
<1> QED
  BY <1>2, <1>4

\* The function behind TakeAll: what each number of the items makes of the first value.
Taking(f, h, items, known) ==
  /\ f[0] = h
  /\ \A k \in Nat : k + 1 <= Len(items) => f[k + 1] = Take(f[k], items[k + 1], known)

\* The recursive function of TakeAll is what its definition says.
LEMMA TakeUnfolds ==
  ASSUME NEW h, NEW items, NEW known, Len(items) \in Nat
  PROVE  \E f : Taking(f, h, items, known) /\ TakeAll(h, items, known) = f[Len(items)]
<1> DEFINE Step(p, k) == Take(p, items[k], known)
           P(m) == \E f : f = [k \in 0 .. m |-> IF k = 0 THEN h ELSE Step(f[k - 1], k)]
           S == {m \in Nat : P(m)}
<1> HIDE DEF Step
<1>1. 0 \in S
  <2> DEFINE f == [k \in 0 .. 0 |-> h]
  <2>1. f = [k \in 0 .. 0 |-> IF k = 0 THEN h ELSE Step(f[k - 1], k)]
    OBVIOUS
  <2> QED
    BY <2>1
<1>2. ASSUME NEW m \in Nat, m \in S PROVE m + 1 \in S
  <2>1. PICK f : f = [k \in 0 .. m |-> IF k = 0 THEN h ELSE Step(f[k - 1], k)]
    BY <1>2
  <2> DEFINE last == Step(f[m], m + 1)
             g == [k \in 0 .. m + 1 |-> IF k = m + 1 THEN last ELSE f[k]]
             again == [k \in 0 .. m + 1 |-> IF k = 0 THEN h ELSE Step(g[k - 1], k)]
  <2>2. \A k \in 0 .. m : g[k] = f[k]
    OBVIOUS
  <2>3. g[m + 1] = last
    OBVIOUS
  <2>4. ASSUME NEW k \in 0 .. m + 1 PROVE g[k] = again[k]
    <3>1. CASE k = 0
      <4>1. f[0] = h
        BY <2>1
      <4> QED
        BY <3>1, <4>1, <2>2
    <3>2. CASE k = m + 1
      <4>1. g[k - 1] = f[m]
        BY <3>2, <2>2
      <4>2. k # 0
        BY <3>2
      <4> QED
        BY <3>2, <4>1, <4>2, <2>3
    <3>3. CASE k \in 1 .. m
      <4>1. g[k - 1] = f[k - 1] /\ g[k] = f[k]
        BY <3>3, <2>2
      <4>2. f[k] = Step(f[k - 1], k)
        BY <3>3, <2>1
      <4> QED
        BY <3>3, <4>1, <4>2
    <3> QED
      BY <3>1, <3>2, <3>3
  <2>5. g = again
    BY <2>4
  <2> HIDE DEF g
  <2>6. P(m + 1)
    BY <2>5
  <2> QED
    BY <2>6
<1>3. P(Len(items))
  <2> HIDE DEF P
  <2>1. \A m \in Nat : m \in S
    BY <1>1, <1>2, Induction
  <2> QED
    BY <2>1
<1>4. PICK f : /\ f = [k \in 0 .. Len(items) |-> IF k = 0 THEN h ELSE Step(f[k - 1], k)]
               /\ TakeAll(h, items, known) = f[Len(items)]
  BY <1>3 DEF TakeAll, Step
<1>5. f[0] = h
  BY <1>4
<1>6. \A k \in Nat : k + 1 <= Len(items) => f[k + 1] = Step(f[k], k + 1)
  <2> SUFFICES ASSUME NEW k \in Nat, k + 1 <= Len(items) PROVE f[k + 1] = Step(f[k], k + 1)
    OBVIOUS
  <2>1. k + 1 \in 0 .. Len(items) /\ k + 1 # 0 /\ (k + 1) - 1 = k
    OBVIOUS
  <2> QED
    BY <2>1, <1>4
<1> QED
  BY <1>4, <1>5, <1>6 DEF Step, Taking

\* The function behind Consume: what each number of the items makes of the first value.
Reading(f, h, first, window, known) ==
  /\ f[0] = h
  /\ \A k \in Nat : k + 1 <= Len(window) => f[k + 1] = Read(f[k], first + (k + 1), window[k + 1], known)

\* The recursive function of Consume is what its definition says.
LEMMA ConsumeUnfolds ==
  ASSUME NEW h, NEW first \in Nat, NEW window, NEW known, Len(window) \in Nat
  PROVE  \E f : Reading(f, h, first, window, known) /\ Consume(h, first, window, known) = f[Len(window)]
<1> DEFINE Step(p, k) == Read(p, first + k, window[k], known)
           P(m) == \E f : f = [k \in 0 .. m |-> IF k = 0 THEN h ELSE Step(f[k - 1], k)]
           S == {m \in Nat : P(m)}
<1> HIDE DEF Step
<1>1. 0 \in S
  <2> DEFINE f == [k \in 0 .. 0 |-> h]
  <2>1. f = [k \in 0 .. 0 |-> IF k = 0 THEN h ELSE Step(f[k - 1], k)]
    OBVIOUS
  <2> QED
    BY <2>1
<1>2. ASSUME NEW m \in Nat, m \in S PROVE m + 1 \in S
  <2>1. PICK f : f = [k \in 0 .. m |-> IF k = 0 THEN h ELSE Step(f[k - 1], k)]
    BY <1>2
  <2> DEFINE last == Step(f[m], m + 1)
             g == [k \in 0 .. m + 1 |-> IF k = m + 1 THEN last ELSE f[k]]
             again == [k \in 0 .. m + 1 |-> IF k = 0 THEN h ELSE Step(g[k - 1], k)]
  <2>2. \A k \in 0 .. m : g[k] = f[k]
    OBVIOUS
  <2>3. g[m + 1] = last
    OBVIOUS
  <2>4. ASSUME NEW k \in 0 .. m + 1 PROVE g[k] = again[k]
    <3>1. CASE k = 0
      <4>1. f[0] = h
        BY <2>1
      <4> QED
        BY <3>1, <4>1, <2>2
    <3>2. CASE k = m + 1
      <4>1. g[k - 1] = f[m]
        BY <3>2, <2>2
      <4>2. k # 0
        BY <3>2
      <4> QED
        BY <3>2, <4>1, <4>2, <2>3
    <3>3. CASE k \in 1 .. m
      <4>1. g[k - 1] = f[k - 1] /\ g[k] = f[k]
        BY <3>3, <2>2
      <4>2. f[k] = Step(f[k - 1], k)
        BY <3>3, <2>1
      <4> QED
        BY <3>3, <4>1, <4>2
    <3> QED
      BY <3>1, <3>2, <3>3
  <2>5. g = again
    BY <2>4
  <2> HIDE DEF g
  <2>6. P(m + 1)
    BY <2>5
  <2> QED
    BY <2>6
<1>3. P(Len(window))
  <2> HIDE DEF P
  <2>1. \A m \in Nat : m \in S
    BY <1>1, <1>2, Induction
  <2> QED
    BY <2>1
<1>4. PICK f : /\ f = [k \in 0 .. Len(window) |-> IF k = 0 THEN h ELSE Step(f[k - 1], k)]
               /\ Consume(h, first, window, known) = f[Len(window)]
  BY <1>3 DEF Consume, Step
<1>5. f[0] = h
  BY <1>4
<1>6. \A k \in Nat : k + 1 <= Len(window) => f[k + 1] = Step(f[k], k + 1)
  <2> SUFFICES ASSUME NEW k \in Nat, k + 1 <= Len(window) PROVE f[k + 1] = Step(f[k], k + 1)
    OBVIOUS
  <2>1. k + 1 \in 0 .. Len(window) /\ k + 1 # 0 /\ (k + 1) - 1 = k
    OBVIOUS
  <2> QED
    BY <2>1, <1>4
<1> QED
  BY <1>4, <1>5, <1>6 DEF Step, Reading

\* The function behind BindAll: what each number of the items makes of the first value.
Binding(f, items) ==
  /\ f[0] = <<>>
  /\ \A k \in Nat : k + 1 <= Len(items) => f[k + 1] = Append(f[k], Bound(items[k + 1], {c.slot : c \in Range(f[k])}))

\* The recursive function of BindAll is what its definition says.
LEMMA BindUnfolds ==
  ASSUME NEW items, Len(items) \in Nat
  PROVE  \E f : Binding(f, items) /\ BindAll(items) = f[Len(items)]
<1> DEFINE Step(p, k) == Append(p, Bound(items[k], {c.slot : c \in Range(p)}))
           P(m) == \E f : f = [k \in 0 .. m |-> IF k = 0 THEN <<>> ELSE Step(f[k - 1], k)]
           S == {m \in Nat : P(m)}
<1> HIDE DEF Step
<1>1. 0 \in S
  <2> DEFINE f == [k \in 0 .. 0 |-> <<>>]
  <2>1. f = [k \in 0 .. 0 |-> IF k = 0 THEN <<>> ELSE Step(f[k - 1], k)]
    OBVIOUS
  <2> QED
    BY <2>1
<1>2. ASSUME NEW m \in Nat, m \in S PROVE m + 1 \in S
  <2>1. PICK f : f = [k \in 0 .. m |-> IF k = 0 THEN <<>> ELSE Step(f[k - 1], k)]
    BY <1>2
  <2> DEFINE last == Step(f[m], m + 1)
             g == [k \in 0 .. m + 1 |-> IF k = m + 1 THEN last ELSE f[k]]
             again == [k \in 0 .. m + 1 |-> IF k = 0 THEN <<>> ELSE Step(g[k - 1], k)]
  <2>2. \A k \in 0 .. m : g[k] = f[k]
    OBVIOUS
  <2>3. g[m + 1] = last
    OBVIOUS
  <2>4. ASSUME NEW k \in 0 .. m + 1 PROVE g[k] = again[k]
    <3>1. CASE k = 0
      <4>1. f[0] = <<>>
        BY <2>1
      <4> QED
        BY <3>1, <4>1, <2>2
    <3>2. CASE k = m + 1
      <4>1. g[k - 1] = f[m]
        BY <3>2, <2>2
      <4>2. k # 0
        BY <3>2
      <4> QED
        BY <3>2, <4>1, <4>2, <2>3
    <3>3. CASE k \in 1 .. m
      <4>1. g[k - 1] = f[k - 1] /\ g[k] = f[k]
        BY <3>3, <2>2
      <4>2. f[k] = Step(f[k - 1], k)
        BY <3>3, <2>1
      <4> QED
        BY <3>3, <4>1, <4>2
    <3> QED
      BY <3>1, <3>2, <3>3
  <2>5. g = again
    BY <2>4
  <2> HIDE DEF g
  <2>6. P(m + 1)
    BY <2>5
  <2> QED
    BY <2>6
<1>3. P(Len(items))
  <2> HIDE DEF P
  <2>1. \A m \in Nat : m \in S
    BY <1>1, <1>2, Induction
  <2> QED
    BY <2>1
<1>4. PICK f : /\ f = [k \in 0 .. Len(items) |-> IF k = 0 THEN <<>> ELSE Step(f[k - 1], k)]
               /\ BindAll(items) = f[Len(items)]
  BY <1>3 DEF BindAll, Step
<1>5. f[0] = <<>>
  BY <1>4
<1>6. \A k \in Nat : k + 1 <= Len(items) => f[k + 1] = Step(f[k], k + 1)
  <2> SUFFICES ASSUME NEW k \in Nat, k + 1 <= Len(items) PROVE f[k + 1] = Step(f[k], k + 1)
    OBVIOUS
  <2>1. k + 1 \in 0 .. Len(items) /\ k + 1 # 0 /\ (k + 1) - 1 = k
    OBVIOUS
  <2> QED
    BY <2>1, <1>4
<1> QED
  BY <1>4, <1>5, <1>6 DEF Step, Binding

-----------------------------------------------------------------------------
(* The harvest.                                                            *)

\* A sequence to which an element is appended has that one at its end and in its range.
LEMMA AppendEffect ==
  ASSUME NEW s, s \in Seq(Range(s)), NEW e
  PROVE  LET t == Append(s, e)
         IN  /\ t \in Seq(Range(t)) /\ Range(t) = Range(s) \union {e}
             /\ Len(t) = Len(s) + 1 /\ DOMAIN t = 1 .. Len(s) + 1 /\ DOMAIN s = 1 .. Len(s)
             /\ t[Len(s) + 1] = e /\ \A i \in DOMAIN s : t[i] = s[i]
<1> DEFINE t == Append(s, e)
           R == Range(s)
<1>0. s \in Seq(R)
  OBVIOUS
<1> HIDE DEF R
<1>1. /\ Len(s) \in Nat /\ DOMAIN s = 1 .. Len(s)
      /\ Len(t) = Len(s) + 1 /\ DOMAIN t = 1 .. Len(s) + 1
      /\ t[Len(s) + 1] = e /\ \A i \in 1 .. Len(s) : t[i] = s[i]
  BY <1>0
<1>2. t \in Seq(R \union {e})
  BY <1>0
<1> HIDE DEF t
<1>3. Range(t) = R \union {e}
  <2>1. ASSUME NEW x \in Range(t) PROVE x \in R \union {e}
    <3>1. PICK i \in 1 .. Len(s) + 1 : x = t[i]
      BY <2>1, <1>1 DEF Range
    <3>2. CASE i = Len(s) + 1
      BY <3>1, <3>2, <1>1
    <3>3. CASE i \in 1 .. Len(s)
      BY <3>1, <3>3, <1>1 DEF Range, R
    <3> QED
      BY <3>1, <3>2, <3>3, <1>1
  <2>2. ASSUME NEW x \in R PROVE x \in Range(t)
    <3>1. PICK i \in 1 .. Len(s) : x = s[i]
      BY <2>2, <1>1 DEF Range, R
    <3>2. i \in 1 .. Len(s) + 1
      BY <1>1
    <3> QED
      BY <3>1, <3>2, <1>1 DEF Range
  <2>3. e \in Range(t)
    <3>1. Len(s) + 1 \in 1 .. Len(s) + 1
      BY <1>1
    <3> QED
      BY <3>1, <1>1 DEF Range
  <2> QED
    BY <2>1, <2>2, <2>3
<1> QED
  BY <1>1, <1>2, <1>3 DEF t, R

\* A harvest that differs in the fields that only count and stop it is a harvest as well.
LEMMA HarvestOf ==
  ASSUME NEW target \in Int, NEW accepted, accepted \in Seq(Range(accepted)),
         NEW rejected, rejected \in Seq(Range(rejected)), NEW failed, NEW batches \in Nat, NEW stop,
         NEW fatal, NEW streak \in Nat
  PROVE  IsHarvest([target |-> target, accepted |-> accepted, rejected |-> rejected,
                    failed |-> failed, batches |-> batches, stop |-> stop, fatal |-> fatal,
                    streak |-> streak])
BY DEF IsHarvest

\* A harvest holds a candidate more, or one refusal more; it is accepted when it is like
\* nothing that is known and like nothing that was accepted.
LEMMA TakeEffect ==
  ASSUME NEW h, IsHarvest(h), NEW c, NEW known
  PROVE  LET g == Take(h, c, known)
         IN  /\ IsHarvest(g) /\ g.target = h.target /\ g.failed = h.failed
             /\ g.batches = h.batches /\ g.stop = h.stop /\ g.fatal = h.fatal
             /\ g.streak = h.streak
             /\ \/ /\ g.accepted = Append(h.accepted, c) /\ g.rejected = h.rejected
                   /\ \A d \in known \union Range(h.accepted) : ~Alike(c, d)
                \/ /\ g.accepted = h.accepted
                   /\ RejectedOf(g) = RejectedOf(h) \union {c}
<1> DEFINE g == Take(h, c, known)
           alike == \E d \in known \union Range(h.accepted) : Alike(c, d)
           r == [candidate |-> c,
                 artifact |-> \E d \in known \union Range(h.accepted) : SameArtifact(c, d)]
<1>1. CASE alike
  <2>1. g = [h EXCEPT !.rejected = Append(h.rejected, r)]
    BY <1>1 DEF Take
  <2> HIDE DEF r
  <2>2. h.rejected \in Seq(Range(h.rejected))
    BY DEF IsHarvest
  <2> DEFINE a == Append(h.rejected, r)
  <2>3. a \in Seq(Range(a)) /\ Range(a) = Range(h.rejected) \union {r}
    BY <2>2, AppendEffect
  <2> HIDE DEF a
  <2>4. g = [h EXCEPT !.rejected = a]
    BY <2>1 DEF a
  <2>5. g = [target |-> h.target, accepted |-> h.accepted, rejected |-> a,
             failed |-> h.failed, batches |-> h.batches, stop |-> h.stop, fatal |-> h.fatal,
             streak |-> h.streak]
    BY <2>4 DEF IsHarvest
  <2> HIDE DEF g
  <2>6. IsHarvest(g)
    BY <2>5, <2>3 DEF IsHarvest
  <2>7. r.candidate = c
    BY DEF r
  <2>8. RejectedOf(g) = RejectedOf(h) \union {c}
    BY <2>3, <2>5, <2>7 DEF RejectedOf
  <2> QED
    BY <2>5, <2>6, <2>8 DEF g
<1>2. CASE ~alike
  <2>1. g = [h EXCEPT !.accepted = Append(h.accepted, c)]
    BY <1>2 DEF Take
  <2>2. h.accepted \in Seq(Range(h.accepted))
    BY DEF IsHarvest
  <2> DEFINE a == Append(h.accepted, c)
  <2>3. a \in Seq(Range(a)) /\ Range(a) = Range(h.accepted) \union {c}
    BY <2>2, AppendEffect
  <2> HIDE DEF a
  <2>4. g = [h EXCEPT !.accepted = a]
    BY <2>1 DEF a
  <2>5. g = [target |-> h.target, accepted |-> a, rejected |-> h.rejected,
             failed |-> h.failed, batches |-> h.batches, stop |-> h.stop, fatal |-> h.fatal,
             streak |-> h.streak]
    BY <2>4 DEF IsHarvest
  <2> HIDE DEF g
  <2>6. IsHarvest(g)
    BY <2>5, <2>3 DEF IsHarvest
  <2> QED
    BY <1>2, <2>5, <2>6 DEF g, a
<1> QED
  BY <1>1, <1>2

\* Likeness does not depend on who is compared with whom.
LEMMA AlikeIsSymmetric == \A c, d : Alike(c, d) <=> Alike(d, c)
BY DEF Alike, SameArtifact

\* What is taken keeps the candidates of a harvest apart.
LEMMA TakeKeepsApart ==
  ASSUME NEW h, IsHarvest(h), NEW c, NEW known, AreApart(h, known)
  PROVE  AreApart(Take(h, c, known), known)
<1> DEFINE g == Take(h, c, known)
<1>1. \/ /\ g.accepted = Append(h.accepted, c)
         /\ \A d \in known \union Range(h.accepted) : ~Alike(c, d)
      \/ g.accepted = h.accepted
  BY TakeEffect
<1> HIDE DEF g
<1>2. CASE g.accepted = h.accepted
  BY <1>2 DEF AreApart, g
<1>3. CASE /\ g.accepted = Append(h.accepted, c)
           /\ \A d \in known \union Range(h.accepted) : ~Alike(c, d)
  <2> DEFINE n == Len(h.accepted)
  <2>1. h.accepted \in Seq(Range(h.accepted))
    BY DEF IsHarvest
  <2>2. /\ Range(g.accepted) = Range(h.accepted) \union {c}
        /\ DOMAIN g.accepted = 1 .. n + 1 /\ DOMAIN h.accepted = 1 .. n
        /\ g.accepted[n + 1] = c /\ \A i \in DOMAIN h.accepted : g.accepted[i] = h.accepted[i]
    BY <1>3, <2>1, AppendEffect
  <2>3. n \in Nat
    BY <2>1
  <2> HIDE DEF n
  <2>4. ASSUME NEW i \in DOMAIN g.accepted, NEW j \in DOMAIN g.accepted, i # j
        PROVE  ~Alike(g.accepted[i], g.accepted[j])
    <3>1. \A k \in DOMAIN g.accepted : k = n + 1 \/ k \in DOMAIN h.accepted
      BY <2>2, <2>3
    <3>2. \A k \in DOMAIN h.accepted : h.accepted[k] \in Range(h.accepted)
      BY DEF Range
    <3>3. CASE i = n + 1 /\ j \in DOMAIN h.accepted
      BY <3>3, <3>2, <1>3, <2>2
    <3>4. CASE j = n + 1 /\ i \in DOMAIN h.accepted
      <4>1. ~Alike(g.accepted[j], g.accepted[i])
        BY <3>4, <3>2, <1>3, <2>2
      <4> QED
        BY <4>1, AlikeIsSymmetric
    <3>5. CASE i \in DOMAIN h.accepted /\ j \in DOMAIN h.accepted
      BY <3>5, <2>2, <2>4 DEF AreApart
    <3> QED
      BY <3>1, <3>3, <3>4, <3>5, <2>4
  <2>5. \A e \in Range(g.accepted), d \in known : ~Alike(e, d)
    BY <1>3, <2>2 DEF AreApart
  <2> QED
    BY <2>4, <2>5 DEF AreApart, g
<1> QED
  BY <1>1, <1>2, <1>3

\* How many accepted candidates count is a number, and no smaller when more are accepted.
LEMMA QualifiedCountIsNat ==
  ASSUME NEW h, h.accepted \in Seq(Range(h.accepted))
  PROVE  QualifiedCount(h) \in Nat
<1>1. Len(h.accepted) \in Nat /\ DOMAIN h.accepted = 1 .. Len(h.accepted)
  OBVIOUS
<1>2. IsFiniteSet(DOMAIN h.accepted)
  BY <1>1, FS_Interval
<1>3. IsFiniteSet({i \in DOMAIN h.accepted : h.accepted[i].text \in Qualified})
  BY <1>2, FS_Subset
<1> QED
  BY <1>3, FS_CardinalityType DEF QualifiedCount

\* A harvest that keeps its accepted candidates and adds to them counts no fewer.
LEMMA QualifiedCountGrows ==
  ASSUME NEW h, NEW g, g.accepted \in Seq(Range(g.accepted)),
         DOMAIN h.accepted \subseteq DOMAIN g.accepted,
         \A i \in DOMAIN h.accepted : g.accepted[i] = h.accepted[i]
  PROVE  QualifiedCount(h) <= QualifiedCount(g)
<1> DEFINE H == {i \in DOMAIN h.accepted : h.accepted[i].text \in Qualified}
           G == {i \in DOMAIN g.accepted : g.accepted[i].text \in Qualified}
<1>1. Len(g.accepted) \in Nat /\ DOMAIN g.accepted = 1 .. Len(g.accepted)
  OBVIOUS
<1>2. IsFiniteSet(DOMAIN g.accepted)
  BY <1>1, FS_Interval
<1>3. IsFiniteSet(G)
  BY <1>2, FS_Subset
<1>4. H \in SUBSET G
  OBVIOUS
<1> QED
  BY <1>3, <1>4, FS_Subset DEF QualifiedCount

\* Each of the items is accepted or refused.
Sorted(h, items, g) ==
  \E K \in SUBSET DOMAIN items :
     /\ Range(g.accepted) = Range(h.accepted) \union {items[k] : k \in K}
     /\ RejectedOf(g) = RejectedOf(h) \union {items[k] : k \in DOMAIN items \ K}

\* An answer: each of its candidates is accepted or refused, and nothing else of the harvest
\* changes.
LEMMA TakeAllEffect ==
  ASSUME NEW h, IsHarvest(h), NEW S, NEW items \in Seq(S), NEW known
  PROVE  LET g == TakeAll(h, items, known)
         IN  /\ IsHarvest(g) /\ g.target = h.target /\ g.failed = h.failed
             /\ g.batches = h.batches /\ g.stop = h.stop /\ g.fatal = h.fatal
             /\ g.streak = h.streak
             /\ AreApart(h, known) => AreApart(g, known)
             /\ QualifiedCount(h) <= QualifiedCount(g)
             /\ Sorted(h, items, g)
<1> DEFINE n == Len(items)
<1>1. n \in Nat /\ DOMAIN items = 1 .. n
  OBVIOUS
<1>2. PICK f : Taking(f, h, items, known) /\ TakeAll(h, items, known) = f[Len(items)]
  BY <1>1, TakeUnfolds
<1>3. f[0] = h /\ TakeAll(h, items, known) = f[n]
  BY <1>2 DEF Taking
<1>4. \A k \in Nat : k + 1 <= n => f[k + 1] = Take(f[k], items[k + 1], known)
  BY <1>2 DEF Taking
<1> HIDE DEF n
<1> DEFINE Upto(g, k) ==
             \E K \in SUBSET (1 .. k) :
                /\ Range(g.accepted) = Range(h.accepted) \union {items[j] : j \in K}
                /\ RejectedOf(g) = RejectedOf(h) \union {items[j] : j \in (1 .. k) \ K}
           P(g, k) == /\ IsHarvest(g) /\ g.target = h.target /\ g.failed = h.failed
                      /\ g.batches = h.batches /\ g.stop = h.stop /\ g.fatal = h.fatal
                      /\ g.streak = h.streak
                      /\ AreApart(h, known) => AreApart(g, known)
                      /\ QualifiedCount(h) <= QualifiedCount(g)
           N == {k \in Nat : k <= n => P(f[k], k) /\ Upto(f[k], k)}
<1>5. 0 \in N
  <2>1. QualifiedCount(h) \in Nat
    BY QualifiedCountIsNat DEF IsHarvest
  <2>2. P(h, 0)
    BY <2>1
  <2>3. Upto(h, 0)
    <3>1. 1 .. 0 = {}
      OBVIOUS
    <3> QED
      BY <3>1
  <2> HIDE DEF P, Upto
  <2> QED
    BY <2>2, <2>3, <1>3
<1>6. ASSUME NEW k \in Nat, k \in N PROVE k + 1 \in N
  <2> SUFFICES ASSUME k + 1 <= n PROVE P(f[k + 1], k + 1) /\ Upto(f[k + 1], k + 1)
    BY <1>6
  <2> DEFINE p == f[k]
             c == items[k + 1]
             g == Take(p, c, known)
  <2>1. P(p, k) /\ Upto(p, k)
    <3> HIDE DEF P, Upto
    <3>1. k <= n
      BY <1>1
    <3> QED
      BY <3>1, <1>6
  <2>2. f[k + 1] = g
    BY <1>4
  <2> HIDE DEF p, c, Upto
  <2>3. /\ IsHarvest(g) /\ g.target = p.target /\ g.failed = p.failed
        /\ g.batches = p.batches /\ g.stop = p.stop /\ g.fatal = p.fatal
        /\ g.streak = p.streak
        /\ \/ g.accepted = Append(p.accepted, c) /\ g.rejected = p.rejected
           \/ g.accepted = p.accepted /\ RejectedOf(g) = RejectedOf(p) \union {c}
    BY <2>1, TakeEffect
  <2>4. AreApart(p, known) => AreApart(g, known)
    BY <2>1, TakeKeepsApart
  <2> HIDE DEF g
  <2>5. p.accepted \in Seq(Range(p.accepted)) /\ g.accepted \in Seq(Range(g.accepted))
    BY <2>1, <2>3 DEF IsHarvest
  <2>6. Range(Append(p.accepted, c)) = Range(p.accepted) \union {c}
    BY <2>5, AppendEffect
  <2>7. QualifiedCount(p) <= QualifiedCount(g)
    <3>1. CASE g.accepted = p.accepted
      BY <3>1, <2>5, QualifiedCountGrows
    <3>2. CASE g.accepted = Append(p.accepted, c)
      <4> DEFINE m == Len(p.accepted)
      <4>1. /\ DOMAIN Append(p.accepted, c) = 1 .. m + 1
            /\ DOMAIN p.accepted = 1 .. m
            /\ \A i \in DOMAIN p.accepted : Append(p.accepted, c)[i] = p.accepted[i]
        BY <2>5, AppendEffect
      <4>2. m \in Nat
        BY <2>5
      <4>3. DOMAIN p.accepted \subseteq DOMAIN g.accepted
        BY <3>2, <4>1, <4>2
      <4>4. \A i \in DOMAIN p.accepted : g.accepted[i] = p.accepted[i]
        BY <3>2, <4>1
      <4> QED
        BY <4>3, <4>4, <2>5, QualifiedCountGrows
    <3> QED
      BY <3>1, <3>2, <2>3
  <2>8. P(g, k + 1)
    <3>1. /\ QualifiedCount(h) \in Nat /\ QualifiedCount(p) \in Nat
          /\ QualifiedCount(g) \in Nat
      BY <2>5, QualifiedCountIsNat DEF IsHarvest
    <3>2. QualifiedCount(h) <= QualifiedCount(g)
      BY <3>1, <2>1, <2>7
    <3> QED
      BY <3>2, <2>1, <2>3, <2>4
  <2>9. Upto(g, k + 1)
    <3>1. PICK K \in SUBSET (1 .. k) :
             /\ Range(p.accepted) = Range(h.accepted) \union {items[j] : j \in K}
             /\ RejectedOf(p) = RejectedOf(h) \union {items[j] : j \in (1 .. k) \ K}
      BY <2>1 DEF Upto
    <3>2. CASE g.accepted = Append(p.accepted, c) /\ g.rejected = p.rejected
      <4> DEFINE L == K \union {k + 1}
      <4>1. L \in SUBSET (1 .. k + 1)
        OBVIOUS
      <4>2. (1 .. k + 1) \ L = (1 .. k) \ K
        OBVIOUS
      <4>3. {items[j] : j \in L} = {items[j] : j \in K} \union {c}
        BY DEF c
      <4>4. Range(g.accepted) = Range(h.accepted) \union {items[j] : j \in L}
        BY <3>1, <3>2, <2>6, <4>3
      <4>5. RejectedOf(g) = RejectedOf(h) \union {items[j] : j \in (1 .. k + 1) \ L}
        BY <3>1, <3>2, <4>2 DEF RejectedOf
      <4> HIDE DEF L
      <4> QED
        BY <4>1, <4>4, <4>5 DEF Upto
    <3>3. CASE g.accepted = p.accepted /\ RejectedOf(g) = RejectedOf(p) \union {c}
      <4>1. K \in SUBSET (1 .. k + 1)
        OBVIOUS
      <4>2. (1 .. k + 1) \ K = ((1 .. k) \ K) \union {k + 1}
        OBVIOUS
      <4>3. {items[j] : j \in (1 .. k + 1) \ K} = {items[j] : j \in (1 .. k) \ K} \union {c}
        BY <4>2 DEF c
      <4>4. Range(g.accepted) = Range(h.accepted) \union {items[j] : j \in K}
        BY <3>1, <3>3
      <4>5. RejectedOf(g) = RejectedOf(h) \union {items[j] : j \in (1 .. k + 1) \ K}
        BY <3>1, <3>3, <4>3
      <4> QED
        BY <4>1, <4>4, <4>5 DEF Upto
    <3> QED
      BY <3>2, <3>3, <2>3
  <2> HIDE DEF P
  <2> QED
    BY <2>2, <2>8, <2>9
<1>7. P(f[n], n) /\ Upto(f[n], n)
  <2> HIDE DEF P, Upto
  <2>1. \A k \in Nat : k \in N
    BY <1>5, <1>6, Induction
  <2> QED
    BY <2>1, <1>1
<1> QED
  BY <1>1, <1>3, <1>7 DEF n, Sorted

\* One more qualified candidate is worth more than any streak without one.
LEMMA GainIsProgress ==
  ASSUME NEW P \in Nat, NEW q \in Nat, NEW r \in Nat
  PROVE  /\ P * q \in Nat
         /\ q <= r => P * q <= P * r
         /\ q < r => P * q + P <= P * r
<1>1. P * q \in Nat
  OBVIOUS
<1>2. \A d \in Nat : P * d \in Nat
  OBVIOUS
<1>3. \A d \in Nat : P * (q + d) = P * q + P * d
  OBVIOUS
<1>4. ASSUME q <= r PROVE P * q <= P * r
  <2>1. r - q \in Nat /\ q + (r - q) = r
    BY <1>4
  <2>2. P * r = P * q + P * (r - q) /\ P * (r - q) \in Nat /\ P * r \in Nat
    BY <2>1, <1>2, <1>3
  <2> QED
    BY <1>1, <2>2
<1>5. ASSUME q < r PROVE P * q + P <= P * r
  <2>1. r - (q + 1) \in Nat /\ (q + 1) + (r - (q + 1)) = r
    BY <1>5
  <2>2. P * r = P * q + P * (1 + (r - (q + 1)))
    BY <2>1, <1>3
  <2>3. P * (1 + (r - (q + 1))) = P + P * (r - (q + 1)) /\ P * (r - (q + 1)) \in Nat
    BY <2>1, <1>2
  <2> QED
    BY <1>1, <2>2, <2>3
<1> QED
  BY <1>1, <1>4, <1>5

\* The stop of a harvest in a window tells whether the patience is worn out.
Told(h) == h.stop = "low_gain_patience" <=> h.streak >= Patience

\* An answered batch: it ends the harvest, or makes it progress while it is short of its
\* target or of its least number of batches.
LEMMA HarvestedEffect ==
  ASSUME NEW h, IsHarvest(h), Told(h), h.stop # "low_gain_patience",
         NEW S, ChildrenOf(h) \subseteq S, NEW items \in Seq(S), NEW known
  PROVE  LET g == Harvested(h, items, known)
         IN  /\ IsHarvest(g) /\ Told(g) /\ g.target = h.target /\ ChildrenOf(g) \subseteq S
             /\ AreApart(h, known) => AreApart(g, known)
             /\ g.batches = h.batches + 1 /\ g.failed = h.failed /\ g.fatal = h.fatal
             /\ QualifiedCount(h) <= QualifiedCount(g)
             /\ g.stop = "none" =>
                   /\ h.stop = "none" /\ Progress(h) < Progress(g)
                   /\ QualifiedCount(g) < g.target \/ g.batches < MinBatches
<1> DEFINE all == TakeAll(h, items, known)
           took == [all EXCEPT !.batches = @ + 1]
           gained == QualifiedCount(took) > QualifiedCount(h)
           streak == IF gained THEN 0 ELSE h.streak + 1
           reached == took.batches >= MinBatches /\ QualifiedCount(took) >= h.target
           stop == IF reached THEN "target_reached"
                   ELSE IF streak >= Patience THEN "low_gain_patience" ELSE h.stop
           newStreak == IF reached THEN h.streak ELSE streak
           g == Harvested(h, items, known)
<1> HIDE DEF took, gained, streak, reached, stop, newStreak, g
<1>0. Patience \in Nat /\ Patience # 0 /\ MinBatches \in Nat
  BY HarvestAssumption
<1>1. /\ IsHarvest(all) /\ all.target = h.target /\ all.failed = h.failed
      /\ all.batches = h.batches /\ all.stop = h.stop /\ all.fatal = h.fatal
      /\ all.streak = h.streak
      /\ AreApart(h, known) => AreApart(all, known)
      /\ QualifiedCount(h) <= QualifiedCount(all)
      /\ Sorted(h, items, all)
  BY TakeAllEffect
<1>2. ChildrenOf(all) \subseteq S
  <2>1. \A k \in DOMAIN items : items[k] \in S
    OBVIOUS
  <2> HIDE DEF all
  <2> QED
    BY <1>1, <2>1 DEF ChildrenOf, Sorted
<1> HIDE DEF all
<1>3. took = [target |-> h.target, accepted |-> all.accepted, rejected |-> all.rejected,
              failed |-> h.failed, batches |-> h.batches + 1, stop |-> h.stop,
              fatal |-> h.fatal, streak |-> h.streak]
  <2>1. all = [target |-> h.target, accepted |-> all.accepted, rejected |-> all.rejected,
               failed |-> h.failed, batches |-> h.batches, stop |-> h.stop,
               fatal |-> h.fatal, streak |-> h.streak]
    BY <1>1 DEF IsHarvest
  <2> DEFINE a == all.accepted
             r == all.rejected
             n == h.batches + 1
  <2>2. took = [all EXCEPT !.batches = n]
    BY <1>1 DEF took
  <2> HIDE DEF a, r, n
  <2>3. all = [target |-> h.target, accepted |-> a, rejected |-> r,
               failed |-> h.failed, batches |-> h.batches, stop |-> h.stop,
               fatal |-> h.fatal, streak |-> h.streak]
    BY <2>1 DEF a, r
  <2>4. took = [target |-> h.target, accepted |-> a, rejected |-> r,
               failed |-> h.failed, batches |-> n, stop |-> h.stop,
               fatal |-> h.fatal, streak |-> h.streak]
    BY <2>2, <2>3
  <2> QED
    BY <2>4 DEF a, r, n
<1>4. g = IF reached THEN [took EXCEPT !.stop = "target_reached"]
          ELSE [took EXCEPT !.streak = streak,
                            !.stop = IF streak >= Patience THEN "low_gain_patience" ELSE @]
  BY DEF Harvested, all, took, gained, streak, reached, g
<1>5. g = [target |-> h.target, accepted |-> all.accepted, rejected |-> all.rejected,
           failed |-> h.failed, batches |-> h.batches + 1, stop |-> stop, fatal |-> h.fatal,
           streak |-> newStreak]
  <2>1. CASE reached
    BY <2>1, <1>3, <1>4 DEF stop, newStreak
  <2>2. CASE ~reached
    BY <2>2, <1>3, <1>4 DEF stop, newStreak
  <2> QED
    BY <2>1, <2>2
<1>6. /\ h.target \in Int /\ h.batches \in Nat /\ h.streak \in Nat
      /\ all.accepted \in Seq(Range(all.accepted))
      /\ all.rejected \in Seq(Range(all.rejected))
      /\ h.accepted \in Seq(Range(h.accepted))
  BY <1>1 DEF IsHarvest
<1>7. streak \in Nat /\ newStreak \in Nat
  BY <1>6 DEF streak, newStreak
<1>8. /\ QualifiedCount(took) = QualifiedCount(all)
      /\ QualifiedCount(g) = QualifiedCount(all)
  BY <1>3, <1>5 DEF QualifiedCount
<1>9. QualifiedCount(all) \in Nat /\ QualifiedCount(h) \in Nat
  BY <1>6, QualifiedCountIsNat
<1>10. IsHarvest(g)
  BY <1>5, <1>6, <1>7 DEF IsHarvest
<1>11. /\ g.target = h.target /\ g.batches = h.batches + 1 /\ g.failed = h.failed
       /\ g.fatal = h.fatal /\ g.stop = stop /\ g.streak = newStreak
       /\ g.accepted = all.accepted /\ g.rejected = all.rejected
  BY <1>5
<1>12. ChildrenOf(g) \subseteq S /\ (AreApart(h, known) => AreApart(g, known))
  BY <1>1, <1>2, <1>11 DEF ChildrenOf, RejectedOf, AreApart
<1>13. Told(g)
  BY <1>0, <1>6, <1>7, <1>11 DEF Told, stop, newStreak
<1>14. ASSUME g.stop = "none"
       PROVE  /\ h.stop = "none" /\ Progress(h) < Progress(g)
              /\ QualifiedCount(g) < g.target \/ g.batches < MinBatches
  <2>1. ~reached /\ streak < Patience /\ h.stop = "none"
    BY <1>14, <1>11, <1>0, <1>7 DEF stop
  <2>2. g.streak = streak
    BY <2>1, <1>11 DEF newStreak
  <2>3. QualifiedCount(g) < g.target \/ g.batches < MinBatches
    <3>1. took.batches = h.batches + 1
      BY <1>3
    <3> QED
      BY <2>1, <3>1, <1>0, <1>6, <1>8, <1>9, <1>11 DEF reached
  <2>4. h.streak < Patience
    BY <1>0, <1>6 DEF Told
  <2>5. Progress(h) < Progress(g)
    <3>1. CASE gained
      <4>1. QualifiedCount(h) < QualifiedCount(g) /\ g.streak = 0
        BY <3>1, <1>8, <1>9, <2>2 DEF streak, gained
      <4>2. /\ Patience * QualifiedCount(h) + Patience <= Patience * QualifiedCount(g)
            /\ Patience * QualifiedCount(h) \in Nat /\ Patience * QualifiedCount(g) \in Nat
        BY <4>1, <1>0, <1>8, <1>9, GainIsProgress
      <4> QED
        BY <4>1, <4>2, <2>4, <1>0, <1>6 DEF Progress
    <3>2. CASE ~gained
      <4>1. g.streak = h.streak + 1 /\ QualifiedCount(h) <= QualifiedCount(g)
        BY <3>2, <1>1, <1>8, <2>2 DEF streak, gained
      <4>2. /\ Patience * QualifiedCount(h) <= Patience * QualifiedCount(g)
            /\ Patience * QualifiedCount(h) \in Nat /\ Patience * QualifiedCount(g) \in Nat
        BY <4>1, <1>0, <1>8, <1>9, GainIsProgress
      <4> QED
        BY <4>1, <4>2, <1>0, <1>6 DEF Progress
    <3> QED
      BY <3>1, <3>2
  <2> QED
    BY <2>1, <2>3, <2>5
<1> QED
  BY <1>1, <1>8, <1>10, <1>11, <1>12, <1>13, <1>14 DEF g

\* A failed batch: nothing but its record and, the first time, the fatal error.
LEMMA FailedEffect ==
  ASSUME NEW h, IsHarvest(h), NEW index, NEW kind
  PROVE  LET g == Failed(h, index, kind)
         IN  /\ IsHarvest(g) /\ g.target = h.target /\ g.accepted = h.accepted
             /\ g.rejected = h.rejected /\ g.stop = h.stop /\ g.streak = h.streak
             /\ g.batches = h.batches + 1 /\ g.failed = h.failed \union {index}
             /\ g.fatal = IF kind = "quota" /\ h.fatal = "none" THEN kind ELSE h.fatal
<1> DEFINE g == Failed(h, index, kind)
           fatal == IF kind = "quota" /\ h.fatal = "none" THEN kind ELSE h.fatal
<1>1. g = [target |-> h.target, accepted |-> h.accepted, rejected |-> h.rejected,
           failed |-> h.failed \union {index}, batches |-> h.batches + 1, stop |-> h.stop,
           fatal |-> fatal, streak |-> h.streak]
  <2> DEFINE n == h.batches + 1
             f == h.failed \union {index}
             w == [target |-> h.target, accepted |-> h.accepted, rejected |-> h.rejected,
                   failed |-> h.failed, batches |-> h.batches, stop |-> h.stop,
                   fatal |-> h.fatal, streak |-> h.streak]
  <2>1. g = [h EXCEPT !.batches = n, !.failed = f, !.fatal = fatal]
    BY DEF Failed
  <2>2. h = w
    BY DEF IsHarvest
  <2> HIDE DEF n, f, g, fatal
  <2>3. g = [w EXCEPT !.batches = n, !.failed = f, !.fatal = fatal]
    BY <2>1, <2>2
  <2>4. g = [target |-> h.target, accepted |-> h.accepted, rejected |-> h.rejected,
             failed |-> f, batches |-> n, stop |-> h.stop, fatal |-> fatal,
             streak |-> h.streak]
    BY <2>3
  <2> QED
    BY <2>4 DEF n, f
<1>2. /\ h.target \in Int /\ h.batches \in Nat /\ h.streak \in Nat
      /\ h.accepted \in Seq(Range(h.accepted)) /\ h.rejected \in Seq(Range(h.rejected))
  BY DEF IsHarvest
<1> HIDE DEF g, fatal
<1>3. IsHarvest(g)
  BY <1>1, <1>2 DEF IsHarvest
<1> QED
  BY <1>1, <1>3 DEF g, fatal

\* Progress is a number.
LEMMA ProgressIsNat ==
  ASSUME NEW h, IsHarvest(h)
  PROVE  Progress(h) \in Nat /\ QualifiedCount(h) \in Nat
<1>1. QualifiedCount(h) \in Nat /\ h.streak \in Nat
  BY QualifiedCountIsNat DEF IsHarvest
<1>2. Patience * QualifiedCount(h) \in Nat
  BY <1>1, HarvestAssumption, GainIsProgress
<1> QED
  BY <1>1, <1>2 DEF Progress

\* What the first k answers of a window make of a harvest h.
Consumed(h, g, S, first, window, k, known) ==
  /\ IsHarvest(g) /\ Told(g) /\ g.target = h.target /\ ChildrenOf(g) \subseteq S
  /\ AreApart(h, known) => AreApart(g, known)
  /\ g.failed \subseteq h.failed \union (first + 1 .. first + k)
  /\ g.batches <= h.batches + k
  /\ g.streak < Patience => g.batches = h.batches + k
  /\ g.stop # "low_gain_patience" /\ (\E j \in 1 .. k : window[j].error = "quota")
        => g.fatal # "none"
  /\ g.stop = "none" => h.stop = "none" /\ Progress(h) <= Progress(g)
  /\ g.stop = "none" /\ (\E j \in 1 .. k : window[j].error = "none")
        => /\ Progress(h) < Progress(g)
           /\ QualifiedCount(g) < g.target \/ h.batches + 1 < MinBatches

\* One answer more.
LEMMA ReadEffect ==
  ASSUME NEW h, IsHarvest(h), NEW S, NEW first \in Nat, NEW window, NEW known, NEW k \in Nat,
         NEW p, Consumed(h, p, S, first, window, k, known), window[k + 1].items \in Seq(S)
  PROVE  Consumed(h, Read(p, first + (k + 1), window[k + 1], known), S, first, window, k + 1,
                  known)
<1> DEFINE g == Read(p, first + (k + 1), window[k + 1], known)
<1>1. /\ h.batches \in Nat /\ p.batches \in Nat /\ p.streak \in Nat /\ h.target \in Int
      /\ Patience \in Nat /\ MinBatches \in Nat /\ p.accepted \in Seq(Range(p.accepted))
  BY HarvestAssumption DEF IsHarvest, Consumed
<1>2. /\ Progress(h) \in Nat /\ QualifiedCount(h) \in Nat
      /\ Progress(p) \in Nat /\ QualifiedCount(p) \in Nat
  BY ProgressIsNat DEF Consumed
<1>3. \A j \in 1 .. k + 1 : j = k + 1 \/ j \in 1 .. k
  OBVIOUS
<1>4. (first + 1 .. first + k) \subseteq (first + 1 .. first + (k + 1))
  OBVIOUS
<1>5. first + (k + 1) \in first + 1 .. first + (k + 1)
  OBVIOUS
<1>6. CASE p.stop = "low_gain_patience"
  <2>1. g = p
    BY <1>6 DEF Read
  <2>2. ~(p.streak < Patience)
    BY <1>1, <1>6 DEF Consumed, Told
  <2> HIDE DEF g
  <2> QED
    BY <1>1, <1>4, <1>6, <2>1, <2>2 DEF Consumed, g
<1>7. CASE p.stop # "low_gain_patience" /\ window[k + 1].error # "none"
  <2> DEFINE kind == window[k + 1].error
             index == first + (k + 1)
  <2>1. g = Failed(p, index, kind)
    BY <1>7 DEF Read
  <2> HIDE DEF g
  <2>2. /\ IsHarvest(g) /\ g.target = p.target /\ g.accepted = p.accepted
        /\ g.rejected = p.rejected /\ g.stop = p.stop /\ g.streak = p.streak
        /\ g.batches = p.batches + 1 /\ g.failed = p.failed \union {index}
        /\ g.fatal = IF kind = "quota" /\ p.fatal = "none" THEN kind ELSE p.fatal
    BY <2>1, FailedEffect DEF Consumed
  <2>3. /\ QualifiedCount(g) = QualifiedCount(p) /\ Progress(g) = Progress(p)
        /\ ChildrenOf(g) = ChildrenOf(p) /\ (Told(p) => Told(g))
        /\ AreApart(p, known) => AreApart(g, known)
    BY <2>2 DEF QualifiedCount, Progress, ChildrenOf, RejectedOf, Told, AreApart
  <2>4. g.failed \subseteq h.failed \union (first + 1 .. first + (k + 1))
    BY <2>2, <1>4, <1>5 DEF Consumed
  <2>5. p.streak < Patience
    BY <1>1, <1>7 DEF Consumed, Told
  <2>6. g.batches = h.batches + (k + 1)
    <3>1. p.batches = h.batches + k
      BY <2>5 DEF Consumed
    <3>2. g.batches = p.batches + 1
      BY <2>2
    <3> QED
      BY <3>1, <3>2, <1>1
  <2>7. (\E j \in 1 .. k + 1 : window[j].error = "quota") => g.fatal # "none"
    BY <1>3, <1>7, <2>2 DEF Consumed
  <2>8. (\E j \in 1 .. k + 1 : window[j].error = "none")
           => (\E j \in 1 .. k : window[j].error = "none")
    BY <1>3, <1>7
  <2>9. g.batches <= h.batches + (k + 1)
    BY <2>6, <1>1
  <2> QED
    BY <2>2, <2>3, <2>4, <2>6, <2>7, <2>8, <2>9 DEF Consumed, g
<1>8. CASE p.stop # "low_gain_patience" /\ window[k + 1].error = "none"
  <2> DEFINE items == window[k + 1].items
  <2>1. g = Harvested(p, items, known)
    BY <1>8 DEF Read
  <2> HIDE DEF g, items
  <2>2. items \in Seq(S)
    BY DEF items
  <2>3. /\ IsHarvest(g) /\ Told(g) /\ g.target = p.target /\ ChildrenOf(g) \subseteq S
        /\ AreApart(p, known) => AreApart(g, known)
        /\ g.batches = p.batches + 1 /\ g.failed = p.failed /\ g.fatal = p.fatal
        /\ g.stop = "none" =>
              /\ p.stop = "none" /\ Progress(p) < Progress(g)
              /\ QualifiedCount(g) < g.target \/ g.batches < MinBatches
    BY <1>8, <2>1, <2>2, HarvestedEffect DEF Consumed
  <2>4. g.failed \subseteq h.failed \union (first + 1 .. first + (k + 1))
    BY <2>3, <1>4 DEF Consumed
  <2>5. p.streak < Patience
    BY <1>1, <1>8 DEF Consumed, Told
  <2>6. g.batches = h.batches + (k + 1)
    <3>1. p.batches = h.batches + k
      BY <2>5 DEF Consumed
    <3>2. g.batches = p.batches + 1
      BY <2>3
    <3> QED
      BY <3>1, <3>2, <1>1
  <2>7. (\E j \in 1 .. k + 1 : window[j].error = "quota") => g.fatal # "none"
    BY <1>3, <1>8, <2>3 DEF Consumed
  <2>8. Progress(g) \in Nat
    BY <2>3, ProgressIsNat
  <2>9. ASSUME g.stop = "none"
        PROVE  /\ h.stop = "none" /\ Progress(h) <= Progress(g)
               /\ Progress(h) < Progress(g)
               /\ QualifiedCount(g) < g.target \/ h.batches + 1 < MinBatches
    <3>1. Progress(h) < Progress(g)
      BY <2>3, <2>8, <2>9, <1>2 DEF Consumed
    <3>2. QualifiedCount(g) < g.target \/ h.batches + 1 < MinBatches
      BY <2>3, <2>6, <2>9, <1>1
    <3>3. h.stop = "none"
      BY <2>3, <2>9 DEF Consumed
    <3> QED
      BY <3>1, <3>2, <3>3, <1>2, <2>8
  <2>10. g.batches <= h.batches + (k + 1)
    BY <2>6, <1>1
  <2> QED
    BY <2>3, <2>4, <2>6, <2>7, <2>9, <2>10 DEF Consumed, g
<1> QED
  BY <1>6, <1>7, <1>8

\* The answers of a window.
LEMMA ConsumeEffect ==
  ASSUME NEW h, IsHarvest(h), Told(h), NEW S, ChildrenOf(h) \subseteq S, NEW first \in Nat,
         NEW window, Len(window) \in Nat, DOMAIN window = 1 .. Len(window),
         \A j \in DOMAIN window : window[j].items \in Seq(S), NEW known
  PROVE  Consumed(h, Consume(h, first, window, known), S, first, window, Len(window), known)
<1> DEFINE n == Len(window)
<1>1. n \in Nat /\ DOMAIN window = 1 .. n
  OBVIOUS
<1>2. PICK f : Reading(f, h, first, window, known) /\ Consume(h, first, window, known) = f[Len(window)]
  BY <1>1, ConsumeUnfolds
<1>3. f[0] = h /\ Consume(h, first, window, known) = f[n]
  BY <1>2 DEF Reading
<1>4. \A k \in Nat : k + 1 <= n
         => f[k + 1] = Read(f[k], first + (k + 1), window[k + 1], known)
  BY <1>2 DEF Reading
<1> HIDE DEF n
<1> DEFINE P(k) == Consumed(h, f[k], S, first, window, k, known)
           N == {k \in Nat : k <= n => P(k)}
<1>5. 0 \in N
  <2>1. h.batches \in Nat /\ Progress(h) \in Nat
    BY ProgressIsNat DEF IsHarvest
  <2>2. 1 .. 0 = {}
    OBVIOUS
  <2>3. Consumed(h, h, S, first, window, 0, known)
    BY <2>1, <2>2 DEF Consumed
  <2> QED
    BY <2>3, <1>3
<1>6. ASSUME NEW k \in Nat, k \in N PROVE k + 1 \in N
  <2> SUFFICES ASSUME k + 1 <= n PROVE P(k + 1)
    BY <1>6
  <2>1. k <= n /\ k + 1 \in DOMAIN window
    BY <1>1
  <2>2. P(k)
    BY <2>1, <1>6
  <2> QED
    BY <2>1, <2>2, <1>4, ReadEffect
<1>7. P(n)
  <2> HIDE DEF P
  <2>1. \A k \in Nat : k \in N
    BY <1>5, <1>6, Induction
  <2> QED
    BY <2>1, <1>1
<1> QED
  BY <1>3, <1>7 DEF n

\* A window: its harvest is stopped by an error, or is what its answers make of it and one
\* of them was no failure.
LEMMA WindowClosedEffect ==
  ASSUME NEW h, NEW first, NEW window, NEW known,
         IsHarvest(Consume(h, first, window, known))
  PROVE  LET g == Consume(h, first, window, known)
             w == WindowClosed(h, first, window, known)
         IN  /\ IsHarvest(w) /\ w.target = g.target /\ w.accepted = g.accepted
             /\ w.rejected = g.rejected /\ w.failed = g.failed /\ w.batches = g.batches
             /\ w.streak = g.streak
             /\ g.fatal # "none" => w.stop = "model_error"
             /\ g.stop # "none" => w.stop # "none"
             /\ w.stop = "none" =>
                   g.stop = "none" /\ \E j \in DOMAIN window : window[j].error = "none"
<1> DEFINE g == Consume(h, first, window, known)
           answered == \E j \in DOMAIN window : window[j].error = "none"
           w == WindowClosed(h, first, window, known)
<1>1. w = IF g.fatal # "none" THEN [g EXCEPT !.stop = "model_error"]
          ELSE IF answered \/ g.stop # "none" THEN g
          ELSE [g EXCEPT !.stop = "model_error", !.fatal = window[1].error]
  BY DEF WindowClosed
<1> HIDE DEF g, w, answered
<1>2. g = [target |-> g.target, accepted |-> g.accepted, rejected |-> g.rejected,
           failed |-> g.failed, batches |-> g.batches, stop |-> g.stop, fatal |-> g.fatal,
           streak |-> g.streak]
  BY DEF IsHarvest, g
<1>3. /\ g.target \in Int /\ g.batches \in Nat /\ g.streak \in Nat
      /\ g.accepted \in Seq(Range(g.accepted)) /\ g.rejected \in Seq(Range(g.rejected))
  BY DEF IsHarvest, g
<1>4. CASE g.fatal # "none"
  <2>1. w = [target |-> g.target, accepted |-> g.accepted, rejected |-> g.rejected,
             failed |-> g.failed, batches |-> g.batches, stop |-> "model_error",
             fatal |-> g.fatal, streak |-> g.streak]
    BY <1>1, <1>2, <1>4
  <2>2. IsHarvest(w)
    BY <2>1, <1>3 DEF IsHarvest
  <2> QED
    BY <2>1, <2>2, <1>4 DEF g, w
<1>5. CASE g.fatal = "none" /\ (answered \/ g.stop # "none")
  <2>1. w = g
    BY <1>1, <1>5
  <2> QED
    BY <2>1, <1>5 DEF g, w, answered
<1>6. CASE g.fatal = "none" /\ ~answered /\ g.stop = "none"
  <2> DEFINE fatal == window[1].error
  <2> HIDE DEF fatal
  <2>1. w = [target |-> g.target, accepted |-> g.accepted, rejected |-> g.rejected,
             failed |-> g.failed, batches |-> g.batches, stop |-> "model_error",
             fatal |-> fatal, streak |-> g.streak]
    BY <1>1, <1>2, <1>6 DEF fatal
  <2>2. IsHarvest(w)
    BY <2>1, <1>3 DEF IsHarvest
  <2> QED
    BY <2>1, <2>2, <1>6 DEF g, w, fatal
<1> QED
  BY <1>4, <1>5, <1>6

-----------------------------------------------------------------------------
(* The seeding.                                                            *)

\* The smaller of two numbers.
LEMMA MinOfTwo ==
  ASSUME NEW a \in Int, NEW b \in Int
  PROVE  Min({a, b}) \in {a, b} /\ Min({a, b}) <= a /\ Min({a, b}) <= b
<1>1. \E x \in {a, b} : \A y \in {a, b} : x <= y
  <2>1. CASE a <= b
    BY <2>1
  <2>2. CASE b <= a
    BY <2>2
  <2> QED
    BY <2>1, <2>2
<1> QED
  BY <1>1 DEF Min

\* The larger of two numbers.
LEMMA MaxOfTwo ==
  ASSUME NEW a \in Int, NEW b \in Int
  PROVE  Max({a, b}) \in {a, b} /\ Max({a, b}) >= a /\ Max({a, b}) >= b
<1>1. \E x \in {a, b} : \A y \in {a, b} : x >= y
  <2>1. CASE a >= b
    BY <2>1
  <2>2. CASE b >= a
    BY <2>2
  <2> QED
    BY <2>1, <2>2
<1> QED
  BY <1>1 DEF Max

\* A target that is not positive asks for nothing.
LEMMA BoundIsNat == \A t \in Int : Max({t, 0}) \in Nat
<1> SUFFICES ASSUME NEW t \in Int PROVE Max({t, 0}) \in Nat
  OBVIOUS
<1> DEFINE m == Max({t, 0})
<1>1. m \in {t, 0} /\ m >= t /\ m >= 0
  BY MaxOfTwo
<1> HIDE DEF m
<1>2. m \in Nat
  BY <1>1
<1> QED
  BY <1>2 DEF m

\* The constants that are numbers.
LEMMA Numbers ==
  /\ Workers \in Nat /\ Workers # 0 /\ MinBatches \in Nat /\ MinBatches # 0
  /\ Patience \in Nat /\ Patience # 0 /\ MaxBatches \in Nat /\ MaxRound \in Nat
  /\ Branch \in Nat /\ Branch # 0 /\ SeedTarget \in Nat /\ SeedTarget # 0
BY HarvestAssumption, BreedingAssumption

\* A window of a harvest that goes on fits in the bound: of W workers, with the patience P and
\* the least number of batches M, when d requests were closed, q candidates counted towards
\* the target t, and the streak is s.
LEMMA WindowFits ==
  ASSUME NEW W \in Nat, W # 0, NEW P \in Nat, NEW M \in Nat, M # 0, NEW t \in Int,
         NEW q \in Nat, NEW s \in Nat, s < P, NEW d \in Nat, NEW n \in Nat, n <= W,
         d <= W * (P * q + s), d = 0 \/ q < t \/ (M >= 2 /\ d <= M - 2 + W)
  PROVE  d + n <= W * (M + P * Max({t, 0}))
<1> DEFINE m == Max({t, 0})
<1>1. m \in Nat /\ m >= t
  BY MaxOfTwo
<1> HIDE DEF m
<1>2. P * m \in Nat /\ W * (P * m) \in Nat /\ W * M \in Nat
  BY <1>1, GainIsProgress
<1>3. W * (M + P * m) = W * M + W * (P * m)
  BY <1>2
<1>4. W <= W * M
  <2>1. W * 1 <= W * M
    BY GainIsProgress
  <2> QED
    BY <2>1
<1> DEFINE A == W * M
           B == W * (P * m)
           C == W * (M + P * m)
<1>a. A \in Nat /\ B \in Nat /\ C = A + B /\ W <= A
  BY <1>2, <1>3, <1>4
<1> SUFFICES d + n <= C
  BY DEF m
<1>b. (d + n <= A => d + n <= C) /\ (d + n <= B => d + n <= C)
  <2> HIDE DEF A, B, C
  <2> QED
    BY <1>a
<1> HIDE DEF C
<1>5. CASE d = 0
  <2> HIDE DEF A
  <2> QED
    BY <1>a, <1>b, <1>5
<1>6. CASE q < t
  <2>1. P * q + P <= P * m /\ P * q \in Nat
    BY <1>1, <1>6, GainIsProgress
  <2> DEFINE a == P * q + s
  <2>2. a \in Nat /\ a < P * m
    BY <2>1, <1>2
  <2> HIDE DEF a
  <2>3. W * a + W <= W * (P * m) /\ W * a \in Nat
    BY <2>2, <1>2, GainIsProgress
  <2>4. d <= W * a
    BY DEF a
  <2>5. d + n <= W * (P * m)
    BY <2>3, <2>4, <1>2
  <2> QED
    BY <2>5, <1>b
<1>7. CASE M >= 2 /\ d <= M - 2 + W
  <2>1. W - 1 \in Nat /\ M - 2 \in Nat
    BY <1>7
  <2>2. (W - 1) * (M - 2) \in Nat
    BY <2>1, GainIsProgress
  <2>3. (W - 1) * (M - 2) = W * M - 2 * W - M + 2
    OBVIOUS
  <2>4. d + n <= W * M
    BY <2>2, <2>3, <1>2, <1>7
  <2> QED
    BY <2>4, <1>b
<1> QED
  BY <1>5, <1>6, <1>7

\* A harvest that has not begun is one without a candidate.
LEMMA NewHarvestIs ==
  ASSUME NEW t \in Int
  PROVE  LET h == NewHarvest(t)
         IN  /\ IsHarvest(h) /\ h.target = t /\ h.accepted = <<>> /\ h.rejected = <<>>
             /\ h.batches = 0 /\ h.failed = {} /\ h.streak = 0 /\ h.stop = "none"
             /\ h.fatal = "none"
             /\ Range(h.accepted) = {} /\ RejectedOf(h) = {} /\ ChildrenOf(h) = {}
             /\ \A known : AreApart(h, known)
<1> DEFINE h == NewHarvest(t)
<1>1. h = [target |-> t, accepted |-> <<>>, rejected |-> <<>>, failed |-> {}, batches |-> 0,
           stop |-> "none", fatal |-> "none", streak |-> 0]
  BY DEF NewHarvest
<1>2. <<>> \in Seq(Range(<<>>)) /\ DOMAIN <<>> = {} /\ Range(<<>>) = {}
  BY DEF Range
<1> HIDE DEF h
<1>3. IsHarvest(h)
  BY <1>1, <1>2 DEF IsHarvest
<1>4. Range(h.accepted) = {} /\ RejectedOf(h) = {} /\ ChildrenOf(h) = {}
  BY <1>1, <1>2 DEF RejectedOf, ChildrenOf
<1>5. \A known : AreApart(h, known)
  BY <1>1, <1>2, <1>4 DEF AreApart
<1>6. /\ h.target = t /\ h.accepted = <<>> /\ h.rejected = <<>> /\ h.batches = 0
      /\ h.failed = {} /\ h.streak = 0 /\ h.stop = "none" /\ h.fatal = "none"
  BY <1>1
<1> QED
  BY <1>3, <1>4, <1>5, <1>6 DEF h

\* What the invariant says of the seeding, and of the rounds.
Seeding == SeedsTyped /\ AreApart(harvest, enrolled) /\ WindowsProgress /\ SeedingWearsOut
Rounds == /\ CandidatesTyped /\ CandidatesDiffer /\ RoundsHaveSeeds
          /\ SlotsArePlanned /\ ChildrenAreBound /\ RefusalsAreBound
          /\ HandIsAccounted /\ AnswersAccounted
          /\ phase \in {"measured"} \union Asking => Len(history) < MaxRound
Phases == {"seeding", "bred", "measured", "slots", "batch", "offspring", "paused", "stopped",
           "failed"}

\* The invariant is these two, and what the shapes leave.
LEMMA InvariantOfParts ==
  phase \in Phases /\ Len(history) <= MaxRound /\ Seeding /\ Rounds => IInv
<1> SUFFICES ASSUME phase \in Phases, Len(history) <= MaxRound, Seeding, Rounds
             PROVE  IInv
  OBVIOUS
<1>1. Len(replies) \in Nat /\ issued \in Nat /\ harvest.batches \in Nat
  BY DEF Seeding, SeedsTyped, IsHarvest
<1>2. harvest.batches <= issued /\ harvest.failed \subseteq 1 .. issued
  BY <1>1 DEF Seeding, WindowsProgress, Closed, SeedsTyped
<1>3. {c.text : c \in live \union stored} \subseteq Texts
  BY DEF Rounds, CandidatesTyped, IsCandidate
<1>4. TypeOK
  BY <1>2, <1>3 DEF TypeOK, Phases
<1> QED
  BY <1>4 DEF IInv, Seeding, Rounds

\* A seeding that has not begun, or is over, keeps its part of the invariant.
LEMMA FreshSeeding ==
  ASSUME NEW t \in Int, issued' = 0, replies' = <<>>, harvest' = NewHarvest(t),
         IF phase' = "seeding" THEN enrolled' \in Registered(live') ELSE enrolled' = {}
  PROVE  Seeding'
<1>1. /\ IsHarvest(harvest') /\ harvest'.target = t
      /\ harvest'.batches = 0 /\ harvest'.failed = {} /\ harvest'.streak = 0
      /\ ChildrenOf(harvest') = {} /\ AreApart(harvest', enrolled')
  BY NewHarvestIs
<1>2. replies' \in Seq(Replies) /\ Len(replies') = 0
  OBVIOUS
<1>3. SeedsTyped'
  BY <1>1, <1>2 DEF SeedsTyped
<1>4. Closed' = 0
  <2>1. \A a, b \in Int : a = 0 /\ b = 0 => a - b = 0
    OBVIOUS
  <2>2. issued' - Len(replies') = 0
    <3>1. issued' \in Int /\ Len(replies') \in Int
      BY <1>2
    <3> QED
      BY <1>2, <2>1, <3>1, Zenon
  <2> QED
    BY <2>2 DEF Closed
<1>5. Progress(harvest') \in Nat
  BY <1>1, ProgressIsNat
<1>6. Workers * Progress(harvest') \in Nat
  BY <1>5, Numbers, GainIsProgress
<1>7. WindowsProgress'
  BY <1>1, <1>4, <1>6, Numbers DEF WindowsProgress
<1>8. SeedingWearsOut'
  <2> DEFINE m == Max({t, 0})
  <2>1. m \in Nat
    BY BoundIsNat, Zenon
  <2> HIDE DEF m
  <2>2. Patience * m \in Nat
    BY <2>1, Numbers, GainIsProgress
  <2>3. MinBatches + Patience * m \in Nat
    BY <2>2, Numbers
  <2>4. Workers * (MinBatches + Patience * m) \in Nat
    BY <2>3, Numbers, GainIsProgress
  <2> QED
    BY <1>1, <2>4 DEF SeedingWearsOut, m
<1> QED
  BY <1>1, <1>3, <1>7, <1>8 DEF Seeding

\* The rounds go on with the seeding at rest.
LEMMA SeedingRests ==
  ASSUME Seeding, phase \notin {"seeding", "failed"}, phase' # "seeding",
         UNCHANGED <<seeding, replies>>
  PROVE  Seeding'
<1>1. issued' = 0 /\ replies' = <<>> /\ harvest' = NewHarvest(harvest.target) /\ enrolled' = {}
  BY DEF Seeding, SeedsTyped, seeding
<1>2. harvest.target \in Int
  BY DEF Seeding, SeedsTyped, IsHarvest
<1> QED
  BY <1>1, <1>2, FreshSeeding

\* The seeding leaves the rounds alone.
LEMMA RoundsRest ==
  ASSUME Rounds, UNCHANGED <<phase, live, stored, slots, hand, history>>
  PROVE  Rounds'
<1>1. CandidatesTyped'
  BY DEF Rounds, CandidatesTyped
<1>2. CandidatesDiffer' /\ RoundsHaveSeeds'
  BY DEF Rounds, CandidatesDiffer, RoundsHaveSeeds
<1>3. SlotsArePlanned'
  BY DEF Rounds, SlotsArePlanned, Round
<1>4. SlotsOf(history)' = SlotsOf(history) /\ RefusedIn(history)' = RefusedIn(history)
  BY DEF SlotsOf, RefusedIn
<1>5. ChildrenAreBound'
  BY <1>4 DEF Rounds, ChildrenAreBound
<1>6. RefusalsAreBound'
  BY <1>4 DEF Rounds, RefusalsAreBound
<1>7. HandIsAccounted' /\ AnswersAccounted'
  BY DEF Rounds, HandIsAccounted, AnswersAccounted
<1> QED
  BY <1>1, <1>2, <1>3, <1>5, <1>6, <1>7 DEF Rounds

\* The invariant has these two parts.
LEMMA PartsOfInvariant == IInv => Seeding /\ Rounds /\ phase \in Phases /\ Len(history) <= MaxRound
BY DEF IInv, Seeding, Rounds, TypeOK, Phases

\* A step of the seeding that changes its own part only.
LEMMA SeedingSteps ==
  ASSUME IInv, Seeding', UNCHANGED <<phase, live, stored, slots, hand, history>>
  PROVE  IInv'
<1>1. Seeding /\ Rounds /\ phase \in Phases /\ Len(history) <= MaxRound
  BY PartsOfInvariant
<1>2. Rounds'
  BY <1>1, RoundsRest
<1>3. phase' \in Phases /\ Len(history') <= MaxRound
  BY <1>1
<1>4. (phase \in Phases /\ Len(history) <= MaxRound /\ Seeding /\ Rounds => IInv)'
  BY InvariantOfParts, PTL
<1> QED
  BY <1>2, <1>3, <1>4

\* A window that is opened adds its requests to those that were issued: each waits.
LEMMA OpenWindowKeeps ==
  ASSUME IInv, OpenWindow
  PROVE  IInv'
<1> DEFINE n == IF MaxBatches = 0 THEN Workers ELSE Min({Workers, MaxBatches - issued})
<1>1. /\ SeedsTyped /\ AreApart(harvest, enrolled) /\ WindowsProgress /\ phase = "seeding"
      /\ harvest.stop = "none" /\ (MaxBatches = 0 \/ issued < MaxBatches)
      /\ replies = <<>> /\ replies' = [k \in 1 .. n |-> Waiting] /\ issued' = issued + n
      /\ UNCHANGED <<phase, enrolled, harvest, live, stored, slots, refusal, hand, history>>
  BY DEF IInv, OpenWindow, Open
<1>2. issued \in Nat /\ IsHarvest(harvest) /\ ChildrenOf(harvest) \subseteq Seeds
  BY <1>1 DEF SeedsTyped
<1>3. n \in Nat /\ n <= Workers
  <2>1. CASE MaxBatches = 0
    BY <2>1, Numbers
  <2>2. CASE MaxBatches # 0
    <3> DEFINE r == MaxBatches - issued
    <3>1. r \in Nat /\ Workers \in Nat
      BY <2>2, <1>1, <1>2, Numbers
    <3> HIDE DEF r
    <3>2. Min({Workers, r}) \in {Workers, r} /\ Min({Workers, r}) <= Workers
      BY <3>1, MinOfTwo
    <3>3. n = Min({Workers, r})
      BY <2>2 DEF r
    <3> QED
      BY <3>1, <3>2, <3>3
  <2> QED
    BY <2>1, <2>2
<1> HIDE DEF n
<1>4. Waiting \in Replies
  BY DEF Waiting, Replies
<1>5. replies' \in Seq(Replies) /\ Len(replies') = n
  BY <1>1, <1>3, <1>4
<1>6. Closed = issued
  <2>1. Len(replies) = 0
    BY <1>1
  <2> QED
    BY <2>1, <1>2 DEF Closed
<1>7. issued' - Len(replies') = issued
  BY <1>1, <1>2, <1>3, <1>5
<1>8. SeedsTyped'
  BY <1>1, <1>2, <1>3, <1>5 DEF SeedsTyped
<1>9. WindowsProgress'
  <2>1. Closed' = Closed
    BY <1>6, <1>7 DEF Closed
  <2> QED
    BY <2>1, <1>1, <1>3, <1>5 DEF WindowsProgress
<1>10. SeedingWearsOut'
  <2> DEFINE q == QualifiedCount(harvest)
             s == harvest.streak
             t == harvest.target
  <2>1. q \in Nat /\ s \in Nat /\ t \in Int
    BY <1>2, ProgressIsNat DEF IsHarvest
  <2>2. /\ s < Patience /\ issued <= Workers * (Patience * q + s)
        /\ issued = 0 \/ q < t \/ (MinBatches >= 2 /\ issued <= MinBatches - 2 + Workers)
    BY <1>1, <1>6 DEF WindowsProgress, Progress
  <2> HIDE DEF q, s, t
  <2>3. issued + n <= Workers * (MinBatches + Patience * Max({t, 0}))
    BY <2>1, <2>2, <1>2, <1>3, Numbers, WindowFits
  <2> QED
    BY <2>3, <1>1 DEF SeedingWearsOut, t
<1>11. Seeding'
  BY <1>1, <1>8, <1>9, <1>10 DEF Seeding
<1> QED
  BY <1>1, <1>11, SeedingSteps

\* An answer is one of the replies the harvest can read.
LEMMA AnswerSeedKeeps ==
  ASSUME IInv, NEW k \in DOMAIN replies, AnswerSeed(k)
  PROVE  IInv'
<1>1. /\ SeedsTyped /\ AreApart(harvest, enrolled) /\ WindowsProgress /\ SeedingWearsOut
      /\ phase = "seeding"
      /\ UNCHANGED <<phase, enrolled, issued, harvest, live, stored, slots, refusal, hand, history>>
  BY DEF IInv, AnswerSeed, seeding
<1>2. PICK a \in {Answer([i \in DOMAIN s |-> Seed(s[i])]) : s \in SeedAnswers}
                  \union {Failure("fault"), Failure("quota")} :
         replies' = [replies EXCEPT ![k] = a]
  BY DEF AnswerSeed
<1>3. a \in Replies
  <2>1. CASE a \in {Failure("fault"), Failure("quota")}
    <3>1. <<>> \in Seq(Seeds)
      OBVIOUS
    <3>2. a = [items |-> <<>>, error |-> "fault"] \/ a = [items |-> <<>>, error |-> "quota"]
      BY <2>1 DEF Failure
    <3>3. \A x \in Seq(Seeds) : /\ [items |-> x, error |-> "fault"] \in Replies
                                /\ [items |-> x, error |-> "quota"] \in Replies
      BY DEF Replies
    <3> QED
      BY <3>1, <3>2, <3>3, Zenon
  <2>2. CASE a \in {Answer([i \in DOMAIN s |-> Seed(s[i])]) : s \in SeedAnswers}
    <3>1. PICK s \in SeedAnswers : a = Answer([i \in DOMAIN s |-> Seed(s[i])])
      BY <2>2
    <3>2. s \in Seq(Texts)
      BY BreedingAssumption
    <3> DEFINE items == [i \in DOMAIN s |-> Seed(s[i])]
    <3>3. items \in Seq(Seeds)
      <4>1. \A i \in DOMAIN s : Seed(s[i]) \in Seeds
        BY <3>2 DEF Seeds
      <4>2. DOMAIN s = 1 .. Len(s) /\ Len(s) \in Nat
        BY <3>2
      <4> HIDE DEF Seeds
      <4> QED
        BY <4>1, <4>2
    <3> HIDE DEF items
    <3>4. a = [items |-> items, error |-> "none"]
      BY <3>1 DEF Answer, items
    <3> QED
      BY <3>3, <3>4 DEF Replies
  <2> QED
    BY <2>1, <2>2
<1>4. replies \in Seq(Replies)
  BY <1>1 DEF SeedsTyped
<1>5. k \in 1 .. Len(replies)
  BY <1>4
<1>6. replies' \in Seq(Replies) /\ Len(replies') = Len(replies)
  BY <1>2, <1>3, <1>4, <1>5, ExceptSeq
<1>7. replies # <<>>
  BY <1>4, <1>5
<1>8. SeedsTyped'
  BY <1>1, <1>6 DEF SeedsTyped
<1>9. WindowsProgress'
  <2>1. Closed' = Closed
    BY <1>1, <1>6 DEF Closed
  <2> QED
    BY <2>1, <1>1, <1>6, <1>7 DEF WindowsProgress
<1>10. Seeding'
  BY <1>1, <1>8, <1>9 DEF Seeding, SeedingWearsOut
<1> QED
  BY <1>1, <1>10, SeedingSteps

\* A window that is consumed either stops the harvest or makes it progress.
LEMMA CloseWindowKeeps ==
  ASSUME IInv, CloseWindow
  PROVE  IInv'
<1> DEFINE n == Len(replies)
           g == Consume(harvest, Closed, replies, enrolled)
           w == WindowClosed(harvest, Closed, replies, enrolled)
<1>1. /\ SeedsTyped /\ AreApart(harvest, enrolled) /\ WindowsProgress /\ SeedingWearsOut
      /\ phase = "seeding" /\ replies # <<>> /\ replies' = <<>> /\ harvest' = w
      /\ UNCHANGED <<phase, enrolled, issued, live, stored, slots, refusal, hand, history>>
  BY DEF IInv, CloseWindow, Closed
<1>2. /\ issued \in Nat /\ IsHarvest(harvest) /\ ChildrenOf(harvest) \subseteq Seeds
      /\ replies \in Seq(Replies) /\ n <= issued
  BY <1>1 DEF SeedsTyped
<1>3. /\ n \in Nat /\ DOMAIN replies = 1 .. n /\ Closed \in Nat /\ Closed + n = issued
      /\ \A j \in DOMAIN replies : replies[j].items \in Seq(Seeds)
  <2>1. n \in Nat /\ DOMAIN replies = 1 .. n
    BY <1>2
  <2>2. Closed \in Nat /\ Closed + n = issued
    BY <2>1, <1>2 DEF Closed
  <2>3. \A j \in DOMAIN replies : replies[j] \in Replies
    BY <1>2
  <2>4. \A j \in DOMAIN replies : replies[j].items \in Seq(Seeds)
    BY <2>3 DEF Replies
  <2> QED
    BY <2>1, <2>2, <2>4
<1>4. /\ harvest.stop = "none" /\ n <= Workers
      /\ harvest.streak < Patience /\ harvest.batches = Closed
      /\ harvest.failed \subseteq 1 .. Closed
      /\ Closed <= Workers * Progress(harvest)
  BY <1>1 DEF WindowsProgress
<1>5. harvest.streak \in Nat /\ harvest.batches \in Nat /\ Patience \in Nat
  BY <1>2, Numbers DEF IsHarvest
<1>6. Told(harvest)
  BY <1>4, <1>5 DEF Told
<1>7. Consumed(harvest, g, Seeds, Closed, replies, n, enrolled)
  BY <1>2, <1>3, <1>6, ConsumeEffect
<1> HIDE DEF n, g, w
<1>8. IsHarvest(g)
  BY <1>7 DEF Consumed
<1>9. /\ IsHarvest(w) /\ w.target = g.target /\ w.accepted = g.accepted
      /\ w.rejected = g.rejected /\ w.failed = g.failed /\ w.batches = g.batches
      /\ w.streak = g.streak
      /\ w.stop = "none" =>
            g.stop = "none" /\ \E j \in DOMAIN replies : replies[j].error = "none"
  BY <1>8, WindowClosedEffect DEF g, w
<1>10. /\ QualifiedCount(w) = QualifiedCount(g) /\ Progress(w) = Progress(g)
       /\ ChildrenOf(w) = ChildrenOf(g) /\ (AreApart(g, enrolled) => AreApart(w, enrolled))
  BY <1>9 DEF QualifiedCount, Progress, ChildrenOf, RejectedOf, AreApart
<1>11. Len(replies') = 0 /\ replies' \in Seq(Replies)
  BY <1>1
<1>12. SeedsTyped'
  <2>1. ChildrenOf(w) \subseteq Seeds
    BY <1>7, <1>10 DEF Consumed
  <2> QED
    BY <1>1, <1>2, <1>9, <1>11, <2>1 DEF SeedsTyped
<1>13. AreApart(harvest', enrolled')
  BY <1>1, <1>7, <1>10 DEF Consumed
<1>14. issued' - Len(replies') = issued
  BY <1>1, <1>2, <1>11
<1>15. Closed' = Closed + n
  BY <1>3, <1>14 DEF Closed
<1>16. w.batches <= Closed + n
  BY <1>4, <1>7, <1>9 DEF Consumed
<1>17. w.failed \subseteq 1 .. Closed + n
  <2>1. (1 .. Closed) \union (Closed + 1 .. Closed + n) \subseteq 1 .. Closed + n
    BY <1>3
  <2>2. w.failed \subseteq harvest.failed \union (Closed + 1 .. Closed + n)
    BY <1>7, <1>9 DEF Consumed
  <2> QED
    BY <2>1, <2>2, <1>4
<1>18. w.streak < Patience => w.batches = Closed + n
  BY <1>4, <1>7, <1>9 DEF Consumed
<1>19. ASSUME w.stop = "none"
       PROVE  /\ w.streak < Patience
              /\ Closed + n <= Workers * Progress(w)
              /\ \/ QualifiedCount(w) < w.target
                 \/ MinBatches >= 2 /\ Closed + n <= MinBatches - 2 + Workers
  <2>1. g.stop = "none" /\ \E j \in 1 .. n : replies[j].error = "none"
    BY <1>3, <1>9, <1>19
  <2>2. /\ Progress(harvest) < Progress(g)
        /\ QualifiedCount(g) < g.target \/ harvest.batches + 1 < MinBatches
    BY <2>1, <1>7 DEF Consumed
  <2>3. w.streak < Patience
    <3>1. g.streak \in Nat
      BY <1>8 DEF IsHarvest
    <3> QED
      BY <2>1, <3>1, <1>5, <1>7, <1>9 DEF Consumed, Told
  <2>4. Closed + n <= Workers * Progress(w)
    <3> DEFINE a == Progress(harvest)
               b == Progress(w)
    <3>1. a \in Nat /\ b \in Nat /\ a < b
      BY <2>2, <1>2, <1>9, <1>10, ProgressIsNat
    <3>2. Closed <= Workers * a
      BY <1>4
    <3> HIDE DEF a, b
    <3>3. Workers * a + Workers <= Workers * b /\ Workers * a \in Nat /\ Workers * b \in Nat
      BY <3>1, Numbers, GainIsProgress
    <3> DEFINE A == Workers * a
               B == Workers * b
    <3> HIDE DEF A, B
    <3>4. A + Workers <= B /\ A \in Nat /\ B \in Nat /\ Closed <= A
      BY <3>2, <3>3 DEF A, B
    <3>5. Closed + n <= B
      BY <3>4, <1>3, <1>4, Numbers
    <3> QED
      BY <3>5 DEF B, b
  <2>5. QualifiedCount(g) < g.target => QualifiedCount(w) < w.target
    BY <1>9, <1>10
  <2>6. harvest.batches + 1 < MinBatches
           => MinBatches >= 2 /\ Closed + n <= MinBatches - 2 + Workers
    BY <1>3, <1>4, Numbers
  <2> QED
    BY <2>2, <2>3, <2>4, <2>5, <2>6
<1>20. WindowsProgress'
  BY <1>1, <1>15, <1>16, <1>17, <1>18, <1>19 DEF WindowsProgress
<1>21. SeedingWearsOut'
  <2>1. w.target = harvest.target
    BY <1>7, <1>9 DEF Consumed
  <2> QED
    BY <2>1, <1>1 DEF SeedingWearsOut
<1>22. Seeding'
  BY <1>12, <1>13, <1>20, <1>21 DEF Seeding
<1> QED
  BY <1>1, <1>22, SeedingSteps

\* The texts are numbers from one.
LEMMA TextsAreNumbers == Cardinality(Texts) \in Nat /\ Texts = 1 .. Cardinality(Texts)
BY HarvestAssumption, FS_CardinalityType

\* The image of a finite set is finite, and not larger.
LEMMA ImageIsFinite ==
  ASSUME NEW S, IsFiniteSet(S), NEW f, f = [x \in S |-> f[x]]
  PROVE  IsFiniteSet(Range(f)) /\ Cardinality(Range(f)) <= Cardinality(S)
<1>1. DOMAIN f = S
  OBVIOUS
<1>2. f \in [S -> Range(f)]
  BY <1>1 DEF Range
<1>3. f \in Surjection(S, Range(f))
  BY <1>1, <1>2 DEF Surjection, Range
<1> QED
  BY <1>3, FS_Surjection

\* The range of a sequence is finite.
LEMMA RangeIsFinite ==
  ASSUME NEW s, s \in Seq(Range(s))
  PROVE  IsFiniteSet(Range(s))
<1>1. Len(s) \in Nat /\ DOMAIN s = 1 .. Len(s)
  OBVIOUS
<1>2. IsFiniteSet(DOMAIN s)
  BY <1>1, FS_Interval
<1> DEFINE D == DOMAIN s
<1>3. s = [i \in D |-> s[i]]
  OBVIOUS
<1> HIDE DEF D
<1> QED
  BY <1>2, <1>3, ImageIsFinite DEF D

\* A seed is a candidate without a slot.
LEMMA SeedsAreCandidates ==
  \A c \in Seeds : IsCandidate(c) /\ c.slot = 0 /\ c.parent = 0 /\ \E t \in Texts : c = Seed(t)
<1> SUFFICES ASSUME NEW t \in Texts
             PROVE  IsCandidate(Seed(t)) /\ Seed(t).slot = 0 /\ Seed(t).parent = 0
  BY DEF Seeds
<1>1. Seed(t) = [text |-> t, root |-> t, slot |-> 0, parent |-> 0, outcome |-> "baseline"]
  BY DEF Seed, Child
<1>2. t \in Nat \ {0}
  BY TextsAreNumbers
<1> HIDE DEF Seed
<1> QED
  BY <1>1, <1>2 DEF IsCandidate

\* Whoever differs from what a deduper registered differs from all the candidates of a kind in
\* which these differ: what the deduper refused of them is like somebody it registered.
LEMMA JoinersDiffer ==
  ASSUME NEW S, \A c \in S : c.text \in Texts, NEW registered \in Registered(S), NEW A,
         \A c, d \in A : c # d => ~Alike(c, d), \A c \in A, d \in registered : ~Alike(c, d),
         NEW K \in Kinds, Differ({c \in S : c.text \in K})
  PROVE  Differ({c \in S \union A : c.text \in K})
<1> SUFFICES ASSUME NEW c \in S \union A, NEW d \in S \union A, c.text \in K, d.text \in K,
                    c # d, Alike(c, d)
             PROVE  FALSE
  BY DEF Differ
<1>1. ASSUME NEW x \in A, NEW y \in S, y.text \in K, Alike(x, y) PROVE FALSE
  <2>1. y \notin registered
    BY <1>1
  <2>2. PICK e \in registered : Alike(y, e)
    BY <2>1 DEF Registered
  <2>3. e \in S /\ e # y
    BY <2>1, <2>2 DEF Registered
  <2>4. Alike(Seed(y.text), Seed(e.text))
    BY <2>2 DEF Alike, SameArtifact, Seed, Child
  <2>5. e.text \in K
    BY <2>3, <2>4, <1>1 DEF Kinds
  <2> QED
    BY <1>1, <2>2, <2>3, <2>5 DEF Differ
<1>2. CASE c \in S /\ d \in S
  BY <1>2 DEF Differ
<1>3. CASE c \in A /\ d \in A
  BY <1>3
<1>4. Alike(d, c)
  BY AlikeIsSymmetric
<1> QED
  BY <1>1, <1>2, <1>3, <1>4

\* An empty hand.
LEMMA NoHandIs ==
  /\ NoHand.accepted = <<>> /\ NoHand.rejected = <<>> /\ Range(NoHand.accepted) = {}
  /\ RejectedOf(NoHand) = {} /\ ChildrenOf(NoHand) = {} /\ AreApart(NoHand, {})
  /\ NoHand.accepted \in Seq(Range(NoHand.accepted))
  /\ NoHand.rejected \in Seq(Range(NoHand.rejected))
<1>1. NoHand.accepted = <<>> /\ NoHand.rejected = <<>>
  BY DEF NoHand
<1>2. <<>> \in Seq(Range(<<>>)) /\ DOMAIN <<>> = {} /\ Range(<<>>) = {}
  BY DEF Range
<1>3. RejectedOf(NoHand) = {} /\ ChildrenOf(NoHand) = {}
  BY <1>1, <1>2 DEF RejectedOf, ChildrenOf
<1> QED
  BY <1>1, <1>2, <1>3 DEF AreApart

\* The population of a run in which nobody is bound to a slot yet.
LEMMA InitIInv == Init => IInv
<1> SUFFICES ASSUME Init PROVE IInv
  OBVIOUS
<1>1. PICK P \in SUBSET Incumbents : live = {Seed(t) : t \in P}
  BY DEF Init
<1>2. /\ harvest = NewHarvest(SeedTarget - Cardinality(live))
      /\ phase = (IF harvest.target > 0 THEN "seeding" ELSE "bred")
      /\ IF phase = "seeding" THEN enrolled \in Registered(live) ELSE enrolled = {}
      /\ issued = 0 /\ replies = <<>> /\ stored = {} /\ slots = <<>>
      /\ hand = NoHand /\ history = <<>>
  BY DEF Init
<1>3. P \subseteq Texts /\ IsFiniteSet(P)
  BY BreedingAssumption, HarvestAssumption, FS_Subset
<1>4. IsFiniteSet(live)
  <2> DEFINE f == [t \in P |-> Seed(t)]
  <2>1. f = [t \in P |-> f[t]] /\ Range(f) = {Seed(t) : t \in P}
    BY DEF Range
  <2> HIDE DEF f
  <2> QED
    BY <2>1, <1>1, <1>3, ImageIsFinite
<1>5. Cardinality(live) \in Nat
  BY <1>4, FS_CardinalityType
<1> DEFINE target == SeedTarget - Cardinality(live)
<1>6. target \in Int
  BY <1>5, Numbers
<1>7. live \subseteq Seeds
  BY <1>1, <1>3 DEF Seeds
<1>8. \A c \in live : IsCandidate(c) /\ c.slot = 0 /\ c.text \in Incumbents
  <2>1. \A t \in P : Seed(t).text \in Incumbents
    BY DEF Seed, Child
  <2> QED
    BY <1>1, <1>7, <2>1, SeedsAreCandidates
<1>9. Seeding
  <2> HIDE DEF target
  <2>1. /\ IsHarvest(harvest) /\ harvest.target = target
        /\ harvest.batches = 0 /\ harvest.failed = {} /\ harvest.streak = 0
        /\ ChildrenOf(harvest) = {} /\ AreApart(harvest, enrolled)
        /\ harvest = NewHarvest(target)
    BY <1>2, <1>6, NewHarvestIs DEF target
  <2>2. replies \in Seq(Replies) /\ Len(replies) = 0
    BY <1>2
  <2>3. SeedsTyped
    BY <2>1, <2>2, <1>2 DEF SeedsTyped
  <2>4. Closed = 0
    BY <2>2, <1>2 DEF Closed
  <2>5. Progress(harvest) \in Nat
    BY <2>1, ProgressIsNat
  <2>6. Workers * Progress(harvest) \in Nat
    BY <2>5, Numbers, GainIsProgress
  <2>7. WindowsProgress
    BY <2>1, <2>4, <2>6, <1>2, Numbers DEF WindowsProgress
  <2>8. SeedingWearsOut
    <3> DEFINE m == Max({target, 0})
    <3>1. m \in Nat
      BY <1>6, BoundIsNat, Zenon
    <3> HIDE DEF m
    <3>2. Patience * m \in Nat
      BY <3>1, Numbers, GainIsProgress
    <3>3. MinBatches + Patience * m \in Nat
      BY <3>2, Numbers
    <3>4. Workers * (MinBatches + Patience * m) \in Nat
      BY <3>3, Numbers, GainIsProgress
    <3> QED
      BY <2>1, <3>4, <1>2 DEF SeedingWearsOut, m
  <2> QED
    BY <2>1, <2>3, <2>7, <2>8 DEF Seeding
<1>10. phase \in {"seeding", "bred"} /\ (phase = "bred" => live # {})
  <2>1. harvest.target = target
    BY <1>2, <1>6, NewHarvestIs
  <2>2. CASE target > 0
    BY <1>2, <2>1, <2>2
  <2>3. CASE ~(target > 0)
    <3>1. live # {}
      BY <2>3, Numbers, FS_EmptySet
    <3> QED
      BY <1>2, <2>1, <2>3, <3>1
  <2> QED
    BY <2>2, <2>3
<1>11. Rounds
  <2>1. history \in Seq(Range(history)) /\ DOMAIN history = {} /\ Range(history) = {}
    BY <1>2 DEF Range
  <2>2. CandidatesTyped
    BY <1>2, <1>4, <1>8, <1>10, <2>1, NoHandIs, FS_EmptySet DEF CandidatesTyped
  <2>3. CandidatesDiffer
    <3> SUFFICES ASSUME NEW K \in Kinds, Differ({Seed(t) : t \in K \intersect Incumbents}),
                        NEW c \in live, NEW d \in live, c.text \in K, d.text \in K, c # d
                 PROVE  ~Alike(c, d)
      BY DEF CandidatesDiffer, Differ
    <3>1. c = Seed(c.text) /\ d = Seed(d.text)
      BY <1>1 DEF Seed, Child
    <3>2. {c, d} \subseteq {Seed(t) : t \in K \intersect Incumbents}
      BY <3>1, <1>8
    <3> QED
      BY <3>2 DEF Differ
  <2>4. RoundsHaveSeeds
    BY <1>10 DEF RoundsHaveSeeds
  <2>5. SlotsArePlanned
    BY <1>2, <1>10, <2>1 DEF SlotsArePlanned, Asking
  <2>6. SlotsOf(history) = {} /\ RefusedIn(history) = {}
    BY <2>1 DEF SlotsOf, RefusedIn
  <2>7. ChildrenAreBound
    BY <1>2, <1>8, NoHandIs DEF ChildrenAreBound, OnePerSlot, Apart
  <2>8. RefusalsAreBound
    BY <1>2, <2>1, <2>6 DEF RefusalsAreBound, OnePerSlot, Apart
  <2>9. HandIsAccounted /\ AnswersAccounted
    BY <1>10, <2>1 DEF HandIsAccounted, AnswersAccounted
  <2> QED
    BY <1>10, <2>2, <2>3, <2>4, <2>5, <2>7, <2>8, <2>9 DEF Rounds, Asking
<1>12. phase \in Phases /\ Len(history) <= MaxRound
  <2>1. Len(history) = 0
    BY <1>2
  <2> QED
    BY <1>10, <2>1, Numbers DEF Phases
<1> QED
  BY <1>9, <1>11, <1>12, InvariantOfParts

\* A step that changes neither the candidates nor the records, between rounds.
LEMMA RoundsRestBetween ==
  ASSUME Rounds, phase \notin Asking, phase' \notin Asking,
         phase' # "measured" \/ Len(history) < MaxRound,
         phase' \notin {"seeding", "paused", "failed"} => live # {},
         UNCHANGED <<live, stored, slots, hand, history>>
  PROVE  Rounds'
<1>1. CandidatesTyped'
  BY DEF Rounds, CandidatesTyped, Asking
<1>2. CandidatesDiffer' /\ RoundsHaveSeeds'
  BY DEF Rounds, CandidatesDiffer, RoundsHaveSeeds
<1>3. SlotsArePlanned'
  BY DEF Rounds, SlotsArePlanned, Round
<1>4. SlotsOf(history)' = SlotsOf(history) /\ RefusedIn(history)' = RefusedIn(history)
  BY DEF SlotsOf, RefusedIn
<1>5. ChildrenAreBound'
  BY <1>4 DEF Rounds, ChildrenAreBound
<1>6. RefusalsAreBound'
  BY <1>4 DEF Rounds, RefusalsAreBound
<1>7. HandIsAccounted' /\ AnswersAccounted'
  BY DEF Rounds, HandIsAccounted, AnswersAccounted, Asking
<1> QED
  BY <1>1, <1>2, <1>3, <1>5, <1>6, <1>7 DEF Rounds

\* The invariant of the next state, from its parts.
LEMMA NextOfParts ==
  ASSUME phase' \in Phases, Len(history') <= MaxRound, Seeding', Rounds'
  PROVE  IInv'
<1>1. (phase \in Phases /\ Len(history) <= MaxRound /\ Seeding /\ Rounds => IInv)'
  BY InvariantOfParts, PTL
<1> QED
  BY <1>1

\* An exception leaves the rest of the state alone.
LEMMA SeedingFailsKeeps ==
  ASSUME IInv, SeedingFails
  PROVE  IInv'
<1>1. /\ Seeding /\ Rounds /\ phase \in Phases /\ Len(history) <= MaxRound
      /\ phase = "seeding" /\ phase' = "failed"
      /\ UNCHANGED <<enrolled, issued, harvest, replies, live, stored, slots, refusal, hand, history>>
  BY PartsOfInvariant DEF SeedingFails, seeding
<1>2. Seeding'
  BY <1>1 DEF Seeding, SeedsTyped, WindowsProgress, SeedingWearsOut, Closed
<1>3. Rounds'
  BY <1>1, RoundsRestBetween DEF Asking
<1> QED
  BY <1>1, <1>2, <1>3, NextOfParts DEF Phases

\* A resume begins a new harvest, or goes on with the population it finds.
LEMMA ResumeKeeps ==
  ASSUME IInv, Resume
  PROVE  IInv'
<1>1. /\ Seeding /\ Rounds /\ phase \in Phases /\ Len(history) <= MaxRound
      /\ phase = "paused"
      /\ \/ live = {} /\ phase' = "seeding" /\ harvest' = NewHarvest(SeedTarget)
         \/ live # {} /\ phase' = "bred" /\ UNCHANGED harvest
      /\ UNCHANGED <<enrolled, issued, replies, live, stored, slots, refusal, hand, history>>
  BY PartsOfInvariant DEF Resume
<1>2. /\ issued = 0 /\ replies = <<>> /\ harvest = NewHarvest(harvest.target)
      /\ harvest.target \in Int /\ enrolled = {}
  BY <1>1 DEF Seeding, SeedsTyped, IsHarvest
<1>3. Seeding'
  <2>1. CASE live = {} /\ phase' = "seeding" /\ harvest' = NewHarvest(SeedTarget)
    <3>1. enrolled' \in Registered(live')
      BY <2>1, <1>1, <1>2 DEF Registered, Differ
    <3> QED
      BY <2>1, <3>1, <1>1, <1>2, Numbers, FreshSeeding
  <2>2. CASE phase' = "bred" /\ UNCHANGED harvest
    <3>1. harvest' = NewHarvest(harvest.target)
      BY <2>2, <1>2
    <3> QED
      BY <2>2, <3>1, <1>1, <1>2, FreshSeeding
  <2> QED
    BY <2>1, <2>2, <1>1
<1>4. Rounds'
  BY <1>1, RoundsRestBetween DEF Asking
<1> QED
  BY <1>1, <1>3, <1>4, NextOfParts DEF Phases

\* The accepted seeds join the incumbents: nobody among them is like another.
LEMMA EndSeedingKeeps ==
  ASSUME IInv, EndSeeding
  PROVE  IInv'
<1> DEFINE new == Range(harvest.accepted)
<1>1. /\ Seeding /\ Rounds /\ phase \in Phases /\ Len(history) <= MaxRound
      /\ phase = "seeding" /\ replies = <<>> /\ live' = live \union new
      /\ phase' = (IF SeedError(harvest) # "none" /\ live' = {} THEN "paused" ELSE "bred")
      /\ harvest' = NewHarvest(0) /\ issued' = 0 /\ enrolled' = {}
      /\ UNCHANGED <<replies, stored, slots, refusal, hand, history>>
  BY PartsOfInvariant DEF EndSeeding
<1>2. Seeding'
  BY <1>1, FreshSeeding
<1>3. /\ new \subseteq Seeds /\ harvest.accepted \in Seq(Range(harvest.accepted))
      /\ AreApart(harvest, enrolled) /\ enrolled \in Registered(live)
  BY <1>1 DEF Seeding, SeedsTyped, ChildrenOf, IsHarvest
<1>4. \A c \in new : IsCandidate(c) /\ c.slot = 0
  BY <1>3, SeedsAreCandidates
<1>5. phase' \in {"paused", "bred"} /\ (phase' = "bred" => live' # {})
  <2>1. ASSUME live' = {}, SeedError(harvest) = "none" PROVE FALSE
    <3>1. live = {} /\ new = {}
      BY <1>1, <2>1
    <3>2. harvest.accepted = <<>>
      <4>1. Len(harvest.accepted) \in Nat /\ DOMAIN harvest.accepted = 1 .. Len(harvest.accepted)
        BY <1>3
      <4>2. DOMAIN harvest.accepted = {}
        BY <3>1 DEF Range
      <4>3. ASSUME Len(harvest.accepted) # 0 PROVE FALSE
        <5>1. 1 \in 1 .. Len(harvest.accepted)
          BY <4>1, <4>3
        <5> QED
          BY <4>1, <4>2, <5>1
      <4> QED
        BY <4>3, <1>3
    <3> QED
      BY <2>1, <3>1, <3>2 DEF SeedError
  <2> QED
    BY <2>1, <1>1
<1>6. Rounds'
  <2>1. CandidatesTyped'
    <3>1. IsFiniteSet(live')
      BY <1>1, <1>3, RangeIsFinite, FS_Union DEF Rounds, CandidatesTyped
    <3> QED
      BY <3>1, <1>1, <1>4, <1>5 DEF Rounds, CandidatesTyped
  <2>2. CandidatesDiffer'
    <3>1. ASSUME NEW c \in new, NEW d \in new, c # d PROVE ~Alike(c, d)
      <4>1. PICK i \in DOMAIN harvest.accepted : c = harvest.accepted[i]
        BY DEF Range
      <4>2. PICK j \in DOMAIN harvest.accepted : d = harvest.accepted[j]
        BY DEF Range
      <4> QED
        BY <4>1, <4>2, <3>1, <1>3 DEF AreApart
    <3>2. \A c \in new, d \in enrolled : ~Alike(c, d)
      BY <1>3 DEF AreApart
    <3>3. \A c \in live : c.text \in Texts
      BY <1>1 DEF Rounds, CandidatesTyped, IsCandidate
    <3> SUFFICES ASSUME NEW K \in Kinds, Differ({Seed(t) : t \in K \intersect Incumbents})
                 PROVE  Differ({c \in live' : c.text \in K})
      BY DEF CandidatesDiffer
    <3>4. Differ({c \in live : c.text \in K})
      BY <1>1 DEF Rounds, CandidatesDiffer
    <3>5. Differ({c \in live \union new : c.text \in K})
      <4> HIDE DEF new
      <4> QED
        BY <3>1, <3>2, <3>3, <3>4, <1>3, JoinersDiffer
    <3> QED
      BY <3>5, <1>1
  <2>3. RoundsHaveSeeds'
    BY <1>5 DEF RoundsHaveSeeds
  <2>4. SlotsArePlanned'
    BY <1>1, <1>5 DEF Rounds, SlotsArePlanned, Round, Asking
  <2>5. SlotsOf(history)' = SlotsOf(history) /\ RefusedIn(history)' = RefusedIn(history)
    BY <1>1 DEF SlotsOf, RefusedIn
  <2>6. ChildrenAreBound'
    BY <2>5, <1>1, <1>4 DEF Rounds, ChildrenAreBound, OnePerSlot, Apart
  <2>7. RefusalsAreBound'
    BY <2>5, <1>1, <1>4 DEF Rounds, RefusalsAreBound, OnePerSlot, Apart
  <2>8. HandIsAccounted' /\ AnswersAccounted'
    BY <1>1, <1>5 DEF Rounds, HandIsAccounted, AnswersAccounted
  <2> QED
    BY <2>1, <2>2, <2>3, <2>4, <2>6, <2>7, <2>8, <1>5 DEF Rounds, Asking
<1> QED
  BY <1>1, <1>2, <1>5, <1>6, NextOfParts DEF Phases

-----------------------------------------------------------------------------
(* The rounds.                                                             *)

\* A measurement changes nothing but the outcome.
LEMMA MeasuredIs ==
  ASSUME NEW c, IsCandidate(c), NEW result
  PROVE  LET d == Measured(c, result)
         IN  /\ IsCandidate(d) /\ d.text = c.text /\ d.root = c.root /\ d.slot = c.slot
             /\ d.parent = c.parent
<1> DEFINE v == result[c]
           d == Measured(c, result)
<1>1. CASE c.outcome = "new"
  <2>1. d = [c EXCEPT !.outcome = v]
    BY <1>1 DEF Measured
  <2> HIDE DEF v, d
  <2>2. d = [text |-> c.text, root |-> c.root, slot |-> c.slot, parent |-> c.parent,
             outcome |-> v]
    BY <2>1 DEF IsCandidate
  <2> QED
    BY <2>2 DEF IsCandidate, d
<1>2. CASE c.outcome # "new"
  <2>1. d = c
    BY <1>2 DEF Measured
  <2> QED
    BY <2>1
<1> QED
  BY <1>1, <1>2

\* A measured candidate keeps its text, its slot and its lineage, wherever it goes.
LEMMA MeasureKeeps ==
  ASSUME IInv, Measure
  PROVE  IInv'
<1>1. /\ Seeding /\ Rounds /\ phase \in Phases /\ Len(history) <= MaxRound
      /\ phase = "bred" /\ Len(history) < MaxRound /\ phase' = "measured"
      /\ UNCHANGED <<seeding, replies, slots, refusal, hand, history>>
  BY PartsOfInvariant DEF Measure
<1>2. PICK result \in [{c \in live : c.outcome = "new"} -> Outcomes] :
         LET all == {Measured(c, result) : c \in live}
         IN  \E gone \in {{}} \union {{c} : c \in all} :
                /\ gone # all
                /\ live' = all \ gone
                /\ stored' = stored \union {c \in gone : c.outcome # "bad"}
  BY DEF Measure
<1> DEFINE M(c) == Measured(c, result)
           all == {M(c) : c \in live}
<1>3. PICK gone \in {{}} \union {{c} : c \in all} :
         /\ gone # all
         /\ live' = all \ gone
         /\ stored' = stored \union {c \in gone : c.outcome # "bad"}
  BY <1>2
<1>4. Seeding'
  BY <1>1, SeedingRests DEF seeding
<1>5. /\ \A c \in live \union stored : IsCandidate(c)
      /\ IsFiniteSet(live) /\ IsFiniteSet(stored)
  BY <1>1 DEF Rounds, CandidatesTyped
<1>6. \A x \in all : \E c \in live :
         /\ x = M(c) /\ IsCandidate(x) /\ x.text = c.text /\ x.root = c.root
         /\ x.slot = c.slot /\ x.parent = c.parent
  BY <1>5, MeasuredIs
<1>7. IsFiniteSet(all)
  <2> DEFINE f == [c \in live |-> M(c)]
  <2>1. f = [c \in live |-> f[c]] /\ Range(f) = all
    BY DEF Range
  <2> HIDE DEF f, all
  <2> QED
    BY <2>1, <1>5, ImageIsFinite
<1> HIDE DEF M, all
<1>8. gone \subseteq all /\ (gone = {} \/ \E g \in all : gone = {g})
  BY <1>3
<1>9. /\ live' \subseteq all /\ stored' \subseteq stored \union gone
      /\ \A c \in live' : c \notin gone
  BY <1>3
<1>10. live' # {}
  BY <1>3, <1>8
<1>11. CandidatesTyped'
  <2>1. IsFiniteSet(live')
    BY <1>7, <1>9, FS_Subset
  <2>2. IsFiniteSet(stored')
    <3>1. IsFiniteSet(gone)
      BY <1>7, <1>8, FS_Subset
    <3>2. IsFiniteSet(stored \union gone)
      BY <3>1, <1>5, FS_Union
    <3> QED
      BY <3>2, <1>9, FS_Subset
  <2>3. \A c \in live' \union stored' : IsCandidate(c)
    BY <1>5, <1>6, <1>8, <1>9
  <2> QED
    BY <2>1, <2>2, <2>3, <1>1 DEF Rounds, CandidatesTyped
<1>12. CandidatesDiffer'
  <2> SUFFICES ASSUME NEW K \in Kinds, Differ({Seed(t) : t \in K \intersect Incumbents}),
                      NEW x \in live', NEW y \in live', x.text \in K, y.text \in K, x # y
               PROVE  ~Alike(x, y)
    BY DEF CandidatesDiffer, Differ
  <2>1. PICK c \in live : x = M(c) /\ x.text = c.text
    BY <1>6, <1>9
  <2>2. PICK d \in live : y = M(d) /\ y.text = d.text
    BY <1>6, <1>9
  <2>3. c # d /\ (Alike(x, y) => Alike(c, d))
    BY <2>1, <2>2 DEF Alike, SameArtifact
  <2>4. Differ({z \in live : z.text \in K})
    BY <1>1 DEF Rounds, CandidatesDiffer
  <2> QED
    BY <2>1, <2>2, <2>3, <2>4 DEF Differ
<1>13. RoundsHaveSeeds'
  BY <1>10 DEF RoundsHaveSeeds
<1>14. SlotsArePlanned'
  BY <1>1 DEF Rounds, SlotsArePlanned, Round, Asking
<1>15. SlotsOf(history)' = SlotsOf(history) /\ RefusedIn(history)' = RefusedIn(history)
  BY <1>1 DEF SlotsOf, RefusedIn
<1>16. OnePerSlot(all)
  BY <1>1, <1>6 DEF Rounds, ChildrenAreBound, OnePerSlot
<1>17. Apart(all, stored) /\ Apart(stored, all)
  BY <1>1, <1>6 DEF Rounds, ChildrenAreBound, Apart
<1>18. ChildrenAreBound'
  <2>1. OnePerSlot(live')
    BY <1>9, <1>16 DEF OnePerSlot
  <2>2. OnePerSlot(stored')
    BY <1>1, <1>8, <1>9, <1>16, <1>17 DEF OnePerSlot, Apart, Rounds, ChildrenAreBound
  <2>3. Apart(live', stored')
    BY <1>8, <1>9, <1>16, <1>17 DEF OnePerSlot, Apart
  <2>4. \A c \in live' \union stored' : c.slot # 0 =>
           \E s \in SlotsOf(history) :
              OfSlot(c.slot, c.root, s) /\ (c.parent # 0 => c.root = s.arm)
    BY <1>1, <1>6, <1>8, <1>9 DEF Rounds, ChildrenAreBound
  <2>5. /\ \A c \in ChildrenOf(hand) : c.slot # 0 =>
              \E s \in Range(slots) :
                 OfSlot(c.slot, c.root, s) /\ (c.parent # 0 => c.root = s.arm)
        /\ OnePerSlot(ChildrenOf(hand)) /\ Apart(Range(hand.accepted), RejectedOf(hand))
    BY <1>1 DEF Rounds, ChildrenAreBound
  <2> QED
    BY <2>1, <2>2, <2>3, <2>4, <2>5, <1>1, <1>15 DEF ChildrenAreBound
<1>19. RefusalsAreBound'
  <2>1. Apart(all, RefusedIn(history))
    BY <1>1, <1>6 DEF Rounds, RefusalsAreBound, Apart
  <2>2. Apart(live' \union stored', RefusedIn(history))
    BY <2>1, <1>1, <1>8, <1>9 DEF Rounds, RefusalsAreBound, Apart
  <2> QED
    BY <2>2, <1>1, <1>15 DEF Rounds, RefusalsAreBound
<1>20. HandIsAccounted' /\ AnswersAccounted'
  BY <1>1 DEF Rounds, HandIsAccounted, AnswersAccounted
<1>21. Rounds'
  BY <1>1, <1>11, <1>12, <1>13, <1>14, <1>18, <1>19, <1>20 DEF Rounds
<1> QED
  BY <1>1, <1>4, <1>21, NextOfParts DEF Phases

\* A slot is planned for each of the arms, with the next ids of the run.
LEMMA SlotsForPlan ==
  ASSUME NEW parents, NEW arms, Len(history) \in Nat,
         \A i \in 1 .. Branch : arms[i] \in Nat \ {0},
         NEW planned \in SlotsFor(parents, arms)
  PROVE  ArePlanned(planned, Round)
<1>1. PICK restarts \in Restarting :
         planned = [i \in 1 .. Branch |->
            LET kin == SetToSortSeq({p.text : p \in {q \in parents : q.root = arms[i]}}, <)
                turn == Cardinality({j \in 1 .. i - 1 : arms[j] = arms[i]})
            IN  [id |-> SlotId(i), arm |-> arms[i], parent |-> kin[(turn % Len(kin)) + 1],
                 restart |-> i \in restarts]]
  BY DEF SlotsFor
<1>2. DOMAIN planned = 1 .. Branch
  BY <1>1
<1>3. \A i \in 1 .. Branch : planned[i].id = SlotId(i) /\ planned[i].arm = arms[i]
  BY <1>1
<1> QED
  BY <1>2, <1>3 DEF ArePlanned, SlotId

\* The slots of a round are planned with the ids that come next.
LEMMA AllocateKeeps ==
  ASSUME IInv, Allocate
  PROVE  IInv'
<1>1. /\ Seeding /\ Rounds /\ phase \in Phases /\ Len(history) <= MaxRound
      /\ phase = "measured" /\ phase' \in {"slots", "batch"}
      /\ UNCHANGED <<enrolled, issued, harvest, replies, live, stored, hand, history>>
  BY PartsOfInvariant DEF Allocate, seeding
<1>2. PICK parents \in SUBSET (live \union stored) :
         \E arms \in [1 .. Branch -> {p.root : p \in parents}] :
            slots' \in SlotsFor(parents, arms)
  BY DEF Allocate
<1>3. PICK arms \in [1 .. Branch -> {p.root : p \in parents}] :
         slots' \in SlotsFor(parents, arms)
  BY <1>2
<1>4. history \in Seq(Range(history)) /\ Len(history) \in Nat /\ Len(history) < MaxRound
  BY <1>1 DEF Rounds, CandidatesTyped
<1>5. \A i \in 1 .. Branch : arms[i] \in Nat \ {0}
  <2>1. \A p \in parents : p.root \in Nat \ {0}
    BY <1>1 DEF Rounds, CandidatesTyped, IsCandidate
  <2> QED
    BY <2>1
<1>6. ArePlanned(slots', Round)
  BY <1>3, <1>4, <1>5, SlotsForPlan
<1>7. Seeding'
  BY <1>1, SeedingRests DEF seeding
<1>8. CandidatesTyped'
  BY <1>1 DEF Rounds, CandidatesTyped
<1>9. CandidatesDiffer' /\ RoundsHaveSeeds'
  BY <1>1 DEF Rounds, CandidatesDiffer, RoundsHaveSeeds
<1>10. SlotsArePlanned'
  BY <1>1, <1>6 DEF Rounds, SlotsArePlanned, Round, Asking
<1>11. SlotsOf(history)' = SlotsOf(history) /\ RefusedIn(history)' = RefusedIn(history)
  BY <1>1 DEF SlotsOf, RefusedIn
<1>12. ChildrenAreBound'
  <2>1. hand' = NoHand
    BY <1>1 DEF Rounds, CandidatesTyped
  <2>2. /\ \A c \in live \union stored : c.slot # 0 =>
              \E s \in SlotsOf(history) :
                 OfSlot(c.slot, c.root, s) /\ (c.parent # 0 => c.root = s.arm)
        /\ OnePerSlot(live) /\ OnePerSlot(stored) /\ Apart(live, stored)
    BY <1>1 DEF Rounds, ChildrenAreBound
  <2>3. /\ ChildrenOf(hand') = {} /\ Range(hand'.accepted) = {}
        /\ OnePerSlot(ChildrenOf(hand')) /\ Apart(Range(hand'.accepted), RejectedOf(hand'))
    BY <2>1, NoHandIs DEF OnePerSlot, Apart
  <2> QED
    BY <2>2, <2>3, <1>1, <1>11 DEF ChildrenAreBound
<1>13. RefusalsAreBound'
  BY <1>1, <1>11 DEF Rounds, RefusalsAreBound
<1>14. HandIsAccounted' /\ AnswersAccounted'
  BY <1>1 DEF Rounds, HandIsAccounted, AnswersAccounted
<1>15. Rounds'
  BY <1>1, <1>4, <1>8, <1>9, <1>10, <1>12, <1>13, <1>14 DEF Rounds
<1> QED
  BY <1>1, <1>7, <1>15, NextOfParts DEF Phases

\* What a record adds to what the records say of the slots.
LEMMA AppendRecord ==
  ASSUME NEW past, past \in Seq(Range(past)), NEW r
  PROVE  LET now == Append(past, r)
         IN  /\ SlotsOf(now) = SlotsOf(past) \union Range(r.slots)
             /\ RefusedIn(now) = RefusedIn(past) \union (r.rejected \union r.duplicates)
<1> DEFINE now == Append(past, r)
           n == Len(past)
<1>1. /\ DOMAIN now = 1 .. n + 1 /\ DOMAIN past = 1 .. n
      /\ now[n + 1] = r /\ \A i \in DOMAIN past : now[i] = past[i]
  BY AppendEffect
<1>2. n \in Nat
  OBVIOUS
<1> HIDE DEF now, n
<1>3. DOMAIN now = DOMAIN past \union {n + 1}
  BY <1>1, <1>2
<1>4. SlotsOf(now) = SlotsOf(past) \union Range(r.slots)
  <2>1. {Range(now[i].slots) : i \in DOMAIN now}
           = {Range(past[i].slots) : i \in DOMAIN past} \union {Range(r.slots)}
    BY <1>1, <1>3
  <2> QED
    BY <2>1 DEF SlotsOf
<1>5. RefusedIn(now) = RefusedIn(past) \union (r.rejected \union r.duplicates)
  <2>1. {now[i].rejected \union now[i].duplicates : i \in DOMAIN now}
           = {past[i].rejected \union past[i].duplicates : i \in DOMAIN past}
                \union {r.rejected \union r.duplicates}
    <3> DEFINE F(x) == x.rejected \union x.duplicates
    <3> HIDE DEF F
    <3>1. {F(now[i]) : i \in DOMAIN now} = {F(past[i]) : i \in DOMAIN past} \union {F(r)}
      BY <1>1, <1>3
    <3> QED
      BY <3>1 DEF F
  <2> QED
    BY <2>1 DEF RefusedIn
<1> QED
  BY <1>4, <1>5 DEF now

\* An interrupted round leaves a record without slots.
LEMMA InterruptedKeeps ==
  ASSUME IInv, phase \in Asking, Interrupted
  PROVE  IInv'
<1>1. /\ Seeding /\ Rounds /\ phase \in Phases
      /\ phase' = "paused" /\ history' = Append(history, Lost)
      /\ slots' = <<>> /\ hand' = NoHand
      /\ UNCHANGED <<enrolled, issued, harvest, replies, live, stored>>
  BY PartsOfInvariant DEF Interrupted, seeding
<1> DEFINE n == Len(history)
<1>2. /\ history \in Seq(Range(history)) /\ n \in Nat /\ n < MaxRound
      /\ DOMAIN history = 1 .. n
  BY <1>1 DEF Rounds, CandidatesTyped
<1>3. /\ history' \in Seq(Range(history')) /\ Len(history') = n + 1
      /\ DOMAIN history' = 1 .. n + 1 /\ history'[n + 1] = Lost
      /\ \A i \in DOMAIN history : history'[i] = history[i]
  BY <1>1, <1>2, AppendEffect
<1> HIDE DEF n
<1>4. \A i \in DOMAIN history' : i \in DOMAIN history \/ history'[i] = Lost
  BY <1>2, <1>3
<1>5. /\ Lost.slots = <<>> /\ Lost.rejected = {} /\ Lost.duplicates = {}
      /\ Lost.children = {} /\ Lost.failed = {} /\ Lost.transport = "none"
      /\ Range(Lost.slots) = {}
  BY DEF Lost, Range
<1>6. SlotsOf(history') = SlotsOf(history) /\ RefusedIn(history') = RefusedIn(history)
  <2>1. /\ SlotsOf(history') = SlotsOf(history) \union Range(Lost.slots)
        /\ RefusedIn(history') = RefusedIn(history) \union (Lost.rejected \union Lost.duplicates)
    BY <1>1, <1>2, AppendRecord
  <2> QED
    BY <2>1, <1>5, Zenon
<1>7. Seeding'
  BY <1>1, SeedingRests DEF seeding, Asking
<1>8. CandidatesTyped'
  BY <1>1, <1>3, NoHandIs DEF Rounds, CandidatesTyped
<1>9. CandidatesDiffer' /\ RoundsHaveSeeds'
  BY <1>1 DEF Rounds, CandidatesDiffer, RoundsHaveSeeds
<1>10. SlotsArePlanned'
  <2>1. \A i \in DOMAIN history' : history'[i].slots = <<>> \/ ArePlanned(history'[i].slots, i)
    BY <1>1, <1>3, <1>4, <1>5 DEF Rounds, SlotsArePlanned
  <2> QED
    BY <2>1, <1>1 DEF SlotsArePlanned, Asking
<1>11. ChildrenAreBound'
  <2>1. /\ \A c \in live \union stored : c.slot # 0 =>
              \E s \in SlotsOf(history) :
                 OfSlot(c.slot, c.root, s) /\ (c.parent # 0 => c.root = s.arm)
        /\ OnePerSlot(live) /\ OnePerSlot(stored) /\ Apart(live, stored)
    BY <1>1 DEF Rounds, ChildrenAreBound
  <2>2. /\ ChildrenOf(hand') = {} /\ Range(hand'.accepted) = {}
        /\ OnePerSlot(ChildrenOf(hand')) /\ Apart(Range(hand'.accepted), RejectedOf(hand'))
    BY <1>1, NoHandIs DEF OnePerSlot, Apart
  <2> QED
    BY <2>1, <2>2, <1>1, <1>6 DEF ChildrenAreBound
<1>12. RefusalsAreBound'
  <2>1. \A i \in DOMAIN history' :
           IsFiniteSet(history'[i].rejected) /\ IsFiniteSet(history'[i].duplicates)
    BY <1>1, <1>3, <1>4, <1>5, FS_EmptySet DEF Rounds, RefusalsAreBound
  <2> QED
    BY <2>1, <1>1, <1>6 DEF Rounds, RefusalsAreBound
<1>13. HandIsAccounted'
  BY <1>1 DEF HandIsAccounted
<1>14. AnswersAccounted'
  <2> SUFFICES ASSUME NEW i \in DOMAIN history'
               PROVE  LET r == history'[i]
                          refused == {x.slot : x \in r.rejected}
                      IN  /\ r.transport = "slots" =>
                               r.children \union refused \union r.failed
                                  = {s.id : s \in Range(r.slots)}
                          /\ r.children \intersect refused = {}
                          /\ (r.children \union refused) \intersect r.failed = {}
    BY DEF AnswersAccounted
  <2>1. CASE i \in DOMAIN history
    BY <2>1, <1>1, <1>3 DEF Rounds, AnswersAccounted
  <2>2. CASE history'[i] = Lost
    BY <2>2, <1>5
  <2> QED
    BY <2>1, <2>2, <1>4
<1>15. Rounds'
  BY <1>1, <1>8, <1>9, <1>10, <1>11, <1>12, <1>13, <1>14 DEF Rounds, Asking
<1>16. Len(history') <= MaxRound
  BY <1>2, <1>3, Numbers
<1> QED
  BY <1>1, <1>7, <1>15, <1>16, NextOfParts DEF Phases

-----------------------------------------------------------------------------
(* The children of a round.                                                *)

\* The least of some numbers is one of them.
LEMMA MinOfNumbers ==
  ASSUME NEW S \in SUBSET Nat, S # {}
  PROVE  Min(S) \in S
<1>1. PICK n \in S : \A m \in S : <<m, n>> \notin OpToRel(<, Nat)
  BY NatLessThanWellFounded, WFMin
<1>2. \A m \in Nat : m < n => m \notin S
  BY <1>1 DEF OpToRel
<1>3. \A m \in S : n <= m
  BY <1>2
<1> QED
  BY <1>3 DEF Min

\* The slots of a round have ids of their own, above those of the rounds before.
LEMMA IdsOfPlan ==
  ASSUME NEW planned, NEW round \in Nat, round # 0, ArePlanned(planned, round)
  PROVE  /\ Branch * (round - 1) \in Nat
         /\ \A i \in 1 .. Branch :
               /\ planned[i].id \in Nat \ {0} /\ planned[i].arm \in Nat \ {0}
               /\ Branch * (round - 1) < planned[i].id
               /\ planned[i].id <= Branch * (round - 1) + Branch
               /\ planned[i].id - Branch * (round - 1) = i
<1> DEFINE base == Branch * (round - 1)
<1>1. base \in Nat
  BY Numbers, GainIsProgress
<1>2. \A i \in 1 .. Branch : planned[i].id = base + i /\ planned[i].arm \in Nat \ {0}
  BY DEF ArePlanned
<1> HIDE DEF base
<1>3. \A i \in 1 .. Branch :
         /\ planned[i].id \in Nat \ {0} /\ planned[i].arm \in Nat \ {0}
         /\ base < planned[i].id /\ planned[i].id <= base + Branch
         /\ planned[i].id - base = i
  BY <1>1, <1>2, Numbers
<1> QED
  BY <1>1, <1>3 DEF base

\* A child that has a slot has one of the round's, and its lineage unless it is a restart.
IsBound(c) ==
  c.slot # 0 => \E s \in Range(slots) :
                   OfSlot(c.slot, c.root, s) /\ (c.parent # 0 => c.root = s.arm)

\* A child gets a slot of its parent that is free, or none.
LEMMA BoundEffect ==
  ASSUME ArePlanned(slots, Round), Len(history) \in Nat, NEW used, NEW item,
         item.text \in Texts, item.parent \in {s.parent : s \in Range(slots)}
  PROVE  LET c == Bound(item, used)
         IN  /\ IsCandidate(c) /\ IsBound(c) /\ (c.slot # 0 => c.slot \notin used)
             /\ \A i \in Fitting(item, used) :
                   Fitting(item, used) = {i} => c.slot = slots[i].id
<1> DEFINE fit == Fitting(item, used)
           kin == CHOOSE s \in Range(slots) : s.parent = item.parent
           slot == slots[Min(fit)]
           c == Bound(item, used)
<1>1. \A i \in 1 .. Branch : slots[i].id \in Nat \ {0} /\ slots[i].arm \in Nat \ {0}
  <2>1. Round \in Nat /\ Round # 0
    BY DEF Round
  <2> QED
    BY <2>1, IdsOfPlan
<1>2. DOMAIN slots = 1 .. Branch
  BY DEF ArePlanned
<1>3. \A s \in Range(slots) : s.id \in Nat \ {0} /\ s.arm \in Nat \ {0}
  BY <1>1, <1>2 DEF Range
<1>4. kin \in Range(slots)
  OBVIOUS
<1>5. c = IF fit = {} THEN Child(item.text, kin.arm, 0, item.parent)
          ELSE IF slot.restart THEN Child(item.text, Cardinality(Texts) + slot.id, slot.id, 0)
          ELSE Child(item.text, slot.arm, slot.id, item.parent)
  BY DEF Bound
<1>6. \A t, r, s, p : LET d == Child(t, r, s, p)
                      IN  /\ d.text = t /\ d.root = r /\ d.slot = s /\ d.parent = p
                          /\ t \in Texts /\ r \in Nat \ {0} /\ s \in Nat => IsCandidate(d)
  BY DEF Child, IsCandidate
<1> HIDE DEF fit, kin, slot, c
<1>7. CASE fit = {}
  <2>1. c = Child(item.text, kin.arm, 0, item.parent)
    BY <1>5, <1>7
  <2>2. kin.arm \in Nat \ {0}
    BY <1>3, <1>4
  <2>3. IsCandidate(c) /\ c.slot = 0
    BY <2>1, <2>2, <1>6
  <2> QED
    BY <2>3, <1>7 DEF IsBound, c, fit
<1>8. CASE fit # {}
  <2>1. fit \subseteq 1 .. Branch
    BY <1>2 DEF fit, Fitting
  <2>2. fit \in SUBSET Nat
    BY <2>1, Numbers
  <2>3. Min(fit) \in fit
    BY <2>2, <1>8, MinOfNumbers
  <2>4. /\ slot \in Range(slots) /\ slot.id \notin used
        /\ \A i \in fit : fit = {i} => slot = slots[i]
    BY <2>1, <2>3, <1>2 DEF slot, Range, fit, Fitting
  <2>5. slot.id \in Nat \ {0} /\ slot.arm \in Nat \ {0}
    BY <2>4, <1>3
  <2>6. CASE slot.restart
    <3>1. c = Child(item.text, Cardinality(Texts) + slot.id, slot.id, 0)
      BY <1>5, <1>8, <2>6
    <3> DEFINE root == Cardinality(Texts) + slot.id
    <3>2. root \in Nat \ {0}
      BY <2>5, TextsAreNumbers
    <3>3. /\ IsCandidate(c) /\ c.slot = slot.id /\ c.parent = 0
          /\ c.root = Cardinality(Texts) + slot.id
      <4> HIDE DEF root
      <4>1. c = Child(item.text, root, slot.id, 0)
        BY <3>1 DEF root
      <4>2. IsCandidate(c) /\ c.slot = slot.id /\ c.parent = 0 /\ c.root = root
        BY <4>1, <3>2, <2>5, <1>6
      <4> QED
        BY <4>2 DEF root
    <3>4. IsBound(c)
      BY <3>3, <2>4 DEF IsBound, OfSlot
    <3> QED
      BY <3>3, <3>4, <2>4 DEF c, fit
  <2>7. CASE ~slot.restart
    <3>1. c = Child(item.text, slot.arm, slot.id, item.parent)
      BY <1>5, <1>8, <2>7
    <3>2. IsCandidate(c) /\ c.slot = slot.id /\ c.root = slot.arm
      BY <3>1, <2>5, <1>6
    <3>3. IsBound(c)
      BY <3>2, <2>4 DEF IsBound, OfSlot
    <3> QED
      BY <3>2, <3>3, <2>4 DEF c, fit
  <2> QED
    BY <2>6, <2>7
<1> QED
  BY <1>7, <1>8

\* The children of a batch: no two of them have the same slot.
LEMMA BindAllEffect ==
  ASSUME ArePlanned(slots, Round), Len(history) \in Nat, NEW items, Len(items) \in Nat,
         \A k \in 1 .. Len(items) : /\ items[k].text \in Texts
                                    /\ items[k].parent \in {s.parent : s \in Range(slots)}
  PROVE  LET b == BindAll(items)
         IN  /\ b \in Seq(Range(b)) /\ DOMAIN b = 1 .. Len(items)
             /\ \A k \in DOMAIN b : IsCandidate(b[k]) /\ IsBound(b[k])
             /\ \A i, j \in DOMAIN b : i # j /\ b[i].slot # 0 => b[i].slot # b[j].slot
<1> DEFINE n == Len(items)
<1>1. PICK f : Binding(f, items) /\ BindAll(items) = f[Len(items)]
  BY BindUnfolds
<1>2. f[0] = <<>> /\ BindAll(items) = f[n]
  BY <1>1 DEF Binding
<1>3. \A k \in Nat : k + 1 <= n =>
         f[k + 1] = Append(f[k], Bound(items[k + 1], {c.slot : c \in Range(f[k])}))
  BY <1>1 DEF Binding
<1>4. n \in Nat
  OBVIOUS
<1> DEFINE P(b, k) == /\ b \in Seq(Range(b)) /\ DOMAIN b = 1 .. k /\ Len(b) = k
                      /\ \A i \in DOMAIN b : IsCandidate(b[i]) /\ IsBound(b[i])
                      /\ \A i, j \in DOMAIN b :
                            i # j /\ b[i].slot # 0 => b[i].slot # b[j].slot
           N == {k \in Nat : k <= n => P(f[k], k)}
<1>5. 0 \in N
  <2>1. P(<<>>, 0)
    <3>1. <<>> \in Seq(Range(<<>>)) /\ DOMAIN <<>> = {} /\ Len(<<>>) = 0 /\ 1 .. 0 = {}
      BY DEF Range
    <3> QED
      BY <3>1
  <2> HIDE DEF P
  <2> QED
    BY <2>1, <1>2
<1>6. ASSUME NEW k \in Nat, k \in N PROVE k + 1 \in N
  <2> SUFFICES ASSUME k + 1 <= n PROVE P(f[k + 1], k + 1)
    BY <1>6
  <2> HIDE DEF n
  <2> DEFINE b == f[k]
             used == {c.slot : c \in Range(b)}
             e == Bound(items[k + 1], used)
             g == Append(b, e)
  <2>1. P(b, k)
    <3> HIDE DEF P
    <3>1. k <= n
      BY <1>4
    <3> QED
      BY <3>1, <1>6
  <2>2. f[k + 1] = g
    BY <1>3
  <2> HIDE DEF b
  <2>3. k + 1 \in 1 .. n
    BY <1>4
  <2>4. IsCandidate(e) /\ IsBound(e) /\ (e.slot # 0 => e.slot \notin used)
    BY <2>3, BoundEffect DEF n
  <2> HIDE DEF e, g
  <2>5. /\ g \in Seq(Range(g)) /\ Len(g) = k + 1 /\ DOMAIN g = 1 .. k + 1
        /\ g[k + 1] = e /\ \A i \in DOMAIN b : g[i] = b[i]
    BY <2>1, AppendEffect DEF g
  <2>6. \A i \in DOMAIN g : i = k + 1 \/ i \in DOMAIN b
    BY <2>1, <2>5
  <2>7. \A i \in DOMAIN b : b[i].slot \in used
    BY DEF Range
  <2> HIDE DEF used
  <2>8. \A i \in DOMAIN g : IsCandidate(g[i]) /\ IsBound(g[i])
    BY <2>1, <2>4, <2>5, <2>6
  <2>9. \A i, j \in DOMAIN g : i # j /\ g[i].slot # 0 => g[i].slot # g[j].slot
    <3> SUFFICES ASSUME NEW i \in DOMAIN g, NEW j \in DOMAIN g, i # j, g[i].slot # 0
                 PROVE  g[i].slot # g[j].slot
      OBVIOUS
    <3>1. CASE i = k + 1 /\ j \in DOMAIN b
      BY <3>1, <2>4, <2>5, <2>7
    <3>2. CASE j = k + 1 /\ i \in DOMAIN b
      BY <3>2, <2>4, <2>5, <2>7
    <3>3. CASE i \in DOMAIN b /\ j \in DOMAIN b
      BY <3>3, <2>1, <2>5
    <3> QED
      BY <3>1, <3>2, <3>3, <2>6
  <2>10. P(g, k + 1)
    BY <2>5, <2>8, <2>9
  <2> HIDE DEF P
  <2> QED
    BY <2>2, <2>10
<1>7. P(f[n], n)
  <2> HIDE DEF P
  <2>1. \A k \in Nat : k \in N
    BY <1>5, <1>6, Induction
  <2> QED
    BY <2>1, <1>4
<1> QED
  BY <1>2, <1>7

\* What a harvest makes of some candidates no two of which have the same slot.
LEMMA SortedOut ==
  ASSUME NEW items, items \in Seq(Range(items)), NEW known,
         \A i, j \in DOMAIN items : i # j /\ items[i].slot # 0 => items[i].slot # items[j].slot
  PROVE  LET h == TakeAll(NewHarvest(Branch), items, known)
         IN  /\ IsHarvest(h) /\ AreApart(h, known) /\ ChildrenOf(h) = Range(items)
             /\ OnePerSlot(ChildrenOf(h)) /\ Apart(Range(h.accepted), RejectedOf(h))
<1> DEFINE none == NewHarvest(Branch)
           h == TakeAll(none, items, known)
<1>1. /\ IsHarvest(none) /\ Range(none.accepted) = {} /\ RejectedOf(none) = {}
      /\ AreApart(none, known)
  BY Numbers, NewHarvestIs
<1>2. IsHarvest(h) /\ AreApart(h, known) /\ Sorted(none, items, h)
  <2> HIDE DEF none
  <2> QED
    BY <1>1, TakeAllEffect
<1> HIDE DEF none, h
<1>3. PICK K \in SUBSET DOMAIN items :
         /\ Range(h.accepted) = {items[k] : k \in K}
         /\ RejectedOf(h) = {items[k] : k \in DOMAIN items \ K}
  BY <1>1, <1>2 DEF Sorted
<1>4. ChildrenOf(h) = Range(items)
  <2>1. \A k \in DOMAIN items : items[k] \in Range(h.accepted) \union RejectedOf(h)
    BY <1>3
  <2>2. \A c \in Range(h.accepted) \union RejectedOf(h) : \E k \in DOMAIN items : c = items[k]
    BY <1>3
  <2>3. Range(h.accepted) \union RejectedOf(h) = {items[k] : k \in DOMAIN items}
    BY <2>1, <2>2
  <2> QED
    BY <2>3 DEF ChildrenOf, Range
<1>5. OnePerSlot(ChildrenOf(h))
  BY <1>4 DEF OnePerSlot, Range
<1>6. Apart(Range(h.accepted), RejectedOf(h))
  <2> SUFFICES ASSUME NEW c \in Range(h.accepted), NEW d \in RejectedOf(h), c.slot # 0
               PROVE  c.slot # d.slot
    BY DEF Apart
  <2>1. PICK i \in K : c = items[i]
    BY <1>3
  <2>2. PICK j \in DOMAIN items \ K : d = items[j]
    BY <1>3
  <2> QED
    BY <2>1, <2>2
<1> QED
  BY <1>2, <1>4, <1>5, <1>6 DEF h, none

\* The harvest of a round: its children are accepted or refused, and no slot has two.
LEMMA GatheredEffect ==
  ASSUME NEW children, children \in Seq(Range(children)), NEW failed, NEW transport, NEW deduper,
         \A k \in DOMAIN children : IsCandidate(children[k]) /\ IsBound(children[k]),
         \A i, j \in DOMAIN children :
            i # j /\ children[i].slot # 0 => children[i].slot # children[j].slot
  PROVE  LET g == Gathered(children, failed, transport, deduper)
         IN  /\ g.failed = failed /\ g.transport = transport
             /\ g.accepted \in Seq(Range(g.accepted)) /\ g.rejected \in Seq(Range(g.rejected))
             /\ AreApart(g, {}) /\ ChildrenOf(g) = Range(children)
             /\ \A c \in ChildrenOf(g) : IsCandidate(c) /\ IsBound(c)
             /\ OnePerSlot(ChildrenOf(g)) /\ Apart(Range(g.accepted), RejectedOf(g))
<1> DEFINE h == TakeAll(NewHarvest(Branch), children, deduper)
           g == Gathered(children, failed, transport, deduper)
<1>1. /\ IsHarvest(h) /\ AreApart(h, deduper) /\ ChildrenOf(h) = Range(children)
      /\ OnePerSlot(ChildrenOf(h)) /\ Apart(Range(h.accepted), RejectedOf(h))
  BY SortedOut
<1>2. /\ g.accepted = h.accepted /\ g.rejected = h.rejected
      /\ g.failed = failed /\ g.transport = transport
  BY DEF Gathered
<1> HIDE DEF h, g
<1>3. RejectedOf(g) = RejectedOf(h) /\ ChildrenOf(g) = ChildrenOf(h)
  BY <1>2 DEF RejectedOf, ChildrenOf
<1>4. AreApart(g, {})
  BY <1>1, <1>2 DEF AreApart
<1>5. g.accepted \in Seq(Range(g.accepted)) /\ g.rejected \in Seq(Range(g.rejected))
  BY <1>1, <1>2 DEF IsHarvest
<1>6. \A c \in ChildrenOf(g) : IsCandidate(c) /\ IsBound(c)
  BY <1>1, <1>3 DEF Range
<1> QED
  BY <1>1, <1>2, <1>3, <1>4, <1>5, <1>6 DEF g

\* A step that puts the children of the round in hand.
LEMMA HandKeeps ==
  ASSUME IInv, phase \in {"slots", "batch"}, phase' = "offspring",
         UNCHANGED <<enrolled, issued, harvest, replies, live, stored, slots, history>>,
         hand'.accepted \in Seq(Range(hand'.accepted)),
         hand'.rejected \in Seq(Range(hand'.rejected)),
         AreApart(hand', {}), \A c \in ChildrenOf(hand') : IsCandidate(c) /\ IsBound(c),
         OnePerSlot(ChildrenOf(hand')), Apart(Range(hand'.accepted), RejectedOf(hand')),
         HandIsAccounted'
  PROVE  IInv'
<1>1. /\ Seeding /\ Rounds /\ phase \in Phases /\ Len(history) <= MaxRound
      /\ Len(history) < MaxRound
  BY PartsOfInvariant DEF Rounds, Asking
<1>2. Seeding'
  BY <1>1, SeedingRests DEF seeding
<1>3. CandidatesTyped'
  BY <1>1 DEF Rounds, CandidatesTyped
<1>4. CandidatesDiffer' /\ RoundsHaveSeeds'
  BY <1>1 DEF Rounds, CandidatesDiffer, RoundsHaveSeeds
<1>5. SlotsArePlanned'
  BY <1>1 DEF Rounds, SlotsArePlanned, Round, Asking
<1>6. SlotsOf(history)' = SlotsOf(history) /\ RefusedIn(history)' = RefusedIn(history)
  BY DEF SlotsOf, RefusedIn
<1>7. ChildrenAreBound'
  <2>1. /\ \A c \in live \union stored : c.slot # 0 =>
              \E s \in SlotsOf(history) :
                 OfSlot(c.slot, c.root, s) /\ (c.parent # 0 => c.root = s.arm)
        /\ OnePerSlot(live) /\ OnePerSlot(stored) /\ Apart(live, stored)
    BY <1>1 DEF Rounds, ChildrenAreBound
  <2>2. \A c \in ChildrenOf(hand') : c.slot # 0 =>
           \E s \in Range(slots) :
              OfSlot(c.slot, c.root, s) /\ (c.parent # 0 => c.root = s.arm)
    BY DEF IsBound
  <2> QED
    BY <2>1, <2>2, <1>6 DEF ChildrenAreBound
<1>8. RefusalsAreBound'
  BY <1>1, <1>6 DEF Rounds, RefusalsAreBound
<1>9. AnswersAccounted'
  BY <1>1 DEF Rounds, AnswersAccounted
<1>10. Rounds'
  BY <1>1, <1>3, <1>4, <1>5, <1>7, <1>8, <1>9 DEF Rounds
<1> QED
  BY <1>1, <1>2, <1>10, NextOfParts DEF Phases

\* Each slot is asked for its own child, and the harvest accounts for all of them.
LEMMA AnswerSlotsKeeps ==
  ASSUME IInv, AnswerSlots
  PROVE  IInv'
<1>1. /\ Rounds /\ phase = "slots" /\ ArePlanned(slots, Round) /\ Len(history) \in Nat
  BY PartsOfInvariant DEF AnswerSlots, Rounds, SlotsArePlanned, Asking, CandidatesTyped
<1>2. PICK deduper \in Dedupers, texts \in [DOMAIN slots -> ChildTexts \union {0}] :
         LET given == {i \in DOMAIN slots : texts[i] # 0}
             child(i) == Bound([text |-> texts[i], parent |-> slots[i].parent,
                                claim |-> slots[i].id], {})
         IN  IF given = {} THEN Interrupted
             ELSE /\ \E inOrder \in InOrder(given) :
                        hand' = Gathered([k \in DOMAIN inOrder |-> child(inOrder[k])],
                                         {slots[i].id : i \in SlotsFailed(texts)}, "slots",
                                         deduper)
                  /\ phase' = "offspring"
                  /\ UNCHANGED <<seeding, replies, live, stored, slots, refusal, history>>
  BY DEF AnswerSlots
<1> DEFINE given == {i \in DOMAIN slots : texts[i] # 0}
           child(i) == Bound([text |-> texts[i], parent |-> slots[i].parent,
                              claim |-> slots[i].id], {})
           failed == {slots[i].id : i \in SlotsFailed(texts)}
<1>3. CASE given = {}
  <2>1. Interrupted
    BY <1>2, <1>3
  <2> QED
    BY <2>1, <1>1, InterruptedKeeps DEF Asking
<1>4. CASE given # {}
  <2>1. PICK inOrder \in InOrder(given) :
           hand' = Gathered([k \in DOMAIN inOrder |-> child(inOrder[k])], failed, "slots", deduper)
    BY <1>2, <1>4
  <2>2. /\ phase' = "offspring"
        /\ UNCHANGED <<enrolled, issued, harvest, replies, live, stored, slots, history>>
    BY <1>2, <1>4 DEF seeding
  <2>3. DOMAIN slots = 1 .. Branch
    BY <1>1 DEF ArePlanned
  <2>4. \A i \in DOMAIN slots : slots[i].id \in Nat \ {0}
    <3>1. Round \in Nat /\ Round # 0
      BY <1>1 DEF Round
    <3> QED
      BY <3>1, <2>3, <1>1, IdsOfPlan
  <2>5. \A i, j \in DOMAIN slots : i # j => slots[i].id # slots[j].id
    <3>1. Round \in Nat /\ Round # 0
      BY <1>1 DEF Round
    <3>2. \A i \in 1 .. Branch : slots[i].id - Branch * (Round - 1) = i
      BY <3>1, <1>1, IdsOfPlan
    <3> QED
      BY <3>2, <2>3
  <2>6. \A i \in given : /\ IsCandidate(child(i)) /\ IsBound(child(i))
                         /\ child(i).slot = slots[i].id
    <3> SUFFICES ASSUME NEW i \in given
                 PROVE  /\ IsCandidate(child(i)) /\ IsBound(child(i))
                        /\ child(i).slot = slots[i].id
      OBVIOUS
    <3> DEFINE item == [text |-> texts[i], parent |-> slots[i].parent,
                        claim |-> slots[i].id]
    <3>1. /\ item.text = texts[i] /\ item.parent = slots[i].parent
          /\ item.claim = slots[i].id /\ child(i) = Bound(item, {})
      OBVIOUS
    <3> HIDE DEF item
    <3>2. texts[i] \in Texts
      BY BreedingAssumption
    <3>3. item.parent \in {s.parent : s \in Range(slots)}
      BY <3>1 DEF Range
    <3>4. Fitting(item, {}) = {i}
      BY <3>1, <2>4, <2>5 DEF Fitting
    <3> QED
      BY <3>1, <3>2, <3>3, <3>4, <1>1, BoundEffect
  <2> HIDE DEF child
  <2> DEFINE n == Cardinality(given)
             children == [k \in DOMAIN inOrder |-> child(inOrder[k])]
  <2>7. /\ inOrder \in [1 .. n -> given] /\ Range(inOrder) = given
        /\ \A i, j \in DOMAIN inOrder : i < j => inOrder[i] < inOrder[j]
    BY DEF InOrder
  <2>8. n \in Nat
    <3>1. IsFiniteSet(given)
      BY <2>3, Numbers, FS_Interval, FS_Subset
    <3> QED
      BY <3>1, FS_CardinalityType
  <2>9. \A i \in given : i \in DOMAIN slots /\ i \in Nat
    BY <2>3, Numbers
  <2> HIDE DEF n, given
  <2>10. \A i, j \in DOMAIN inOrder : i # j => inOrder[i] # inOrder[j]
    BY <2>7, <2>8, <2>9
  <2>11. /\ DOMAIN children = 1 .. n /\ DOMAIN inOrder = 1 .. n
         /\ \A k \in 1 .. n : children[k] = child(inOrder[k]) /\ inOrder[k] \in given
    BY <2>7
  <2>12. children \in Seq(Range(children))
    <3>1. children \in [1 .. n -> Range(children)]
      BY <2>7 DEF Range
    <3> HIDE DEF children
    <3> QED
      BY <3>1, <2>8
  <2> HIDE DEF children
  <2>13. \A k \in DOMAIN children : IsCandidate(children[k]) /\ IsBound(children[k])
    BY <2>6, <2>11
  <2>14. \A i, j \in DOMAIN children :
            i # j /\ children[i].slot # 0 => children[i].slot # children[j].slot
    <3> SUFFICES ASSUME NEW i \in 1 .. n, NEW j \in 1 .. n, i # j
                 PROVE  children[i].slot # children[j].slot
      BY <2>11
    <3>1. inOrder[i] # inOrder[j]
      BY <2>10, <2>11
    <3>2. slots[inOrder[i]].id # slots[inOrder[j]].id
      BY <3>1, <2>5, <2>9, <2>11
    <3> QED
      BY <3>2, <2>6, <2>11
  <2> DEFINE g == Gathered(children, failed, "slots", deduper)
  <2> HIDE DEF failed
  <2>15. /\ g.failed = failed /\ g.transport = "slots"
         /\ g.accepted \in Seq(Range(g.accepted)) /\ g.rejected \in Seq(Range(g.rejected))
         /\ AreApart(g, {}) /\ ChildrenOf(g) = Range(children)
         /\ \A c \in ChildrenOf(g) : IsCandidate(c) /\ IsBound(c)
         /\ OnePerSlot(ChildrenOf(g)) /\ Apart(Range(g.accepted), RejectedOf(g))
    BY <2>12, <2>13, <2>14, GatheredEffect
  <2>16. hand' = g
    BY <2>1 DEF children
  <2> HIDE DEF g
  <2>17. {c.slot : c \in Range(children)} = {slots[i].id : i \in given}
    <3>1. \A c \in Range(children) : \E i \in given : c.slot = slots[i].id
      BY <2>6, <2>11 DEF Range
    <3>2. \A i \in given : \E c \in Range(children) : c.slot = slots[i].id
      <4> SUFFICES ASSUME NEW i \in given PROVE \E c \in Range(children) : c.slot = slots[i].id
        OBVIOUS
      <4>1. PICK k \in DOMAIN inOrder : inOrder[k] = i
        BY <2>7 DEF Range
      <4>2. children[k] \in Range(children) /\ children[k].slot = slots[i].id
        BY <4>1, <2>6, <2>11 DEF Range
      <4> QED
        BY <4>2
    <3> QED
      BY <3>1, <3>2
  <2>18. HandIsAccounted'
    <3> DEFINE made == {c.slot : c \in Range(g.accepted)} \ {0}
               refused == {c.slot : c \in RejectedOf(g)}
    <3>1. made \union refused = {slots[i].id : i \in given}
      <4>1. {c.slot : c \in Range(g.accepted)} \union refused = {slots[i].id : i \in given}
        BY <2>15, <2>17 DEF ChildrenOf
      <4>2. 0 \notin {slots[i].id : i \in given}
        BY <2>4, <2>9
      <4> QED
        BY <4>1, <4>2
    <3>2. \A i \in DOMAIN slots : i \in given \/ i \in SlotsFailed(texts)
      BY DEF given, SlotsFailed
    <3>3. SlotsFailed(texts) \subseteq DOMAIN slots /\ given \subseteq DOMAIN slots
          /\ given \intersect SlotsFailed(texts) = {}
      BY DEF given, SlotsFailed
    <3>4. {slots[i].id : i \in given} \union failed = {s.id : s \in Range(slots)}
      BY <3>2, <3>3 DEF failed, Range
    <3>5. {slots[i].id : i \in given} \intersect failed = {}
      BY <3>3, <2>5 DEF failed
    <3> HIDE DEF made, refused
    <3>6. made \union refused \union failed = {s.id : s \in Range(slots)}
          /\ (made \union refused) \intersect failed = {}
      BY <3>1, <3>4, <3>5
    <3> QED
      BY <3>6, <2>2, <2>15, <2>16 DEF HandIsAccounted, made, refused
  <2> QED
    BY <2>2, <2>15, <2>16, <2>18, <1>1, HandKeeps
<1> QED
  BY <1>3, <1>4

\* The children of a single batch claim their slots; nothing is said of those that got none.
LEMMA AnswerBatchKeeps ==
  ASSUME IInv, AnswerBatch
  PROVE  IInv'
<1>1. /\ Rounds /\ phase = "batch" /\ ArePlanned(slots, Round) /\ Len(history) \in Nat
      /\ Seeding /\ phase \in Phases /\ Len(history) <= MaxRound
  BY PartsOfInvariant DEF AnswerBatch, Rounds, SlotsArePlanned, Asking, CandidatesTyped
<1>2. CASE /\ phase' = "slots"
           /\ UNCHANGED <<seeding, replies, live, stored, slots, hand, history>>
  <2>1. Seeding'
    BY <1>1, <1>2, SeedingRests
  <2>2. Rounds'
    <3>1. CandidatesTyped'
      BY <1>1, <1>2 DEF Rounds, CandidatesTyped
    <3>2. CandidatesDiffer' /\ RoundsHaveSeeds'
      BY <1>1, <1>2 DEF Rounds, CandidatesDiffer, RoundsHaveSeeds
    <3>3. SlotsArePlanned'
      BY <1>1, <1>2 DEF Rounds, SlotsArePlanned, Round, Asking
    <3>4. SlotsOf(history)' = SlotsOf(history) /\ RefusedIn(history)' = RefusedIn(history)
      BY <1>2 DEF SlotsOf, RefusedIn
    <3>5. ChildrenAreBound'
      BY <1>1, <1>2, <3>4 DEF Rounds, ChildrenAreBound
    <3>6. RefusalsAreBound'
      BY <1>1, <1>2, <3>4 DEF Rounds, RefusalsAreBound
    <3>7. HandIsAccounted' /\ AnswersAccounted'
      BY <1>1, <1>2 DEF Rounds, HandIsAccounted, AnswersAccounted
    <3> QED
      BY <1>1, <1>2, <3>1, <3>2, <3>3, <3>5, <3>6, <3>7 DEF Rounds, Asking
  <2> QED
    BY <1>1, <1>2, <2>1, <2>2, NextOfParts DEF Phases
<1>3. ASSUME NEW deduper, NEW items \in UNION {[1 .. n -> Items] : n \in 0 .. Branch},
             hand' = Gathered(BindAll(items), {}, "batch", deduper), phase' = "offspring",
             UNCHANGED <<seeding, replies, live, stored, slots, refusal, history>>
      PROVE  IInv'
  <2>1. PICK n \in 0 .. Branch : items \in [1 .. n -> Items]
    BY <1>3
  <2>2. n \in Nat /\ Len(items) = n
    BY <2>1, Numbers
  <2>3. \A k \in 1 .. Len(items) :
           items[k].text \in Texts /\ items[k].parent \in {s.parent : s \in Range(slots)}
    BY <2>1, <2>2, BreedingAssumption DEF Items
  <2> DEFINE b == BindAll(items)
  <2>4. /\ b \in Seq(Range(b)) /\ DOMAIN b = 1 .. Len(items)
        /\ \A k \in DOMAIN b : IsCandidate(b[k]) /\ IsBound(b[k])
        /\ \A i, j \in DOMAIN b : i # j /\ b[i].slot # 0 => b[i].slot # b[j].slot
    BY <2>2, <2>3, <1>1, BindAllEffect
  <2> HIDE DEF b
  <2> DEFINE g == Gathered(b, {}, "batch", deduper)
  <2>5. /\ g.failed = {} /\ g.transport = "batch"
        /\ g.accepted \in Seq(Range(g.accepted)) /\ g.rejected \in Seq(Range(g.rejected))
        /\ AreApart(g, {}) /\ ChildrenOf(g) = Range(b)
        /\ \A c \in ChildrenOf(g) : IsCandidate(c) /\ IsBound(c)
        /\ OnePerSlot(ChildrenOf(g)) /\ Apart(Range(g.accepted), RejectedOf(g))
    BY <2>4, GatheredEffect
  <2>6. hand' = g
    BY <1>3 DEF b
  <2> HIDE DEF g
  <2>7. HandIsAccounted'
    BY <2>5, <2>6 DEF HandIsAccounted
  <2> QED
    BY <2>5, <2>6, <2>7, <1>1, <1>3, HandKeeps DEF seeding
<1>4. CASE Interrupted
  BY <1>1, <1>4, InterruptedKeeps DEF Asking
<1> QED
  BY <1>2, <1>3, <1>4 DEF AnswerBatch

-----------------------------------------------------------------------------
(* The end of a round.                                                     *)

\* What a record keeps of refused candidates; the slots of some candidates are among the ids.
RefusalsOf(S) == {Refusal(c) : c \in S}
SlottedIn(S, ids) == \A c \in S : c.slot # 0 => c.slot \in ids

\* How sets without a common slot combine.
LEMMA ApartCombines ==
  /\ \A S, T : Apart(S, T) => Apart(T, S)
  /\ \A S, T, U : Apart(S, U) /\ T \subseteq S => Apart(T, U)
  /\ \A S, T, U : Apart(S, U) /\ Apart(T, U) => Apart(S \union T, U)
  /\ \A S, T : Apart(S, T) => Apart(S, RefusalsOf(T)) /\ Apart(RefusalsOf(S), RefusalsOf(T))
  /\ \A S, T, I, J : SlottedIn(S, I) /\ SlottedIn(T, J) /\ I \intersect J = {} => Apart(S, T)
<1>1. \A c : Refusal(c).slot = c.slot
  BY DEF Refusal
<1>2. ASSUME NEW S, NEW T, Apart(S, T) PROVE Apart(T, S)
  BY <1>2 DEF Apart
<1>3. ASSUME NEW S, NEW T, NEW U, Apart(S, U), T \subseteq S PROVE Apart(T, U)
  BY <1>3 DEF Apart
<1>4. ASSUME NEW S, NEW T, NEW U, Apart(S, U), Apart(T, U) PROVE Apart(S \union T, U)
  BY <1>4 DEF Apart
<1>5. ASSUME NEW S, NEW T, Apart(S, T)
      PROVE  Apart(S, RefusalsOf(T)) /\ Apart(RefusalsOf(S), RefusalsOf(T))
  BY <1>1, <1>5 DEF Apart, RefusalsOf
<1>6. ASSUME NEW S, NEW T, NEW I, NEW J, SlottedIn(S, I), SlottedIn(T, J),
             I \intersect J = {}
      PROVE  Apart(S, T)
  BY <1>6 DEF Apart, SlottedIn
<1> QED
  BY <1>2, <1>3, <1>4, <1>5, <1>6

\* How sets in which no slot has two combine.
LEMMA OnePerSlotCombines ==
  /\ \A S, T : OnePerSlot(S) /\ T \subseteq S => OnePerSlot(T) /\ Apart(T, S \ T)
  /\ \A S, T : OnePerSlot(S) /\ OnePerSlot(T) /\ Apart(S, T) => OnePerSlot(S \union T)
  /\ \A S : OnePerSlot(S) => OnePerSlot(RefusalsOf(S))
<1>1. \A c : Refusal(c).slot = c.slot
  BY DEF Refusal
<1>2. ASSUME NEW S, NEW T, OnePerSlot(S), T \subseteq S
      PROVE  OnePerSlot(T) /\ Apart(T, S \ T)
  BY <1>2 DEF Apart, OnePerSlot
<1>3. ASSUME NEW S, NEW T, OnePerSlot(S), OnePerSlot(T), Apart(S, T)
      PROVE  OnePerSlot(S \union T)
  <2> SUFFICES ASSUME NEW c \in S \union T, NEW d \in S \union T, c # d, c.slot # 0
               PROVE  c.slot # d.slot
    BY DEF OnePerSlot
  <2>1. CASE c \in S /\ d \in S
    BY <1>3, <2>1 DEF OnePerSlot
  <2>2. CASE c \in T /\ d \in T
    BY <1>3, <2>2 DEF OnePerSlot
  <2>3. CASE c \in S /\ d \in T
    BY <1>3, <2>3 DEF Apart
  <2>4. CASE c \in T /\ d \in S
    BY <1>3, <2>4 DEF Apart
  <2> QED
    BY <2>1, <2>2, <2>3, <2>4
<1>4. ASSUME NEW S, OnePerSlot(S) PROVE OnePerSlot(RefusalsOf(S))
  BY <1>1, <1>4 DEF OnePerSlot, RefusalsOf
<1> QED
  BY <1>2, <1>3, <1>4

\* The slots of the records have the ids up to a number, those of the round the ones above.
LEMMA IdsOfRun ==
  ASSUME SlotsArePlanned, history \in Seq(Range(history))
  PROVE  /\ \A s \in SlotsOf(history) :
               /\ s.id \in Nat \ {0} /\ s.arm \in Nat \ {0}
               /\ s.id <= Branch * Len(history)
         /\ \A s \in Range(slots) :
               /\ s.id \in Nat \ {0} /\ s.arm \in Nat \ {0}
               /\ s.id > Branch * Len(history)
         /\ Branch * Len(history) \in Nat
<1> DEFINE n == Len(history)
<1>1. n \in Nat /\ DOMAIN history = 1 .. n
  OBVIOUS
<1>2. Branch * n \in Nat
  BY <1>1, Numbers, GainIsProgress
<1>3. ASSUME NEW s \in SlotsOf(history)
      PROVE  s.id \in Nat \ {0} /\ s.arm \in Nat \ {0} /\ s.id <= Branch * n
  <2>1. PICK i \in DOMAIN history : s \in Range(history[i].slots)
    BY DEF SlotsOf
  <2>2. PICK j \in DOMAIN history[i].slots : s = history[i].slots[j]
    BY <2>1 DEF Range
  <2>3. ArePlanned(history[i].slots, i)
    BY <2>2 DEF SlotsArePlanned
  <2>4. i \in Nat /\ i # 0 /\ i <= n
    BY <1>1
  <2>5. j \in 1 .. Branch
    BY <2>2, <2>3 DEF ArePlanned
  <2>6. /\ s.id \in Nat \ {0} /\ s.arm \in Nat \ {0}
        /\ s.id <= Branch * (i - 1) + Branch /\ Branch * (i - 1) \in Nat
    BY <2>2, <2>3, <2>4, <2>5, IdsOfPlan
  <2>7. Branch * (i - 1) + Branch <= Branch * n
    <3>1. i - 1 \in Nat /\ i - 1 < n
      BY <2>4, <1>1
    <3> QED
      BY <3>1, <1>1, Numbers, GainIsProgress
  <2> DEFINE a == Branch * (i - 1)
             b == Branch * n
  <2> HIDE DEF a, b
  <2>8. s.id <= a + Branch /\ a + Branch <= b /\ a \in Nat /\ b \in Nat
    BY <2>6, <2>7, <1>2 DEF a, b
  <2>9. s.id <= b
    BY <2>6, <2>8, Numbers
  <2> QED
    BY <2>6, <2>9 DEF b
<1>4. ASSUME NEW s \in Range(slots)
      PROVE  s.id \in Nat \ {0} /\ s.arm \in Nat \ {0} /\ s.id > Branch * n
  <2>1. PICK j \in DOMAIN slots : s = slots[j]
    BY DEF Range
  <2>2. ArePlanned(slots, Round)
    BY <2>1 DEF SlotsArePlanned
  <2>3. Round \in Nat /\ Round # 0 /\ Round - 1 = n
    BY <1>1 DEF Round
  <2>4. j \in 1 .. Branch
    BY <2>1, <2>2 DEF ArePlanned
  <2>5. /\ s.id \in Nat \ {0} /\ s.arm \in Nat \ {0} /\ Branch * (Round - 1) < s.id
    BY <2>1, <2>2, <2>3, <2>4, IdsOfPlan
  <2>6. Branch * n < s.id
    BY <2>3, <2>5
  <2> HIDE DEF n
  <2> DEFINE b == Branch * n
  <2> HIDE DEF b
  <2>7. b < s.id /\ b \in Nat
    BY <2>6, <1>2 DEF b
  <2>8. s.id > b
    BY <2>5, <2>7
  <2> QED
    BY <2>5, <2>8 DEF b
<1> QED
  BY <1>2, <1>3, <1>4

\* The children in hand have slots of this round, everybody else has one of the rounds before.
LEMMA HandIsNew ==
  ASSUME IInv
  PROVE  LET H == ChildrenOf(hand)
         IN  Apart(H, live) /\ Apart(H, stored) /\ Apart(H, RefusedIn(history))
<1> DEFINE H == ChildrenOf(hand)
           old == {s.id : s \in SlotsOf(history)}
           new == {s.id : s \in Range(slots)}
<1>1. Rounds
  BY PartsOfInvariant
<1>2. old \intersect new = {}
  <2> DEFINE b == Branch * Len(history)
  <2>1. /\ \A s \in SlotsOf(history) : s.id \in Nat /\ s.id <= b
        /\ \A s \in Range(slots) : s.id \in Nat /\ s.id > b
        /\ b \in Nat
    BY <1>1, IdsOfRun DEF Rounds, CandidatesTyped
  <2> HIDE DEF b
  <2> QED
    BY <2>1
<1>3. SlottedIn(live, old) /\ SlottedIn(stored, old)
  BY <1>1 DEF Rounds, ChildrenAreBound, SlottedIn, OfSlot
<1>4. SlottedIn(RefusedIn(history), old)
  BY <1>1 DEF Rounds, RefusalsAreBound, SlottedIn, OfSlot
<1>5. SlottedIn(H, new)
  BY <1>1 DEF Rounds, ChildrenAreBound, SlottedIn, OfSlot
<1>6. new \intersect old = {}
  BY <1>2
<1> HIDE DEF H, old, new
<1>7. Apart(H, live) /\ Apart(H, stored) /\ Apart(H, RefusedIn(history))
  BY <1>3, <1>4, <1>5, <1>6, ApartCombines, Zenon
<1> QED
  BY <1>7 DEF H

\* The offspring: the children in hand, and a sleeper that was woken.
LEMMA OffspringEffect ==
  ASSUME IInv, NEW woken \in {<<>>} \union {<<c>> : c \in stored}
  PROVE  LET o == hand.accepted \o woken
         IN  /\ Range(woken) \subseteq stored
             /\ o \in Seq(Range(o)) /\ Range(o) = Range(hand.accepted) \union Range(woken)
             /\ \A i, j \in DOMAIN o : i # j /\ o[i].slot # 0 => o[i].slot # o[j].slot
<1> DEFINE a == hand.accepted
           o == a \o woken
<1>1. Rounds /\ a \in Seq(Range(a)) /\ AreApart(hand, {}) /\ OnePerSlot(ChildrenOf(hand))
  BY PartsOfInvariant DEF Rounds, CandidatesTyped, ChildrenAreBound
<1>2. \A i, j \in DOMAIN a : i # j /\ a[i].slot # 0 => a[i].slot # a[j].slot
  <2> SUFFICES ASSUME NEW i \in DOMAIN a, NEW j \in DOMAIN a, i # j, a[i].slot # 0
               PROVE  a[i].slot # a[j].slot
    OBVIOUS
  <2>1. ~Alike(a[i], a[j])
    BY <1>1 DEF AreApart
  <2>2. a[i] # a[j]
    BY <2>1 DEF Alike
  <2>3. a[i] \in ChildrenOf(hand) /\ a[j] \in ChildrenOf(hand)
    BY DEF ChildrenOf, Range
  <2> QED
    BY <1>1, <2>2, <2>3 DEF OnePerSlot
<1>3. CASE woken = <<>>
  <2>1. o = a
    BY <1>1, <1>3, ConcatEmptySeq
  <2>2. Range(woken) = {}
    BY <1>3 DEF Range
  <2> HIDE DEF a
  <2> QED
    BY <2>1, <2>2, <1>1, <1>2 DEF a
<1>4. ASSUME NEW c \in stored, woken = <<c>> PROVE
        /\ Range(woken) \subseteq stored
        /\ o \in Seq(Range(o)) /\ Range(o) = Range(a) \union Range(woken)
        /\ \A i, j \in DOMAIN o : i # j /\ o[i].slot # 0 => o[i].slot # o[j].slot
  <2>1. o = Append(a, c)
    <3> DEFINE R == Range(a) \union {c}
    <3>1. a \in Seq(R) /\ c \in R
      <4>1. Range(a) \subseteq R
        OBVIOUS
      <4> HIDE DEF R, a
      <4>2. a \in Seq(R)
        BY <4>1, <1>1
      <4> QED
        BY <4>2 DEF R
    <3> HIDE DEF R, a
    <3> QED
      BY <3>1, <1>4, AppendIsConcat
  <2>2. Range(woken) = {c}
    BY <1>4 DEF Range
  <2> HIDE DEF a, o
  <2> DEFINE n == Len(a)
  <2>3. /\ o \in Seq(Range(o)) /\ Range(o) = Range(a) \union {c}
        /\ DOMAIN o = 1 .. n + 1 /\ DOMAIN a = 1 .. n
        /\ o[n + 1] = c /\ \A i \in DOMAIN a : o[i] = a[i]
    BY <2>1, <1>1, AppendEffect
  <2>4. Apart(ChildrenOf(hand), stored) /\ Apart(stored, ChildrenOf(hand))
    BY HandIsNew, ApartCombines
  <2>5. \A i \in DOMAIN a : a[i] \in ChildrenOf(hand)
    BY DEF ChildrenOf, Range, a
  <2>6. n \in Nat
    BY <1>1
  <2>7. \A i \in DOMAIN o : i = n + 1 \/ i \in DOMAIN a
    BY <2>3, <2>6
  <2>8. \A i, j \in DOMAIN o : i # j /\ o[i].slot # 0 => o[i].slot # o[j].slot
    <3> SUFFICES ASSUME NEW i \in DOMAIN o, NEW j \in DOMAIN o, i # j, o[i].slot # 0
                 PROVE  o[i].slot # o[j].slot
      OBVIOUS
    <3>1. CASE i = n + 1 /\ j \in DOMAIN a
      BY <3>1, <2>3, <2>4, <2>5 DEF Apart
    <3>2. CASE j = n + 1 /\ i \in DOMAIN a
      BY <3>2, <2>3, <2>4, <2>5 DEF Apart
    <3>3. CASE i \in DOMAIN a /\ j \in DOMAIN a
      BY <3>3, <2>3, <1>2
    <3> QED
      BY <3>1, <3>2, <3>3, <2>7
  <2> QED
    BY <2>2, <2>3, <2>8
<1> QED
  BY <1>3, <1>4

\* The end of a round: who was accepted, who was refused, and the slots both keep apart.
LEMMA IntegrateKeeps ==
  ASSUME IInv, Integrate
  PROVE  IInv'
<1>1. /\ Seeding /\ Rounds /\ phase \in Phases /\ phase = "offspring"
      /\ slots' = <<>> /\ hand' = NoHand
      /\ UNCHANGED <<seeding, replies>>
  BY PartsOfInvariant DEF Integrate
<1>2. PICK woken \in {<<>>} \union {<<c>> : c \in stored}, deduper \in Registered(live) :
         LET offspring == hand.accepted \o woken
             unique == TakeAll(NewHarvest(Branch), offspring, deduper)
             abstained == offspring = <<>> /\ hand.rejected = <<>>
         IN  /\ live' = live \union Range(unique.accepted)
             /\ stored' = stored \ Range(woken)
             /\ history' = Append(history, Recorded(unique))
             /\ phase' = IF unique.accepted # <<>> \/ abstained THEN "bred" ELSE "stopped"
  BY DEF Integrate
<1> DEFINE offspring == hand.accepted \o woken
           unique == TakeAll(NewHarvest(Branch), offspring, deduper)
           H == Range(hand.accepted)
           R == RejectedOf(hand)
           W == Range(woken)
           A == Range(unique.accepted)
           D == RejectedOf(unique)
           F == RefusedIn(history)
           rec == Recorded(unique)
<1>3. /\ live' = live \union A /\ stored' = stored \ W /\ history' = Append(history, rec)
      /\ phase' \in {"bred", "stopped"}
  BY <1>2
<1>4. /\ W \subseteq stored
      /\ offspring \in Seq(Range(offspring)) /\ Range(offspring) = H \union W
      /\ \A i, j \in DOMAIN offspring :
            i # j /\ offspring[i].slot # 0 => offspring[i].slot # offspring[j].slot
  BY OffspringEffect
<1> HIDE DEF offspring
<1>5. /\ IsHarvest(unique) /\ AreApart(unique, deduper) /\ A \union D = H \union W
      /\ OnePerSlot(A \union D) /\ Apart(A, D)
  <2>1. /\ IsHarvest(unique) /\ AreApart(unique, deduper)
        /\ ChildrenOf(unique) = Range(offspring)
        /\ OnePerSlot(ChildrenOf(unique)) /\ Apart(A, D)
    BY <1>4, SortedOut
  <2>2. ChildrenOf(unique) = A \union D
    BY DEF ChildrenOf
  <2> QED
    BY <2>1, <2>2, <1>4
<1>6. /\ rec.transport = hand.transport /\ rec.slots = slots /\ rec.failed = hand.failed
      /\ rec.children = {c.slot : c \in H} \ {0}
      /\ rec.rejected = RefusalsOf(R) /\ rec.duplicates = RefusalsOf(D)
  <2>1. /\ {Refusal(r.candidate) : r \in Range(hand.rejected)} = RefusalsOf(R)
        /\ {Refusal(r.candidate) : r \in Range(unique.rejected)} = RefusalsOf(D)
    BY DEF RefusalsOf, RejectedOf
  <2>2. rec = [transport |-> hand.transport, slots |-> slots,
               children |-> {c.slot : c \in Range(hand.accepted)} \ {0},
               rejected |-> {Refusal(r.candidate) : r \in Range(hand.rejected)},
               duplicates |-> {Refusal(r.candidate) : r \in Range(unique.rejected)},
               failed |-> hand.failed]
    BY DEF Recorded
  <2> HIDE DEF rec, unique, R, D
  <2> QED
    BY <2>1, <2>2 DEF unique
<1> HIDE DEF unique, rec
<1> DEFINE n == Len(history)
<1>7. /\ history \in Seq(Range(history)) /\ n \in Nat /\ n < MaxRound
      /\ DOMAIN history = 1 .. n
  BY <1>1 DEF Rounds, CandidatesTyped, Asking
<1>8. /\ history' \in Seq(Range(history')) /\ Len(history') = n + 1
      /\ DOMAIN history' = 1 .. n + 1 /\ history'[n + 1] = rec
      /\ \A i \in DOMAIN history : history'[i] = history[i]
  BY <1>3, <1>7, AppendEffect
<1>9. ArePlanned(slots, n + 1)
  BY <1>1 DEF Rounds, SlotsArePlanned, Asking, Round
<1> HIDE DEF n
<1>10. \A i \in DOMAIN history' : i \in DOMAIN history \/ (i = n + 1 /\ history'[i] = rec)
  BY <1>7, <1>8
<1>11. /\ SlotsOf(history') = SlotsOf(history) \union Range(slots)
       /\ RefusedIn(history') = F \union (RefusalsOf(R) \union RefusalsOf(D))
  BY <1>3, <1>6, <1>7, AppendRecord
\* Who shares no slot with whom, and in what sets no slot has two.
<1>12. /\ OnePerSlot(live) /\ OnePerSlot(stored) /\ Apart(live, stored)
       /\ OnePerSlot(H \union R) /\ Apart(H, R)
       /\ OnePerSlot(F) /\ Apart(live \union stored, F)
  BY <1>1 DEF Rounds, ChildrenAreBound, RefusalsAreBound, ChildrenOf
<1>13. /\ Apart(H \union R, live) /\ Apart(H \union R, stored) /\ Apart(H \union R, F)
  BY HandIsNew DEF ChildrenOf
<1> DEFINE X == H \union W
<1> HIDE DEF H, R, W, A, D, F
<1>14. /\ OnePerSlot(R) /\ Apart(R, live) /\ Apart(R, stored) /\ Apart(R, F)
       /\ Apart(live, R) /\ Apart(stored, R) /\ Apart(F, R)
  <2>1. R \subseteq H \union R
    OBVIOUS
  <2>2. /\ OnePerSlot(R) /\ Apart(R, live) /\ Apart(R, stored) /\ Apart(R, F)
    BY <2>1, <1>12, <1>13, OnePerSlotCombines, ApartCombines, Zenon
  <2> QED
    BY <2>2, ApartCombines, Zenon
<1>15. /\ Apart(H, live) /\ Apart(H, stored) /\ Apart(H, F)
  <2>1. H \subseteq H \union R
    OBVIOUS
  <2> QED
    BY <2>1, <1>13, ApartCombines, Zenon
<1>16. /\ Apart(W, live) /\ Apart(W, stored \ W) /\ Apart(W, F) /\ Apart(W, R)
  <2>1. Apart(stored, live)
    BY <1>12, ApartCombines, Zenon
  <2>2. Apart(W, live) /\ Apart(W, R)
    BY <2>1, <1>4, <1>14, ApartCombines, Zenon
  <2>3. Apart(W, stored \ W)
    BY <1>4, <1>12, OnePerSlotCombines, Zenon
  <2>4. W \subseteq live \union stored
    BY <1>4
  <2>5. Apart(W, F)
    BY <2>4, <1>12, ApartCombines, Zenon
  <2> QED
    BY <2>2, <2>3, <2>5
<1>17. /\ Apart(X, live) /\ Apart(X, stored \ W) /\ Apart(X, F) /\ Apart(X, R)
  <2>1. Apart(H, stored \ W)
    <3>1. stored \ W \subseteq stored
      OBVIOUS
    <3>2. Apart(stored, H)
      BY <1>15, ApartCombines, Zenon
    <3>3. Apart(stored \ W, H)
      BY <3>1, <3>2, ApartCombines, Zenon
    <3> QED
      BY <3>3, ApartCombines, Zenon
  <2>2. Apart(H, live) /\ Apart(H, F) /\ Apart(H, R)
    BY <1>12, <1>15
  <2> QED
    BY <2>1, <2>2, <1>16, ApartCombines, Zenon
<1>18. \A T : Apart(X, T) => /\ Apart(A, T) /\ Apart(D, T) /\ Apart(T, A) /\ Apart(T, D)
  <2>1. A \subseteq X /\ D \subseteq X
    BY <1>5
  <2> HIDE DEF X
  <2>2. \A T : Apart(X, T) => Apart(A, T) /\ Apart(D, T)
    BY <2>1, ApartCombines, Zenon
  <2> QED
    BY <2>2, ApartCombines, Zenon
<1>19. OnePerSlot(A) /\ OnePerSlot(D)
  <2>1. A \subseteq A \union D /\ D \subseteq A \union D
    OBVIOUS
  <2> QED
    BY <2>1, <1>5, OnePerSlotCombines, Zenon
<1>20. /\ OnePerSlot(live \union A) /\ OnePerSlot(stored \ W)
       /\ Apart(live \union A, stored \ W)
  <2>1. stored \ W \subseteq stored
    OBVIOUS
  <2>2. Apart(live, A) /\ Apart(A, stored \ W)
    BY <1>17, <1>18
  <2>3. OnePerSlot(live \union A)
    BY <2>2, <1>12, <1>19, OnePerSlotCombines, Zenon
  <2>4. OnePerSlot(stored \ W)
    BY <2>1, <1>12, OnePerSlotCombines, Zenon
  <2>5. Apart(live, stored \ W)
    <3>1. Apart(stored, live)
      BY <1>12, ApartCombines, Zenon
    <3>2. Apart(stored \ W, live)
      BY <2>1, <3>1, ApartCombines, Zenon
    <3> QED
      BY <3>2, ApartCombines, Zenon
  <2> QED
    BY <2>2, <2>3, <2>4, <2>5, ApartCombines, Zenon
<1> DEFINE G == F \union (RefusalsOf(R) \union RefusalsOf(D))
<1>21. OnePerSlot(G)
  <2>1. OnePerSlot(RefusalsOf(R)) /\ OnePerSlot(RefusalsOf(D))
    BY <1>14, <1>19, OnePerSlotCombines, Zenon
  <2>2. Apart(R, D) /\ Apart(F, R) /\ Apart(F, D)
    BY <1>14, <1>17, <1>18
  <2>3. Apart(RefusalsOf(R), RefusalsOf(D))
    BY <2>2, ApartCombines, Zenon
  <2>4. OnePerSlot(RefusalsOf(R) \union RefusalsOf(D))
    BY <2>1, <2>3, OnePerSlotCombines, Zenon
  <2>5. Apart(F, RefusalsOf(R)) /\ Apart(F, RefusalsOf(D))
    BY <2>2, ApartCombines, Zenon
  <2>6. Apart(RefusalsOf(R), F) /\ Apart(RefusalsOf(D), F)
    BY <2>5, ApartCombines, Zenon
  <2>7. Apart(RefusalsOf(R) \union RefusalsOf(D), F)
    BY <2>6, ApartCombines, Zenon
  <2>8. Apart(F, RefusalsOf(R) \union RefusalsOf(D))
    BY <2>7, ApartCombines, Zenon
  <2> QED
    BY <2>4, <2>8, <1>12, OnePerSlotCombines, Zenon
<1> DEFINE L == (live \union A) \union (stored \ W)
<1>22. Apart(L, G)
  <2>1. \A T : Apart(live, T) /\ Apart(A, T) /\ Apart(stored, T) => Apart(L, T)
    <3> SUFFICES ASSUME NEW T, Apart(live, T), Apart(A, T), Apart(stored, T)
                 PROVE  Apart(L, T)
      OBVIOUS
    <3>1. Apart(live \union A, T)
      BY ApartCombines, Zenon
    <3>2. stored \ W \subseteq stored
      OBVIOUS
    <3>3. Apart(stored \ W, T)
      BY <3>2, ApartCombines, Zenon
    <3> QED
      BY <3>1, <3>3, ApartCombines, Zenon
  <2>2. L \subseteq (live \union A) \union (stored \ W)
    OBVIOUS
  <2>3. Apart(live, F) /\ Apart(stored, F)
    <3>1. live \subseteq live \union stored /\ stored \subseteq live \union stored
      OBVIOUS
    <3> QED
      BY <3>1, <1>12, ApartCombines, Zenon
  <2>4. Apart(L, F)
    BY <2>1, <2>3, <1>17, <1>18
  <2>5. Apart(L, R)
    BY <2>1, <1>14, <1>17, <1>18
  <2>6. Apart(L, D)
    <3>1. Apart(live, D) /\ Apart(stored \ W, D) /\ Apart(A, D)
      BY <1>5, <1>17, <1>18
    <3>2. Apart(live \union A, D)
      BY <3>1, ApartCombines, Zenon
    <3> QED
      BY <3>1, <3>2, ApartCombines, Zenon
  <2> HIDE DEF L
  <2>7. Apart(L, RefusalsOf(R)) /\ Apart(L, RefusalsOf(D))
    BY <2>5, <2>6, ApartCombines, Zenon
  <2>8. /\ Apart(F, L) /\ Apart(RefusalsOf(R), L) /\ Apart(RefusalsOf(D), L)
    BY <2>4, <2>7, ApartCombines, Zenon
  <2>9. Apart(RefusalsOf(R) \union RefusalsOf(D), L)
    BY <2>8, ApartCombines, Zenon
  <2>10. Apart(G, L)
    BY <2>8, <2>9, ApartCombines, Zenon
  <2> QED
    BY <2>10, ApartCombines, Zenon
<1> HIDE DEF X, G, L
\* The parts of the invariant, one by one.
<1>23. Seeding'
  BY <1>1, <1>3, SeedingRests DEF Asking
<1>24. CandidatesTyped'
  <2>1. IsFiniteSet(live) /\ IsFiniteSet(stored)
    BY <1>1 DEF Rounds, CandidatesTyped
  <2>2. IsFiniteSet(A)
    BY <1>5, RangeIsFinite DEF IsHarvest, A
  <2>3. IsFiniteSet(live') /\ IsFiniteSet(stored')
    BY <2>1, <2>2, <1>3, FS_Union, FS_Subset
  <2>4. \A c \in live \union stored \union H : IsCandidate(c)
    BY <1>1 DEF Rounds, CandidatesTyped, ChildrenOf, H
  <2>5. \A c \in live' \union stored' : IsCandidate(c)
    BY <2>4, <1>3, <1>4, <1>5
  <2>6. \A c \in live' \union stored' \union ChildrenOf(hand') : IsCandidate(c)
    BY <2>5, <1>1, NoHandIs
  <2> QED
    BY <2>3, <2>6, <1>1, <1>8, NoHandIs DEF CandidatesTyped
<1>25. CandidatesDiffer'
  <2>1. ASSUME NEW c \in A, NEW d \in A, c # d PROVE ~Alike(c, d)
    <3>1. PICK i \in DOMAIN unique.accepted : c = unique.accepted[i]
      BY DEF Range, A
    <3>2. PICK j \in DOMAIN unique.accepted : d = unique.accepted[j]
      BY DEF Range, A
    <3> QED
      BY <3>1, <3>2, <2>1, <1>5 DEF AreApart
  <2>2. \A c \in A, d \in deduper : ~Alike(c, d)
    BY <1>5 DEF AreApart, A
  <2>3. \A c \in live : c.text \in Texts
    BY <1>1 DEF Rounds, CandidatesTyped, IsCandidate
  <2> SUFFICES ASSUME NEW K \in Kinds, Differ({Seed(t) : t \in K \intersect Incumbents})
               PROVE  Differ({c \in live' : c.text \in K})
    BY DEF CandidatesDiffer
  <2>4. Differ({c \in live : c.text \in K})
    BY <1>1 DEF Rounds, CandidatesDiffer
  <2>5. Differ({c \in live \union A : c.text \in K})
    BY <2>1, <2>2, <2>3, <2>4, JoinersDiffer
  <2> QED
    BY <2>5, <1>3
<1>26. RoundsHaveSeeds'
  BY <1>1, <1>3 DEF Rounds, RoundsHaveSeeds
<1>27. SlotsArePlanned'
  <2>1. \A i \in DOMAIN history' : history'[i].slots = <<>> \/ ArePlanned(history'[i].slots, i)
    BY <1>1, <1>6, <1>8, <1>9, <1>10 DEF Rounds, SlotsArePlanned
  <2> QED
    BY <2>1, <1>1, <1>3 DEF SlotsArePlanned, Asking
<1>28. ChildrenAreBound'
  <2>1. /\ \A c \in live \union stored : c.slot # 0 =>
              \E s \in SlotsOf(history) :
                 OfSlot(c.slot, c.root, s) /\ (c.parent # 0 => c.root = s.arm)
        /\ \A c \in H : c.slot # 0 =>
              \E s \in Range(slots) :
                 OfSlot(c.slot, c.root, s) /\ (c.parent # 0 => c.root = s.arm)
    BY <1>1 DEF Rounds, ChildrenAreBound, ChildrenOf, H
  <2>2. live' \union stored' \subseteq live \union stored \union H
    BY <1>3, <1>4, <1>5
  <2>3. \A c \in live' \union stored' : c.slot # 0 =>
           \E s \in SlotsOf(history') :
              OfSlot(c.slot, c.root, s) /\ (c.parent # 0 => c.root = s.arm)
    BY <2>1, <2>2, <1>11
  <2>4. /\ ChildrenOf(hand') = {} /\ Range(hand'.accepted) = {}
        /\ OnePerSlot(ChildrenOf(hand')) /\ Apart(Range(hand'.accepted), RejectedOf(hand'))
    BY <1>1, NoHandIs DEF OnePerSlot, Apart
  <2>5. OnePerSlot(live') /\ OnePerSlot(stored') /\ Apart(live', stored')
    BY <1>3, <1>20
  <2> QED
    BY <2>3, <2>4, <2>5 DEF ChildrenAreBound
<1>29. RefusalsAreBound'
  <2>1. \A c : Refusal(c) = [slot |-> Refusal(c).slot, arm |-> Refusal(c).arm]
                 /\ Refusal(c).slot = c.slot
                 /\ Refusal(c).arm = IF c.slot = 0 THEN 0 ELSE c.root
    BY DEF Refusal
  <2>2. IsFiniteSet(rec.rejected) /\ IsFiniteSet(rec.duplicates)
    <3>1. ASSUME NEW h, h.rejected \in Seq(Range(h.rejected))
          PROVE  IsFiniteSet(RefusalsOf(RejectedOf(h)))
      <4> DEFINE S == Range(h.rejected)
                 f == [r \in S |-> Refusal(r.candidate)]
      <4>1. IsFiniteSet(S)
        BY <3>1, RangeIsFinite
      <4>2. RefusalsOf(RejectedOf(h)) = Range(f)
        BY DEF RefusalsOf, RejectedOf, Range
      <4>3. f = [r \in S |-> f[r]]
        OBVIOUS
      <4> HIDE DEF S, f
      <4> QED
        BY <4>1, <4>2, <4>3, ImageIsFinite
    <3>2. hand.rejected \in Seq(Range(hand.rejected))
      BY <1>1 DEF Rounds, CandidatesTyped
    <3>3. unique.rejected \in Seq(Range(unique.rejected))
      BY <1>5 DEF IsHarvest
    <3> QED
      BY <3>1, <3>2, <3>3, <1>6 DEF R, D
  <2>3. \A i \in DOMAIN history' :
           IsFiniteSet(history'[i].rejected) /\ IsFiniteSet(history'[i].duplicates)
    BY <2>2, <1>1, <1>8, <1>10 DEF Rounds, RefusalsAreBound
  <2>4. \A c \in R \union D : c.slot # 0 =>
           \E s \in SlotsOf(history') : OfSlot(c.slot, c.root, s)
    <3>1. /\ \A c \in stored : c.slot # 0 =>
                \E s \in SlotsOf(history) : OfSlot(c.slot, c.root, s)
          /\ \A c \in H \union R : c.slot # 0 =>
                \E s \in Range(slots) : OfSlot(c.slot, c.root, s)
      BY <1>1 DEF Rounds, ChildrenAreBound, ChildrenOf, H, R
    <3>2. R \union D \subseteq stored \union (H \union R)
      BY <1>4, <1>5
    <3> QED
      BY <3>1, <3>2, <1>11
  <2>5. ASSUME NEW r \in G
        PROVE  /\ r = [slot |-> r.slot, arm |-> r.arm] /\ (r.slot = 0 => r.arm = 0)
               /\ r.slot # 0 => \E s \in SlotsOf(history') : OfSlot(r.slot, r.arm, s)
    <3>1. CASE r \in F
      BY <3>1, <1>1, <1>11 DEF Rounds, RefusalsAreBound, F
    <3>2. CASE r \in RefusalsOf(R) \union RefusalsOf(D)
      <4>1. PICK c \in R \union D : r = Refusal(c)
        BY <3>2 DEF RefusalsOf
      <4> QED
        BY <4>1, <2>1, <2>4
    <3> QED
      BY <3>1, <3>2 DEF G
  <2>6. G = RefusedIn(history') /\ L = live' \union stored'
    BY <1>3, <1>11 DEF G, L
  <2> QED
    BY <2>3, <2>5, <2>6, <1>21, <1>22 DEF RefusalsAreBound
<1>30. HandIsAccounted'
  BY <1>3 DEF HandIsAccounted
<1>31. AnswersAccounted'
  <2> SUFFICES ASSUME NEW i \in DOMAIN history'
               PROVE  LET r == history'[i]
                          refused == {x.slot : x \in r.rejected}
                      IN  /\ r.transport = "slots" =>
                               r.children \union refused \union r.failed
                                  = {s.id : s \in Range(r.slots)}
                          /\ r.children \intersect refused = {}
                          /\ (r.children \union refused) \intersect r.failed = {}
    BY DEF AnswersAccounted
  <2>1. CASE i \in DOMAIN history
    BY <2>1, <1>1, <1>8 DEF Rounds, AnswersAccounted
  <2>2. CASE history'[i] = rec
    <3> DEFINE children == {c.slot : c \in H} \ {0}
               refused == {c.slot : c \in R}
    <3>1. {x.slot : x \in rec.rejected} = refused
      <4>1. \A c : Refusal(c).slot = c.slot
        BY DEF Refusal
      <4>2. \A c \in R : Refusal(c) \in rec.rejected
        BY <1>6 DEF RefusalsOf
      <4>3. \A x \in rec.rejected : \E c \in R : x = Refusal(c)
        BY <1>6 DEF RefusalsOf
      <4> QED
        BY <4>1, <4>2, <4>3
    <3>2. /\ hand.transport = "slots" =>
                children \union refused \union hand.failed = {s.id : s \in Range(slots)}
          /\ (children \union refused) \intersect hand.failed = {}
      BY <1>1 DEF Rounds, HandIsAccounted, H, R
    <3>3. children \intersect refused = {}
      BY <1>12 DEF Apart
    <3>4. rec.children = children
      BY <1>6
    <3> HIDE DEF children, refused
    <3> QED
      BY <2>2, <3>1, <3>2, <3>3, <3>4, <1>6
  <2> QED
    BY <2>1, <2>2, <1>10
<1>32. Rounds'
  BY <1>3, <1>24, <1>25, <1>26, <1>27, <1>28, <1>29, <1>30, <1>31 DEF Rounds, Asking
<1>33. phase' \in Phases /\ Len(history') <= MaxRound
  <2>1. n + 1 <= MaxRound
    BY <1>7, Numbers
  <2> QED
    BY <2>1, <1>3, <1>8 DEF Phases
<1> QED
  BY <1>23, <1>32, <1>33, NextOfParts

-----------------------------------------------------------------------------
(* The invariant.                                                          *)

\* A step that changes nothing.
LEMMA RestKeeps ==
  ASSUME IInv, UNCHANGED vars
  PROVE  IInv'
<1>1. /\ Seeding /\ Rounds /\ phase \in Phases /\ Len(history) <= MaxRound
      /\ UNCHANGED <<phase, enrolled, issued, harvest, replies, live, stored, slots, hand, history>>
  BY PartsOfInvariant DEF vars, seeding
<1>2. Seeding'
  <2>1. SeedsTyped' /\ AreApart(harvest', enrolled')
    BY <1>1 DEF Seeding, SeedsTyped
  <2>2. WindowsProgress' /\ SeedingWearsOut'
    BY <1>1 DEF Seeding, WindowsProgress, Closed, SeedingWearsOut
  <2> QED
    BY <2>1, <2>2 DEF Seeding
<1> QED
  BY <1>1, <1>2, SeedingSteps

\* The inductive invariant holds in every state.
THEOREM Invariance == Spec => []IInv
<1>1. Init => IInv
  BY InitIInv
<1>2. IInv /\ [Next]_vars => IInv'
  <2> SUFFICES ASSUME IInv, [Next]_vars PROVE IInv'
    OBVIOUS
  <2>1. CASE OpenWindow
    BY <2>1, OpenWindowKeeps
  <2>2. CASE CloseWindow
    BY <2>2, CloseWindowKeeps
  <2>3. CASE EndSeeding
    BY <2>3, EndSeedingKeeps
  <2>4. CASE SeedingFails
    BY <2>4, SeedingFailsKeeps
  <2>5. CASE Resume
    BY <2>5, ResumeKeeps
  <2>6. CASE Measure
    BY <2>6, MeasureKeeps
  <2>7. CASE Allocate
    BY <2>7, AllocateKeeps
  <2>8. CASE AnswerSlots
    BY <2>8, AnswerSlotsKeeps
  <2>9. CASE AnswerBatch
    BY <2>9, AnswerBatchKeeps
  <2>10. CASE Integrate
    BY <2>10, IntegrateKeeps
  <2>11. CASE Interrupt
    BY <2>11, InterruptedKeeps DEF Interrupt, Asking
  <2>12. CASE Rest \/ UNCHANGED vars
    BY <2>12, RestKeeps DEF Rest
  <2>13. ASSUME NEW k \in DOMAIN replies, AnswerSeed(k) PROVE IInv'
    BY <2>13, AnswerSeedKeeps
  <2> QED
    BY <2>1, <2>2, <2>3, <2>4, <2>5, <2>6, <2>7, <2>8, <2>9, <2>10, <2>11, <2>12, <2>13
    DEF Next
<1> QED
  BY <1>1, <1>2, PTL DEF Spec

-----------------------------------------------------------------------------
(* What follows from it.                                                   *)

\* The shapes of the state.
THEOREM TypeCorrect == Spec => []TypeOK
<1>1. IInv => TypeOK
  BY DEF IInv
<1> QED
  BY <1>1, Invariance, PTL

\* Whatever the workers answer and in whatever order, two candidates that say the same or
\* materialise the same artifact are never both in the population, of any kind of texts in
\* which the operator provided no such two: a deduper that refuses a candidate of the
\* population registers nothing of it, and the theorem claims nothing of what is like that.
THEOREM PopulationDiffers == Spec => []CandidatesDiffer
<1>1. IInv => CandidatesDiffer
  BY DEF IInv
<1> QED
  BY <1>1, Invariance, PTL

\* Between two windows a harvest that low gain has not ended accounts for every request.
THEOREM EveryAnswerIsRead == Spec => []WindowsAreDrained
<1>1. IInv => WindowsAreDrained
  <2> SUFFICES ASSUME IInv, replies = <<>>, harvest.streak < Patience
               PROVE  harvest.batches = issued
    BY DEF WindowsAreDrained
  <2>1. issued \in Nat /\ harvest.batches = Closed
    BY DEF IInv, SeedsTyped, WindowsProgress
  <2>2. Closed = issued
    <3>1. Len(replies) = 0
      OBVIOUS
    <3> QED
      BY <2>1, <3>1 DEF Closed
  <2> QED
    BY <2>1, <2>2
<1> QED
  BY <1>1, Invariance, PTL

\* For any number of workers, patience and target the seeding has a bound on its requests.
THEOREM RequestsAreBounded == Spec => []SeedingWearsOut
<1>1. IInv => SeedingWearsOut
  BY DEF IInv
<1> QED
  BY <1>1, Invariance, PTL

\* No round begins without a population.
THEOREM SeedsFirst == Spec => []RoundsHaveSeeds
<1>1. IInv => RoundsHaveSeeds
  BY DEF IInv
<1> QED
  BY <1>1, Invariance, PTL

\* The record of every round accounts once for each of its slots.
THEOREM RecordsAccount == Spec => []AnswersAccounted
<1>1. IInv => AnswersAccounted
  BY DEF IInv
<1> QED
  BY <1>1, Invariance, PTL

\* Two slots of a round, or of two rounds, that have the same id are the same.
LEMMA PlacesOfIds ==
  ASSUME NEW i \in Nat \ {0}, NEW j \in Nat \ {0}, NEW p, ArePlanned(p, i),
         NEW q, ArePlanned(q, j), NEW a \in 1 .. Branch, NEW b \in 1 .. Branch,
         p[a].id = q[b].id
  PROVE  i = j /\ a = b
<1>1. /\ Branch * (i - 1) \in Nat /\ Branch * (i - 1) < p[a].id
      /\ p[a].id <= Branch * (i - 1) + Branch /\ p[a].id - Branch * (i - 1) = a
      /\ p[a].id \in Nat
  BY IdsOfPlan
<1>2. /\ Branch * (j - 1) \in Nat /\ Branch * (j - 1) < q[b].id
      /\ q[b].id <= Branch * (j - 1) + Branch /\ q[b].id - Branch * (j - 1) = b
  BY IdsOfPlan
<1>3. i < j => Branch * (i - 1) + Branch <= Branch * (j - 1)
  <2> SUFFICES ASSUME i < j PROVE Branch * (i - 1) + Branch <= Branch * (j - 1)
    OBVIOUS
  <2>1. i - 1 \in Nat /\ j - 1 \in Nat /\ i - 1 < j - 1
    OBVIOUS
  <2> QED
    BY <2>1, Numbers, GainIsProgress
<1>4. j < i => Branch * (j - 1) + Branch <= Branch * (i - 1)
  <2> SUFFICES ASSUME j < i PROVE Branch * (j - 1) + Branch <= Branch * (i - 1)
    OBVIOUS
  <2>1. i - 1 \in Nat /\ j - 1 \in Nat /\ j - 1 < i - 1
    OBVIOUS
  <2> QED
    BY <2>1, Numbers, GainIsProgress
<1> DEFINE x == Branch * (i - 1)
           y == Branch * (j - 1)
           z == p[a].id
<1>5. /\ x \in Nat /\ y \in Nat /\ z \in Nat /\ x < z /\ z <= x + Branch /\ y < z
      /\ z <= y + Branch /\ z - x = a /\ z - y = b
      /\ (i < j => x + Branch <= y) /\ (j < i => y + Branch <= x)
  BY <1>1, <1>2, <1>3, <1>4
<1> HIDE DEF x, y, z
<1>6. ~(i < j) /\ ~(j < i)
  BY <1>5, Numbers
<1>7. i = j
  BY <1>6
<1>8. x = y
  BY <1>7 DEF x, y
<1>9. a = b
  BY <1>5, <1>8
<1> QED
  BY <1>7, <1>9

\* A slot is known by its id.
LEMMA IdIsOne ==
  ASSUME SlotsArePlanned, history \in Seq(Range(history)),
         NEW s \in SlotsOf(history) \union Range(slots),
         NEW t \in SlotsOf(history), s.id = t.id
  PROVE  s = t
<1>1. CASE s \in SlotsOf(history)
  <2>1. PICK i \in DOMAIN history : s \in Range(history[i].slots)
    BY <1>1 DEF SlotsOf
  <2>2. PICK a \in DOMAIN history[i].slots : s = history[i].slots[a]
    BY <2>1 DEF Range
  <2>3. PICK j \in DOMAIN history : t \in Range(history[j].slots)
    BY DEF SlotsOf
  <2>4. PICK b \in DOMAIN history[j].slots : t = history[j].slots[b]
    BY <2>3 DEF Range
  <2>5. /\ ArePlanned(history[i].slots, i) /\ a \in 1 .. Branch /\ i \in Nat \ {0}
        /\ ArePlanned(history[j].slots, j) /\ b \in 1 .. Branch /\ j \in Nat \ {0}
    <3>1. i \in Nat \ {0} /\ j \in Nat \ {0}
      OBVIOUS
    <3>2. history[i].slots # <<>> /\ history[j].slots # <<>>
      BY <2>2, <2>4
    <3>3. ArePlanned(history[i].slots, i) /\ ArePlanned(history[j].slots, j)
      BY <3>2 DEF SlotsArePlanned
    <3>4. a \in 1 .. Branch /\ b \in 1 .. Branch
      BY <3>3, <2>2, <2>4 DEF ArePlanned
    <3> QED
      BY <3>1, <3>3, <3>4
  <2>6. i = j /\ a = b
    BY <2>2, <2>4, <2>5, PlacesOfIds
  <2> QED
    BY <2>2, <2>4, <2>6
<1>2. CASE s \in Range(slots)
  <2> DEFINE m == Branch * Len(history)
  <2>1. s.id > m /\ t.id <= m /\ m \in Nat /\ s.id \in Nat /\ t.id \in Nat
    BY <1>2, IdsOfRun
  <2> HIDE DEF m
  <2> QED
    BY <2>1
<1> QED
  BY <1>1, <1>2

\* A slot of the round is known by its id among those of the round.
LEMMA IdIsOneInRound ==
  ASSUME SlotsArePlanned, history \in Seq(Range(history)),
         NEW s \in Range(slots), NEW t \in Range(slots), s.id = t.id
  PROVE  s = t
<1>1. PICK a \in DOMAIN slots : s = slots[a]
  BY DEF Range
<1>2. PICK b \in DOMAIN slots : t = slots[b]
  BY DEF Range
<1>3. ArePlanned(slots, Round) /\ a \in 1 .. Branch /\ b \in 1 .. Branch
      /\ Round \in Nat \ {0}
  <2>1. slots # <<>>
    BY <1>1
  <2>2. ArePlanned(slots, Round)
    BY <2>1 DEF SlotsArePlanned
  <2>3. a \in 1 .. Branch /\ b \in 1 .. Branch
    BY <1>1, <1>2, <2>2 DEF ArePlanned
  <2>4. Round \in Nat \ {0}
    BY DEF Round
  <2> QED
    BY <2>2, <2>3, <2>4
<1>4. a = b
  BY <1>1, <1>2, <1>3, PlacesOfIds
<1> QED
  BY <1>1, <1>2, <1>4

\* A slot id is planned once, no slot has two children, and a child is of its slot's lineage or
\* the root of its own: for any number of rounds and slots, and whatever the children claim.
THEOREM OneChildPerSlot == Spec => []SlotsBoundOnce
<1>1. ASSUME IInv PROVE SlotsBoundOnce
  <2> DEFINE H == Range(hand.accepted)
             children == live \union stored \union H
             planned(i) == {s.id : s \in Range(history[i].slots)}
  <2>1. Rounds /\ history \in Seq(Range(history)) /\ SlotsArePlanned /\ ChildrenAreBound
    BY <1>1, PartsOfInvariant DEF Rounds, CandidatesTyped
  <2>2. ASSUME NEW i \in DOMAIN history, NEW j \in DOMAIN history, i # j
        PROVE  planned(i) \intersect planned(j) = {}
    <3> SUFFICES ASSUME NEW s \in Range(history[i].slots), NEW t \in Range(history[j].slots),
                        s.id = t.id
                 PROVE  FALSE
      OBVIOUS
    <3>1. PICK a \in DOMAIN history[i].slots : s = history[i].slots[a]
      BY DEF Range
    <3>2. PICK b \in DOMAIN history[j].slots : t = history[j].slots[b]
      BY DEF Range
    <3>3. history[i].slots # <<>> /\ history[j].slots # <<>>
      BY <3>1, <3>2
    <3>4. ArePlanned(history[i].slots, i) /\ ArePlanned(history[j].slots, j)
      BY <2>1, <3>3 DEF SlotsArePlanned
    <3>5. a \in 1 .. Branch /\ b \in 1 .. Branch
      BY <3>1, <3>2, <3>4 DEF ArePlanned
    <3>6. i \in Nat \ {0} /\ j \in Nat \ {0}
      BY <2>1
    <3> QED
      BY <3>1, <3>2, <3>4, <3>5, <3>6, <2>2, PlacesOfIds
  <2>3. \A c, d \in children : c # d /\ c.slot # 0 => c.slot # d.slot
    <3>1. OnePerSlot(live) /\ OnePerSlot(stored) /\ Apart(live, stored)
          /\ OnePerSlot(ChildrenOf(hand))
      BY <2>1 DEF ChildrenAreBound
    <3>2. H \subseteq ChildrenOf(hand)
      BY DEF ChildrenOf
    <3>3. Apart(ChildrenOf(hand), live) /\ Apart(ChildrenOf(hand), stored)
      BY <1>1, HandIsNew
    <3> HIDE DEF H
    <3>4. OnePerSlot(H) /\ Apart(H, live) /\ Apart(H, stored)
      BY <3>1, <3>2, <3>3, OnePerSlotCombines, ApartCombines, Zenon
    <3>5. Apart(live, H) /\ Apart(stored, H)
      BY <3>4, ApartCombines, Zenon
    <3>6. OnePerSlot(live \union stored) /\ Apart(live \union stored, H)
      BY <3>1, <3>5, OnePerSlotCombines, ApartCombines, Zenon
    <3>7. OnePerSlot(live \union stored \union H)
      BY <3>4, <3>6, OnePerSlotCombines, Zenon
    <3> QED
      BY <3>7 DEF OnePerSlot
  <2>4. ASSUME NEW c \in children, NEW s \in SlotsOf(history) \union Range(slots),
               c.slot = s.id
        PROVE  c.root \in {s.arm, Cardinality(Texts) + s.id}
    <3> DEFINE m == Branch * Len(history)
    <3>1. /\ \A r \in SlotsOf(history) : r.id \in Nat \ {0} /\ r.id <= m
          /\ \A r \in Range(slots) : r.id \in Nat \ {0} /\ r.id > m
          /\ m \in Nat
      BY <2>1, IdsOfRun
    <3> HIDE DEF m
    <3>2. c.slot # 0
      BY <2>4, <3>1
    <3>3. CASE c \in live \union stored
      <4>1. PICK r \in SlotsOf(history) : OfSlot(c.slot, c.root, r)
        BY <2>1, <3>2, <3>3 DEF ChildrenAreBound
      <4>2. s.id = r.id
        BY <2>4, <4>1 DEF OfSlot
      <4>3. s = r
        BY <4>2, <2>1, IdIsOne
      <4> QED
        BY <4>1, <4>3 DEF OfSlot
    <3>4. CASE c \in H
      <4>1. PICK r \in Range(slots) : OfSlot(c.slot, c.root, r)
        BY <2>1, <3>2, <3>4 DEF ChildrenAreBound, ChildrenOf
      <4>2. s.id = r.id
        BY <2>4, <4>1 DEF OfSlot
      <4>3. s \in Range(slots)
        BY <3>1, <4>2
      <4>4. s = r
        BY <4>2, <4>3, <2>1, IdIsOneInRound
      <4> QED
        BY <4>1, <4>4 DEF OfSlot
    <3> QED
      BY <3>3, <3>4
  <2> HIDE DEF planned
  <2>5. \A i, j \in DOMAIN history : i # j => planned(i) \intersect planned(j) = {}
    BY <2>2
  <2> QED
    BY <2>3, <2>4, <2>5 DEF SlotsBoundOnce, planned
<1>2. IInv => SlotsBoundOnce
  BY <1>1
<1> QED
  BY <1>2, Invariance, PTL

-----------------------------------------------------------------------------
(* The credit.                                                             *)

\* As many slots as there are members, when no two of these have the same.
LEMMA OneSlotEach ==
  ASSUME NEW S, IsFiniteSet(S), OnePerSlot(S), \A c \in S : c.slot # 0
  PROVE  /\ IsFiniteSet({c.slot : c \in S})
         /\ Cardinality({c.slot : c \in S}) = Cardinality(S)
<1> DEFINE T == {c.slot : c \in S}
           f == [c \in S |-> c.slot]
<1>1. f \in Surjection(S, T)
  BY DEF Surjection
<1>2. f \in Injection(S, T)
  <2>1. f \in [S -> T] /\ \A c \in S : f[c] = c.slot
    OBVIOUS
  <2>2. \A c, d \in S : c.slot = d.slot => c = d
    BY DEF OnePerSlot
  <2> HIDE DEF f, T
  <2>3. \A c, d \in S : f[c] = f[d] => c = d
    BY <2>1, <2>2
  <2> QED
    BY <2>1, <2>3 DEF Injection, IsInjective
<1> QED
  BY <1>1, <1>2, FS_Surjection

\* Every planned slot of a run counts for one pull: the slots are finitely many.
LEMMA SlotsAreFinite ==
  ASSUME SlotsArePlanned, history \in Seq(Range(history)), NEW S \in SUBSET SlotsOf(history)
  PROVE  /\ IsFiniteSet(S) /\ IsFiniteSet({s.id : s \in S})
         /\ Cardinality({s.id : s \in S}) = Cardinality(S)
<1> DEFINE T == {s.id : s \in S}
           f == [s \in S |-> s.id]
           m == Branch * Len(history)
<1>1. m \in Nat /\ \A s \in S : s.id \in 1 .. m
  BY IdsOfRun
<1>2. IsFiniteSet(1 .. m)
  BY <1>1, FS_Interval
<1>3. IsFiniteSet(T)
  <2>1. T \subseteq 1 .. m
    BY <1>1
  <2> QED
    BY <2>1, <1>2, FS_Subset
<1>4. \A s, t \in S : s.id = t.id => s = t
  BY IdIsOne
<1>5. f \in Injection(S, T)
  <2>1. f \in [S -> T] /\ \A s \in S : f[s] = s.id
    OBVIOUS
  <2> HIDE DEF f, T
  <2>2. \A s, t \in S : f[s] = f[t] => s = t
    BY <2>1, <1>4
  <2> QED
    BY <2>1, <2>2 DEF Injection, IsInjective
<1>6. f \in Surjection(S, T)
  BY DEF Surjection
<1>7. IsFiniteSet(S) /\ Cardinality(S) = Cardinality(T)
  BY <1>3, <1>5, <1>6, FS_Injection
<1> QED
  BY <1>3, <1>7

\* Three sets in a set, no two of which meet, are not larger together.
LEMMA ThreeFit ==
  ASSUME NEW K, IsFiniteSet(K), NEW A \in SUBSET K, NEW B \in SUBSET K, NEW C \in SUBSET K,
         A \intersect B = {}, A \intersect C = {}, B \intersect C = {}
  PROVE  Cardinality(A) + (Cardinality(B) + Cardinality(C)) <= Cardinality(K)
<1>1. IsFiniteSet(A) /\ IsFiniteSet(B) /\ IsFiniteSet(C)
  BY FS_Subset
<1>2. (B \union C) \in SUBSET K /\ A \union (B \union C) \in SUBSET K
  OBVIOUS
<1>3. /\ IsFiniteSet(B \union C)
      /\ Cardinality(B \union C) = Cardinality(B) + Cardinality(C) - Cardinality({})
  BY <1>1, FS_Union
<1>4. A \intersect (B \union C) = {}
  OBVIOUS
<1>5. Cardinality(A \union (B \union C))
         = Cardinality(A) + Cardinality(B \union C) - Cardinality({})
  BY <1>1, <1>3, <1>4, FS_Union
<1>6. Cardinality(A \union (B \union C)) <= Cardinality(K)
  BY <1>2, FS_Subset
<1>7. /\ Cardinality(A) \in Nat /\ Cardinality(B) \in Nat /\ Cardinality(C) \in Nat
      /\ Cardinality({}) = 0 /\ Cardinality(K) \in Nat
  BY <1>1, FS_CardinalityType, FS_EmptySet
<1> QED
  BY <1>3, <1>5, <1>6, <1>7

\* The credit of an arm is made of slots that were planned for it, each of them once; one more
\* risk is due to a restart that founded the arm and was refused.
THEOREM CreditIsDue == Spec => []CreditIsEarned
<1>1. ASSUME IInv,
             NEW arm \in {s.arm : s \in SlotsOf(history)} \union {c.root : c \in live \union stored}
      PROVE  /\ Credit(arm).pulls = Cardinality({s \in SlotsOf(history) : s.arm = arm})
             /\ Credit(arm).reward + Credit(arm).risk
                  <= Credit(arm).pulls + IF arm \in Texts THEN 0 ELSE 1
  <2> DEFINE F == RefusedIn(history)
             planned == {s \in SlotsOf(history) : s.arm = arm}
             earned == {c \in live \union stored : Earned(c) /\ c.root = arm}
             once == {c \in earned : c.slot = 0 \/ c = CHOOSE d \in earned : d.slot = c.slot}
             extra == {c \in once : \A s \in SlotsOf(history) : s.id # c.slot}
             good == {c \in once : c.outcome = "good"}
             bad == {c \in once : c.outcome = "bad"}
             ref == {r \in F : r.arm = arm}
             N == Cardinality(Texts)
  <2>1. Credit(arm) = [pulls |-> Cardinality(planned) + Cardinality(extra),
                       reward |-> Cardinality(good),
                       risk |-> Cardinality(bad) + Cardinality(ref)]
    BY DEF Credit
  <2>2. /\ Rounds /\ history \in Seq(Range(history)) /\ SlotsArePlanned /\ ChildrenAreBound
        /\ RefusalsAreBound /\ IsFiniteSet(live) /\ IsFiniteSet(stored)
        /\ \A c \in live \union stored : IsCandidate(c)
    BY <1>1, PartsOfInvariant DEF Rounds, CandidatesTyped
  <2>3. N \in Nat /\ Texts = 1 .. N
    BY TextsAreNumbers
  <2>4. \A s \in SlotsOf(history) : s.id \in Nat \ {0} /\ s.arm \in Nat \ {0}
    BY <2>2, IdsOfRun
  <2>5. arm \in Nat \ {0}
    BY <2>2, <2>4 DEF IsCandidate
  <2>6. once \subseteq live \union stored
    OBVIOUS
  <2>7. \A c \in once : /\ c.slot # 0 /\ c.root = arm
                        /\ \E s \in planned : s.id = c.slot
    <3> SUFFICES ASSUME NEW c \in once
                 PROVE  c.slot # 0 /\ c.root = arm /\ \E s \in planned : s.id = c.slot
      OBVIOUS
    <3>1. c \in live \union stored /\ Earned(c) /\ c.root = arm
      OBVIOUS
    <3>2. c.slot # 0 /\ c.parent # 0
      BY <3>1 DEF Earned
    <3>3. PICK s \in SlotsOf(history) : OfSlot(c.slot, c.root, s) /\ c.root = s.arm
      BY <2>2, <3>1, <3>2 DEF ChildrenAreBound
    <3> QED
      BY <3>1, <3>2, <3>3 DEF OfSlot
  <2> HIDE DEF once, F, N
  <2>8. extra = {}
    BY <2>7
  <2>9. IsFiniteSet(planned) /\ IsFiniteSet({s.id : s \in planned})
        /\ Cardinality({s.id : s \in planned}) = Cardinality(planned)
        /\ Cardinality(planned) \in Nat
    <3>1. planned \in SUBSET SlotsOf(history)
      OBVIOUS
    <3> HIDE DEF planned
    <3> QED
      BY <3>1, <2>2, SlotsAreFinite, FS_CardinalityType
  <2>10. Credit(arm).pulls = Cardinality(planned)
    <3>1. Cardinality(extra) = 0
      BY <2>8, FS_EmptySet
    <3> HIDE DEF planned, extra, good, bad, ref
    <3> QED
      BY <2>1, <2>9, <3>1
  <2>11. OnePerSlot(live \union stored) /\ OnePerSlot(F) /\ Apart(live \union stored, F)
    <3>1. OnePerSlot(live) /\ OnePerSlot(stored) /\ Apart(live, stored)
      BY <2>2 DEF ChildrenAreBound
    <3>2. OnePerSlot(live \union stored)
      BY <3>1, OnePerSlotCombines
    <3> QED
      BY <2>2, <3>2 DEF RefusalsAreBound, F
  <2>12. \A r \in ref : r.slot # 0
    BY <2>2, <2>5 DEF RefusalsAreBound, F
  <2>13. IsFiniteSet(F)
    <3> DEFINE D == DOMAIN history
               G(i) == history[i].rejected \union history[i].duplicates
               f == [i \in D |-> G(i)]
    <3>1. IsFiniteSet(D)
      <4>1. Len(history) \in Nat /\ D = 1 .. Len(history)
        BY <2>2
      <4> HIDE DEF D
      <4> QED
        BY <4>1, FS_Interval
    <3>2. \A i \in D : IsFiniteSet(G(i))
      BY <2>2, FS_Union DEF RefusalsAreBound
    <3>3. F = UNION Range(f)
      BY DEF F, RefusedIn, Range
    <3> HIDE DEF D, G
    <3>4. f = [i \in D |-> f[i]] /\ \A T \in Range(f) : IsFiniteSet(T)
      BY <3>2 DEF Range
    <3> HIDE DEF f
    <3>5. IsFiniteSet(Range(f))
      BY <3>1, <3>4, ImageIsFinite
    <3> QED
      BY <3>3, <3>4, <3>5, FS_UNION
  <2>14. IsFiniteSet(good) /\ IsFiniteSet(bad) /\ IsFiniteSet(ref)
    <3>1. IsFiniteSet(live \union stored)
      BY <2>2, FS_Union
    <3>2. good \subseteq live \union stored /\ bad \subseteq live \union stored /\ ref \subseteq F
      BY <2>6
    <3> HIDE DEF good, bad, ref
    <3> QED
      BY <3>1, <3>2, <2>13, FS_Subset
  <2>15. OnePerSlot(good) /\ OnePerSlot(bad) /\ OnePerSlot(ref)
    BY <2>6, <2>11 DEF OnePerSlot
  <2> DEFINE goods == {c.slot : c \in good}
             bads == {c.slot : c \in bad}
             refs == {r.slot : r \in ref}
             ids == {s.id : s \in planned}
             own == IF arm \in Texts THEN {} ELSE {arm - N}
             K == ids \union own
  <2>16. /\ Cardinality(goods) = Cardinality(good) /\ Cardinality(bads) = Cardinality(bad)
         /\ Cardinality(refs) = Cardinality(ref)
    <3>1. (\A c \in good : c.slot # 0) /\ (\A c \in bad : c.slot # 0)
      BY <2>7
    <3> HIDE DEF good, bad, ref
    <3> QED
      BY <3>1, <2>12, <2>14, <2>15, OneSlotEach
  <2>17. goods \subseteq K /\ bads \subseteq K
    BY <2>7
  <2>18. refs \subseteq K
    <3> SUFFICES ASSUME NEW r \in ref PROVE r.slot \in K
      OBVIOUS
    <3>1. r \in F /\ r.arm = arm /\ r.slot # 0
      BY <2>12
    <3>2. PICK s \in SlotsOf(history) : r.slot = s.id /\ arm \in {s.arm, N + s.id}
      BY <3>1, <2>2 DEF RefusalsAreBound, OfSlot, F, N
    <3>3. CASE arm = s.arm
      BY <3>2, <3>3
    <3>4. CASE arm = N + s.id
      <4>1. arm \notin Texts /\ arm - N = s.id
        BY <3>4, <2>3, <2>4
      <4> QED
        BY <4>1, <3>2
    <3> QED
      BY <3>2, <3>3, <3>4
  <2>19. goods \intersect bads = {} /\ goods \intersect refs = {} /\ bads \intersect refs = {}
    <3>1. ASSUME NEW c \in good, NEW d \in bad PROVE c.slot # d.slot
      BY <2>6, <2>7, <2>11 DEF OnePerSlot
    <3>2. ASSUME NEW c \in good \union bad, NEW r \in ref PROVE c.slot # r.slot
      BY <2>6, <2>7, <2>11 DEF Apart
    <3> HIDE DEF good, bad, ref
    <3> QED
      BY <3>1, <3>2
  <2>20. /\ IsFiniteSet(K)
         /\ Cardinality(K) <= Cardinality(planned) + IF arm \in Texts THEN 0 ELSE 1
    <3>1. /\ IsFiniteSet(own)
          /\ Cardinality(own) = IF arm \in Texts THEN 0 ELSE 1
      BY FS_EmptySet, FS_Singleton
    <3>2. IsFiniteSet(ids) /\ Cardinality(ids) = Cardinality(planned)
      BY <2>9
    <3> HIDE DEF own, ids, planned
    <3>3. /\ IsFiniteSet(K)
          /\ Cardinality(K) = Cardinality(ids) + Cardinality(own) - Cardinality(ids \intersect own)
      BY <3>1, <3>2, FS_Union
    <3>4. Cardinality(ids \intersect own) \in Nat
      BY <3>1, FS_Subset, FS_CardinalityType
    <3> DEFINE x == Cardinality(ids \intersect own)
               y == Cardinality(own)
               z == Cardinality(planned)
    <3>5. /\ x \in Nat /\ y \in Nat /\ z \in Nat /\ Cardinality(K) = z + y - x
          /\ y = IF arm \in Texts THEN 0 ELSE 1
      BY <3>1, <3>2, <3>3, <3>4, <2>9
    <3> HIDE DEF x, y, z, K
    <3>6. Cardinality(K) <= z + y
      BY <3>5
    <3> QED
      BY <3>3, <3>5, <3>6 DEF z
  <2> HIDE DEF goods, bads, refs, K, good, bad, ref, planned, extra
  <2>21. Cardinality(goods) + (Cardinality(bads) + Cardinality(refs)) <= Cardinality(K)
    BY <2>17, <2>18, <2>19, <2>20, ThreeFit
  <2>22. /\ Credit(arm).reward = Cardinality(goods)
         /\ Credit(arm).risk = Cardinality(bads) + Cardinality(refs)
    BY <2>1, <2>16
  <2>23. /\ Cardinality(goods) \in Nat /\ Cardinality(bads) \in Nat
         /\ Cardinality(refs) \in Nat /\ Cardinality(K) \in Nat
    BY <2>14, <2>16, <2>20, FS_CardinalityType
  <2> DEFINE e == IF arm \in Texts THEN 0 ELSE 1
  <2>24. e \in Nat
    OBVIOUS
  <2>25. Cardinality(K) <= Cardinality(planned) + e
    BY <2>20
  <2> HIDE DEF e
  <2>26. Credit(arm).reward + Credit(arm).risk <= Credit(arm).pulls + e
    BY <2>9, <2>10, <2>21, <2>22, <2>23, <2>24, <2>25
  <2> QED
    BY <2>10, <2>26 DEF e, planned
<1>2. IInv => CreditIsEarned
  BY <1>1 DEF CreditIsEarned
<1> QED
  BY <1>2, Invariance, PTL

\* A window that met a quota error is the last of its launch, and so is whatever low gain or a
\* reached target made of the same window.
THEOREM QuotaEndsSeeding == Spec => QuotaStopsSeeding
<1> DEFINE Stops == (\E k \in DOMAIN replies : replies[k].error = "quota") /\ phase = "seeding"
                       /\ replies' = <<>> => harvest'.stop # "none"
<1>1. ASSUME IInv, [Next]_vars, NEW q \in DOMAIN replies, replies[q].error = "quota",
             phase = "seeding", replies' = <<>>
      PROVE  harvest'.stop # "none"
  <2>1. replies # <<>> /\ replies' # replies
    BY <1>1
  <2>2. CASE CloseWindow
    <3> DEFINE n == Len(replies)
               g == Consume(harvest, Closed, replies, enrolled)
               w == WindowClosed(harvest, Closed, replies, enrolled)
    <3>1. SeedsTyped /\ WindowsProgress /\ harvest' = w
      BY <1>1, <2>2 DEF IInv, CloseWindow, Closed
    <3>2. /\ issued \in Nat /\ IsHarvest(harvest) /\ ChildrenOf(harvest) \subseteq Seeds
          /\ replies \in Seq(Replies) /\ n <= issued
      BY <3>1 DEF SeedsTyped
    <3>3. n \in Nat /\ DOMAIN replies = 1 .. n
      BY <3>2
    <3>4. Closed \in Nat
      BY <3>2, <3>3 DEF Closed
    <3>5. \A j \in DOMAIN replies : replies[j].items \in Seq(Seeds)
      <4>1. \A j \in DOMAIN replies : replies[j] \in Replies
        BY <3>2
      <4> QED
        BY <4>1 DEF Replies
    <3>6. harvest.stop = "none" /\ harvest.streak < Patience
      BY <2>1, <3>1 DEF WindowsProgress
    <3>7. harvest.streak \in Nat /\ Patience \in Nat
      BY <3>2, Numbers DEF IsHarvest
    <3>8. Told(harvest)
      BY <3>6, <3>7 DEF Told
    <3>9. Consumed(harvest, g, Seeds, Closed, replies, n, enrolled)
      BY <3>2, <3>3, <3>4, <3>5, <3>8, ConsumeEffect
    <3> HIDE DEF g, w
    <3>10. IsHarvest(g)
      BY <3>9 DEF Consumed
    <3>11. /\ g.fatal # "none" => w.stop = "model_error"
           /\ g.stop # "none" => w.stop # "none"
      BY <3>10, WindowClosedEffect DEF g, w
    <3>12. g.stop = "low_gain_patience" \/ g.fatal # "none"
      BY <1>1, <3>3, <3>9 DEF Consumed
    <3> QED
      BY <3>1, <3>11, <3>12
  <2>3. CASE \E k \in DOMAIN replies : AnswerSeed(k)
    <3>1. PICK k \in DOMAIN replies : AnswerSeed(k)
      BY <2>3
    <3>2. DOMAIN replies' = DOMAIN replies
      BY <3>1 DEF AnswerSeed
    <3> QED
      BY <3>1, <3>2, <1>1
  <2>4. CASE OpenWindow \/ EndSeeding
    BY <2>1, <2>4 DEF OpenWindow, EndSeeding
  <2>5. CASE SeedingFails \/ Rest \/ UNCHANGED vars
    BY <2>1, <2>5 DEF SeedingFails, Rest, vars
  <2>6. CASE Resume \/ Measure \/ Allocate \/ AnswerSlots \/ AnswerBatch \/ Integrate \/ Interrupt
    BY <1>1, <2>6 DEF Resume, Measure, Allocate, AnswerSlots, AnswerBatch, Integrate, Interrupt
  <2> QED
    BY <1>1, <2>2, <2>3, <2>4, <2>5, <2>6 DEF Next
<1>2. IInv /\ [Next]_vars => Stops
  BY <1>1
<1>3. IInv /\ [Next]_vars => [Stops]_vars
  BY <1>2
<1>4. Spec => [][Stops]_vars
  BY <1>3, Invariance, PTL DEF Spec
<1> QED
  BY <1>4 DEF QuotaStopsSeeding
=================================================================================
