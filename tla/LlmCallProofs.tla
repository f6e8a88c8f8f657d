------------------------------- MODULE LlmCallProofs -------------------------------
(***************************************************************************)
(* For every number of callers, slots, attempts and prices: the types, what *)
(* the reservations hold and by how much concurrent calls may overspend,    *)
(* that a booked answer of a logical call is not paid again, and that the   *)
(* unlocked circuit stays consistent.                                       *)
(***************************************************************************)
EXTENDS LlmCall, FiniteSetTheorems, WellFoundedInduction, TLAPS

\* A set of numbers that is not empty has a least one.
LEMMA LeastNumber ==
  ASSUME NEW S \in SUBSET Nat, S # {}
  PROVE  \E n \in S : \A m \in S : n <= m
<1>1. PICK n \in S : \A m \in S : <<m, n>> \notin OpToRel(<, Nat)
  BY NatLessThanWellFounded, WFMin
<1>2. \A m \in S : ~(m < n)
  BY <1>1 DEF OpToRel
<1> QED
  BY <1>2

\* A finite set of numbers that is not empty has a greatest one: a smallest set without
\* one would have one more than the set without one of its members.
LEMMA GreatestNumber ==
  ASSUME NEW S \in SUBSET Nat, IsFiniteSet(S), S # {}
  PROVE  \E n \in S : \A m \in S : m <= n
<1> DEFINE Bad == {T \in SUBSET S : T # {} /\ ~\E n \in T : \A m \in T : m <= n}
           Sizes == {Cardinality(T) : T \in Bad}
<1>1. \A T \in SUBSET S : IsFiniteSet(T) /\ Cardinality(T) \in Nat
  BY FS_Subset, FS_CardinalityType
<1>2. ASSUME Bad # {} PROVE FALSE
  <2>1. Sizes \in SUBSET Nat /\ Sizes # {}
    BY <1>1, <1>2
  <2>2. PICK size \in Sizes : \A other \in Sizes : size <= other
    <3> HIDE DEF Sizes
    <3> QED
      BY <2>1, LeastNumber
  <2>3. PICK T \in Bad : Cardinality(T) = size
    BY <2>2
  <2>4. PICK x \in T : TRUE
    BY <2>3
  <2>5. Cardinality(T \ {x}) = Cardinality(T) - 1
    BY <1>1, <2>3, <2>4, FS_RemoveElement
  <2>6. T \ {x} \notin Bad
    <3>1. ASSUME T \ {x} \in Bad PROVE FALSE
      <4>1. Cardinality(T \ {x}) \in Sizes
        BY <3>1
      <4>2. Cardinality(T) <= Cardinality(T \ {x})
        BY <4>1, <2>2, <2>3
      <4>3. Cardinality(T) \in Nat
        BY <1>1, <2>3
      <4> HIDE DEF Sizes, Bad
      <4> QED
        BY <4>2, <4>3, <2>5
    <3> QED
      BY <3>1
  <2>7. CASE T \ {x} = {}
    <3>1. \A m \in T : m <= x
      BY <2>3, <2>4, <2>7
    <3> QED
      BY <2>3, <2>4, <3>1
  <2>8. CASE T \ {x} # {}
    <3>1. PICK y \in T \ {x} : \A m \in T \ {x} : m <= y
      BY <2>3, <2>6, <2>8
    <3>2. x \in Nat /\ y \in Nat /\ \A m \in T : m \in Nat
      BY <2>3, <2>4, <3>1
    <3>3. CASE x <= y
      <4>1. \A m \in T : m <= y
        BY <3>1, <3>3
      <4> QED
        BY <2>3, <3>1, <4>1
    <3>4. CASE y <= x
      <4>1. \A m \in T : m <= x
        BY <3>1, <3>2, <3>4
      <4> QED
        BY <2>3, <2>4, <4>1
    <3> QED
      BY <3>2, <3>3, <3>4
  <2> QED
    BY <2>7, <2>8
<1> QED
  BY <1>2

\* The dearest and the cheapest price bound every price.
LEMMA Prices ==
  /\ Dearest \in Nat /\ Cheapest \in Nat /\ 0 < Cheapest /\ Cheapest <= Dearest
  /\ \A cost \in Costs \cup {0} : cost <= Dearest /\ (cost > 0 => Cheapest <= cost)
<1>1. PICK high \in Costs : \A cost \in Costs : cost <= high
  <2>1. Costs \in SUBSET Nat /\ IsFiniteSet(Costs) /\ Costs # {}
    BY LlmCallAssumption
  <2> QED
    BY <2>1, GreatestNumber
<1>2. \A cost \in Costs : Dearest >= cost /\ Dearest \in Costs
  <2>1. \E x \in Costs : \A y \in Costs : x >= y
    BY <1>1, LlmCallAssumption
  <2> QED
    BY <2>1 DEF Dearest, Max
<1>3. Costs \ {0} \in SUBSET Nat /\ Costs \ {0} # {}
  BY LlmCallAssumption
<1>4. PICK low \in Costs \ {0} : \A cost \in Costs \ {0} : low <= cost
  BY <1>3, LeastNumber
<1>5. Cheapest \in Costs \ {0} /\ \A cost \in Costs \ {0} : Cheapest <= cost
  <2>1. \E x \in Costs \ {0} : \A y \in Costs \ {0} : x =< y
    BY <1>4
  <2> QED
    BY <2>1 DEF Cheapest, Min
<1>6. Costs \subseteq Nat /\ high \in Costs
  BY <1>1, LlmCallAssumption
<1>7. Dearest \in Nat /\ Cheapest \in Nat
  BY <1>2, <1>5, <1>6
<1> QED
  BY <1>2, <1>5, <1>6, <1>7

\* The invariant holds before the first call.
LEMMA InitIInv == Init => IInv
<1> SUFFICES ASSUME Init PROVE IInv
  OBVIOUS
<1> USE LlmCallAssumption DEF Init, Frame, Closed, Nobody
<1>1. Cardinality(slots) = 0
  BY FS_EmptySet
<1>2. TypeOK
  BY <1>1 DEF TypeOK, Frames, Places
<1>3. AttemptRemains /\ StoredBeforeBooked /\ RecordedIsNeverPaidAgain
  BY DEF AttemptRemains, StoredBeforeBooked, RecordedIsNeverPaidAgain
<1>4. CountExplainsCircuit /\ CircuitIsConsistent
  BY DEF CountExplainsCircuit, CircuitIsConsistent
<1>5. GateIsAccounted
  BY NobodyAssumption DEF GateIsAccounted, At
<1>6. HoldingsFollowPrices
  BY DEF HoldingsFollowPrices, Unbooked, Paying, At
<1>7. UnitsOf(Callers) = {} /\ Unbooked = {}
  BY DEF UnitsOf, Unbooked, Paying
<1>8. Cardinality(UnitsOf(Callers)) = 0
  BY <1>7, FS_EmptySet
<1>9. HeadroomIsAccounted
  BY <1>5, <1>8 DEF HeadroomIsAccounted
<1>10. HeadroomIsKept
  BY <1>7, Prices DEF HeadroomIsKept
<1> QED
  BY <1>2, <1>3, <1>4, <1>6, <1>9, <1>10 DEF IInv

\* A frame that goes to another place is a frame, and the only one that changes.
LEMMA FrameMoves ==
  ASSUME TypeOK, NEW c \in Callers, NEW place \in Places, GoTo(c, place)
  PROVE  /\ call' \in [Callers -> Frames]
         /\ call'[c].at = place
         /\ call'[c].attempts = call[c].attempts
         /\ \A d \in Callers \ {c} : call'[d] = call[d]
  BY DEF GoTo, TypeOK, Frames

\* Giving a slot back, or taking one while fewer than MaxConcurrent are held, keeps their
\* number within the governor's limit.
LEMMA SlotsStayBounded ==
  ASSUME TypeOK, NEW c \in Callers
  PROVE  /\ slots \ {c} \subseteq Callers /\ Cardinality(slots \ {c}) <= MaxConcurrent
         /\ Cardinality(slots) < MaxConcurrent
            => slots \cup {c} \subseteq Callers /\ Cardinality(slots \cup {c}) <= MaxConcurrent
<1>1. IsFiniteSet(slots) /\ Cardinality(slots) \in Nat /\ MaxConcurrent \in Nat
  BY LlmCallAssumption, FS_Subset, FS_CardinalityType DEF TypeOK
<1>2. Cardinality(slots \ {c}) = IF c \in slots THEN Cardinality(slots) - 1 ELSE Cardinality(slots)
  BY <1>1, FS_RemoveElement
<1>3. Cardinality(slots \cup {c}) = IF c \in slots THEN Cardinality(slots) ELSE Cardinality(slots) + 1
  BY <1>1, FS_AddElement
<1> QED
  BY <1>1, <1>2, <1>3 DEF TypeOK

\* Every step keeps the types, and an attempt for each call that may still ask.
LEMMA TypeStep == TypeOK /\ AttemptRemains /\ [Next]_vars => TypeOK' /\ AttemptRemains'
<1> SUFFICES ASSUME TypeOK, AttemptRemains, [Next]_vars PROVE TypeOK' /\ AttemptRemains'
  OBVIOUS
<1> USE LlmCallAssumption
<1>1. ASSUME NEW c \in Callers, Begin(c) PROVE TypeOK' /\ AttemptRemains'
  BY <1>1, SMTT(40) DEF Begin, At, GoTo, TypeOK, AttemptRemains, Places, Frames, session, circuit
<1>2. ASSUME NEW c \in Callers, Reserve(c) PROVE TypeOK' /\ AttemptRemains'
  BY <1>2 DEF Reserve, At, GoTo, Raise, TypeOK, AttemptRemains, Places, Frames, session, circuit, Nobody
<1>3. ASSUME NEW c \in Callers, Preflight(c) PROVE TypeOK' /\ AttemptRemains'
  BY <1>3, SMTT(40) DEF Preflight, At, GoTo, Raise, TypeOK, AttemptRemains, Places, Frames, session, circuit
<1>4. ASSUME NEW c \in Callers, LookUp(c) PROVE TypeOK' /\ AttemptRemains'
  BY <1>4 DEF LookUp, At, GoTo, Raise, TypeOK, AttemptRemains, Places, Frames, session, circuit
<1>5. ASSUME NEW c \in Callers, ReadCircuit(c) PROVE TypeOK' /\ AttemptRemains'
  BY <1>5 DEF ReadCircuit, At, GoTo, Raise, TypeOK, AttemptRemains, Places, Frames, session, circuit
<1>6. ASSUME NEW c \in Callers, ProbeCircuit(c) PROVE TypeOK' /\ AttemptRemains'
  BY <1>6, SMTT(40) DEF ProbeCircuit, At, GoTo, Raise, TypeOK, AttemptRemains, Places, Frames, session, circuit
<1>7. ASSUME NEW c \in Callers, TakeSlot(c) PROVE TypeOK' /\ AttemptRemains'
  BY <1>7, SlotsStayBounded DEF TakeSlot, At, GoTo, Raise, CanRetry, TypeOK, AttemptRemains, Places, Frames, session, circuit
<1>8. ASSUME NEW c \in Callers, ProviderFails(c) PROVE TypeOK' /\ AttemptRemains'
  <2>1. call' \in [Callers -> Frames] /\ AttemptRemains'
    BY <1>8, SMTT(40) DEF ProviderFails, At, GoTo, CanRetry, TypeOK, AttemptRemains, Places, Frames
  <2> QED
    BY <1>8, <2>1, SlotsStayBounded DEF ProviderFails, TypeOK, session, circuit
<1>9. ASSUME NEW c \in Callers, ProviderAnswers(c) PROVE TypeOK' /\ AttemptRemains'
  <2>1. call' \in [Callers -> Frames] /\ AttemptRemains'
    <3>1. ASSUME NEW cost \in Costs, call' = [call EXCEPT ![c].at = "store", ![c].answer = cost]
          PROVE  call' \in [Callers -> Frames] /\ AttemptRemains'
      <4>1. [call[c] EXCEPT !.at = "store", !.answer = cost] \in Frames
        BY <3>1, ZenonT(40) DEF TypeOK, Places, Frames
      <4>2. call' = [call EXCEPT ![c] = [call[c] EXCEPT !.at = "store", !.answer = cost]]
        BY <3>1
      <4> QED
        BY <4>1, <4>2 DEF TypeOK, Frames, AttemptRemains
    <3>2. CASE CanRetry(c) /\ GoTo(c, "slot")
      BY <3>2 DEF CanRetry, GoTo, TypeOK, AttemptRemains, Places, Frames
    <3>3. CASE Raise(c)
      BY <3>3 DEF Raise, GoTo, TypeOK, AttemptRemains, Places, Frames
    <3> QED
      BY <1>9, <3>1, <3>2, <3>3 DEF ProviderAnswers
  <2> QED
    BY <1>9, <2>1, SlotsStayBounded DEF ProviderAnswers, TypeOK, session, circuit
<1>10. ASSUME NEW c \in Callers, CountFailure(c) PROVE TypeOK' /\ AttemptRemains'
  BY <1>10 DEF CountFailure, At, GoTo, Raise, TypeOK, AttemptRemains, Places, Frames, session, circuit
<1>11. ASSUME NEW c \in Callers, OpenCircuit(c) PROVE TypeOK' /\ AttemptRemains'
  BY <1>11 DEF OpenCircuit, At, GoTo, Raise, TypeOK, AttemptRemains, Places, Frames, session, circuit
<1>12. ASSUME NEW c \in Callers, StampCircuit(c) PROVE TypeOK' /\ AttemptRemains'
  BY <1>12 DEF StampCircuit, At, GoTo, Raise, TypeOK, AttemptRemains, Places, Frames, session, circuit
<1>13. ASSUME NEW c \in Callers, StoreResponse(c) PROVE TypeOK' /\ AttemptRemains'
  BY <1>13 DEF StoreResponse, At, GoTo, Raise, TypeOK, AttemptRemains, Places, Frames, session, circuit
<1>14. ASSUME NEW c \in Callers, RecordSuccess(c) PROVE TypeOK' /\ AttemptRemains'
  BY <1>14 DEF RecordSuccess, At, GoTo, Raise, TypeOK, AttemptRemains, Places, Frames, session, circuit, Closed
<1>15. ASSUME NEW c \in Callers, Book(c) PROVE TypeOK' /\ AttemptRemains'
  BY <1>15 DEF Book, At, GoTo, Raise, TypeOK, AttemptRemains, Places, Frames, session, circuit
<1>16. ASSUME NEW c \in Callers, Check(c) PROVE TypeOK' /\ AttemptRemains'
  BY <1>16, SMTT(40) DEF Check, At, GoTo, Raise, TypeOK, AttemptRemains, Places, Frames, session, circuit
<1>17. ASSUME NEW c \in Callers, Leave(c) PROVE TypeOK' /\ AttemptRemains'
  <2>1. Frame \in Frames /\ 0 < MaxAttempts
    BY DEF Frame, Frames, Places
  <2>2. call' \in [Callers -> Frames] /\ AttemptRemains'
    BY <1>17, <2>1 DEF Leave, Frame, TypeOK, AttemptRemains
  <2>3. call[c].mine \in Nat
    <3>1. call[c] \in Frames /\ Costs \cup {0} \subseteq Nat
      BY DEF TypeOK
    <3> QED
      BY <3>1 DEF Frames
  <2>4. reserved' \in Nat
    BY <1>17, <2>3 DEF Leave, TypeOK
  <2>5. gate' \in Callers \cup {Nobody}
    BY <1>17 DEF Leave, TypeOK
  <2> QED
    BY <1>17, <2>2, <2>4, <2>5 DEF Leave, TypeOK, circuit
<1>18. ASSUME ResetSecondsPass PROVE TypeOK' /\ AttemptRemains'
  BY <1>18 DEF ResetSecondsPass, TypeOK, AttemptRemains, session
<1>19. ASSUME Crash PROVE TypeOK' /\ AttemptRemains'
  <2>1. Cardinality(slots') = 0
    BY <1>19, FS_EmptySet DEF Crash
  <2> QED
    BY <1>19, <2>1 DEF Crash, Frame, Closed, Nobody, TypeOK, AttemptRemains, Places, Frames
<1>20. ASSUME UNCHANGED vars PROVE TypeOK' /\ AttemptRemains'
  BY <1>20 DEF vars, session, circuit, TypeOK, AttemptRemains
<1> QED
  BY <1>1, <1>2, <1>3, <1>4, <1>5, <1>6, <1>7, <1>8, <1>9, <1>10, <1>11, <1>12, <1>13, <1>14, <1>15, <1>16, <1>17, <1>18, <1>19, <1>20
  DEF Next, Step

\* The lock of the reservation follows the calls that hold no reservation.
LEMMA GateStep == TypeOK /\ GateIsAccounted /\ [Next]_vars => GateIsAccounted'
<1> SUFFICES ASSUME TypeOK, GateIsAccounted, [Next]_vars PROVE GateIsAccounted'
  OBVIOUS
<1> USE LlmCallAssumption, NobodyAssumption DEF TypeOK, Frames, GateIsAccounted, At
<1>1. ASSUME NEW c \in Callers, Begin(c) PROVE GateIsAccounted'
  BY <1>1 DEF Begin, GoTo, Raise, CanRetry, Frame, session, circuit
<1>2. ASSUME NEW c \in Callers, Reserve(c) PROVE GateIsAccounted'
  BY <1>2 DEF Reserve, GoTo, Raise, CanRetry, Frame, session, circuit
<1>3. ASSUME NEW c \in Callers, Preflight(c) PROVE GateIsAccounted'
  BY <1>3 DEF Preflight, GoTo, Raise, CanRetry, Frame, session, circuit
<1>4. ASSUME NEW c \in Callers, LookUp(c) PROVE GateIsAccounted'
  BY <1>4 DEF LookUp, GoTo, Raise, CanRetry, Frame, session, circuit
<1>5. ASSUME NEW c \in Callers, ReadCircuit(c) PROVE GateIsAccounted'
  BY <1>5 DEF ReadCircuit, GoTo, Raise, CanRetry, Frame, session, circuit
<1>6. ASSUME NEW c \in Callers, ProbeCircuit(c) PROVE GateIsAccounted'
  BY <1>6 DEF ProbeCircuit, GoTo, Raise, CanRetry, Frame, session, circuit
<1>7. ASSUME NEW c \in Callers, TakeSlot(c) PROVE GateIsAccounted'
  BY <1>7 DEF TakeSlot, GoTo, Raise, CanRetry, Frame, session, circuit
<1>8. ASSUME NEW c \in Callers, ProviderFails(c) PROVE GateIsAccounted'
  BY <1>8 DEF ProviderFails, GoTo, Raise, CanRetry, Frame, session, circuit
<1>9. ASSUME NEW c \in Callers, ProviderAnswers(c) PROVE GateIsAccounted'
  BY <1>9 DEF ProviderAnswers, GoTo, Raise, CanRetry, Frame, session, circuit
<1>10. ASSUME NEW c \in Callers, CountFailure(c) PROVE GateIsAccounted'
  BY <1>10 DEF CountFailure, GoTo, Raise, CanRetry, Frame, session, circuit
<1>11. ASSUME NEW c \in Callers, OpenCircuit(c) PROVE GateIsAccounted'
  BY <1>11 DEF OpenCircuit, GoTo, Raise, CanRetry, Frame, session, circuit
<1>12. ASSUME NEW c \in Callers, StampCircuit(c) PROVE GateIsAccounted'
  BY <1>12 DEF StampCircuit, GoTo, Raise, CanRetry, Frame, session, circuit
<1>13. ASSUME NEW c \in Callers, StoreResponse(c) PROVE GateIsAccounted'
  BY <1>13 DEF StoreResponse, GoTo, Raise, CanRetry, Frame, session, circuit
<1>14. ASSUME NEW c \in Callers, RecordSuccess(c) PROVE GateIsAccounted'
  BY <1>14 DEF RecordSuccess, GoTo, Raise, CanRetry, Frame, session, circuit
<1>15. ASSUME NEW c \in Callers, Book(c) PROVE GateIsAccounted'
  BY <1>15 DEF Book, GoTo, Raise, CanRetry, Frame, session, circuit
<1>16. ASSUME NEW c \in Callers, Check(c) PROVE GateIsAccounted'
  BY <1>16 DEF Check, GoTo, Raise, CanRetry, Frame, session, circuit
<1>17. ASSUME NEW c \in Callers, Leave(c) PROVE GateIsAccounted'
  BY <1>17 DEF Leave, GoTo, Raise, CanRetry, Frame, session, circuit
<1>18. ASSUME ResetSecondsPass PROVE GateIsAccounted'
  BY <1>18 DEF ResetSecondsPass, session
<1>19. ASSUME Crash PROVE GateIsAccounted'
  BY <1>19 DEF Crash, Frame
<1>20. ASSUME UNCHANGED vars PROVE GateIsAccounted'
  BY <1>20 DEF vars, session, circuit
<1> QED
  BY <1>1, <1>2, <1>3, <1>4, <1>5, <1>6, <1>7, <1>8, <1>9, <1>10, <1>11, <1>12, <1>13, <1>14, <1>15, <1>16, <1>17, <1>18, <1>19, <1>20
  DEF Next, Step

\* An answer is stored before it is booked, so a call whose answer is booked finds it and
\* never comes to ask.
LEMMA PaymentStep ==
  TypeOK /\ StoredBeforeBooked /\ RecordedIsNeverPaidAgain /\ [Next]_vars
  => StoredBeforeBooked' /\ RecordedIsNeverPaidAgain'
<1> SUFFICES ASSUME TypeOK, StoredBeforeBooked, RecordedIsNeverPaidAgain, [Next]_vars
             PROVE  StoredBeforeBooked' /\ RecordedIsNeverPaidAgain'
  OBVIOUS
<1> USE LlmCallAssumption DEF TypeOK, Frames, StoredBeforeBooked, RecordedIsNeverPaidAgain, Paying
<1>1. ASSUME NEW c \in Callers, Begin(c) PROVE StoredBeforeBooked' /\ RecordedIsNeverPaidAgain'
  BY <1>1 DEF Begin, At, GoTo, Raise, CanRetry, Frame, session, circuit
<1>2. ASSUME NEW c \in Callers, Reserve(c) PROVE StoredBeforeBooked' /\ RecordedIsNeverPaidAgain'
  <2>1. call[c].at = "reserve" /\ UNCHANGED <<responses, booked>>
    BY <1>2 DEF Reserve, At, session, circuit
  <2>2. call'[c].at \in {"idle", "preflight"} /\ \A d \in Callers \ {c} : call'[d].at = call[d].at
    BY <1>2 DEF Reserve, GoTo, Raise
  <2> QED
    BY <2>1, <2>2
<1>3. ASSUME NEW c \in Callers, Preflight(c) PROVE StoredBeforeBooked' /\ RecordedIsNeverPaidAgain'
  <2>1. call[c].at = "preflight" /\ UNCHANGED <<responses, booked>>
    BY <1>3 DEF Preflight, At, session, circuit
  <2>2. call'[c].at \in {"leaving", "lookup"} /\ \A d \in Callers \ {c} : call'[d].at = call[d].at
    BY <1>3 DEF Preflight, GoTo, Raise
  <2> QED
    BY <2>1, <2>2
<1>4. ASSUME NEW c \in Callers, LookUp(c) PROVE StoredBeforeBooked' /\ RecordedIsNeverPaidAgain'
  BY <1>4 DEF LookUp, At, GoTo, Raise, CanRetry, Frame, session, circuit
<1>5. ASSUME NEW c \in Callers, ReadCircuit(c) PROVE StoredBeforeBooked' /\ RecordedIsNeverPaidAgain'
  <2>1. call[c].at = "circuit" /\ UNCHANGED <<responses, booked>>
    BY <1>5 DEF ReadCircuit, At, session, circuit
  <2>2. call'[c].at \in {"slot", "leaving", "probing"} /\ \A d \in Callers \ {c} : call'[d].at = call[d].at
    BY <1>5 DEF ReadCircuit, GoTo, Raise
  <2> QED
    BY <2>1, <2>2
<1>6. ASSUME NEW c \in Callers, ProbeCircuit(c) PROVE StoredBeforeBooked' /\ RecordedIsNeverPaidAgain'
  <2>1. call[c].at = "probing" /\ UNCHANGED <<responses, booked>>
    BY <1>6 DEF ProbeCircuit, At, session, circuit
  <2>2. call'[c].at \in {"slot", "leaving"} /\ \A d \in Callers \ {c} : call'[d].at = call[d].at
    BY <1>6 DEF ProbeCircuit, GoTo, Raise
  <2> QED
    BY <2>1, <2>2
<1>7. ASSUME NEW c \in Callers, TakeSlot(c) PROVE StoredBeforeBooked' /\ RecordedIsNeverPaidAgain'
  BY <1>7 DEF TakeSlot, At, GoTo, Raise, CanRetry, Frame, session, circuit
<1>8. ASSUME NEW c \in Callers, ProviderFails(c) PROVE StoredBeforeBooked' /\ RecordedIsNeverPaidAgain'
  <2>1. call[c].at = "asking" /\ UNCHANGED <<responses, booked>>
    BY <1>8 DEF ProviderFails, At, session, circuit
  <2>2. call'[c].at \in {"slot", "failed"} /\ \A d \in Callers \ {c} : call'[d].at = call[d].at
    BY <1>8 DEF ProviderFails, GoTo, Raise
  <2> QED
    BY <2>1, <2>2
<1>9. ASSUME NEW c \in Callers, ProviderAnswers(c) PROVE StoredBeforeBooked' /\ RecordedIsNeverPaidAgain'
  <2>1. call[c].at = "asking" /\ UNCHANGED <<responses, booked>>
    BY <1>9 DEF ProviderAnswers, At, session, circuit
  <2>2. call'[c].at \in {"store", "slot", "leaving"} /\ \A d \in Callers \ {c} : call'[d].at = call[d].at
    BY <1>9 DEF ProviderAnswers, GoTo, Raise
  <2> QED
    BY <2>1, <2>2
<1>10. ASSUME NEW c \in Callers, CountFailure(c) PROVE StoredBeforeBooked' /\ RecordedIsNeverPaidAgain'
  BY <1>10 DEF CountFailure, At, GoTo, Raise, CanRetry, Frame, session, circuit
<1>11. ASSUME NEW c \in Callers, OpenCircuit(c) PROVE StoredBeforeBooked' /\ RecordedIsNeverPaidAgain'
  <2>1. call[c].at = "counted" /\ UNCHANGED <<responses, booked>>
    BY <1>11 DEF OpenCircuit, At, session, circuit
  <2>2. call'[c].at \in {"opening", "leaving"} /\ \A d \in Callers \ {c} : call'[d].at = call[d].at
    BY <1>11 DEF OpenCircuit, GoTo, Raise
  <2> QED
    BY <2>1, <2>2
<1>12. ASSUME NEW c \in Callers, StampCircuit(c) PROVE StoredBeforeBooked' /\ RecordedIsNeverPaidAgain'
  BY <1>12 DEF StampCircuit, At, GoTo, Raise, CanRetry, Frame, session, circuit
<1>13. ASSUME NEW c \in Callers, StoreResponse(c) PROVE StoredBeforeBooked' /\ RecordedIsNeverPaidAgain'
  BY <1>13 DEF StoreResponse, At, GoTo, Raise, CanRetry, Frame, session, circuit
<1>14. ASSUME NEW c \in Callers, RecordSuccess(c) PROVE StoredBeforeBooked' /\ RecordedIsNeverPaidAgain'
  BY <1>14 DEF RecordSuccess, At, GoTo, Raise, CanRetry, Frame, session, circuit
<1>15. ASSUME NEW c \in Callers, Book(c) PROVE StoredBeforeBooked' /\ RecordedIsNeverPaidAgain'
  BY <1>15 DEF Book, At, GoTo, Raise, CanRetry, Frame, session, circuit
<1>16. ASSUME NEW c \in Callers, Check(c) PROVE StoredBeforeBooked' /\ RecordedIsNeverPaidAgain'
  BY <1>16 DEF Check, At, GoTo, Raise, CanRetry, Frame, session, circuit
<1>17. ASSUME NEW c \in Callers, Leave(c) PROVE StoredBeforeBooked' /\ RecordedIsNeverPaidAgain'
  BY <1>17 DEF Leave, At, GoTo, Raise, CanRetry, Frame, session, circuit
<1>18. ASSUME ResetSecondsPass PROVE StoredBeforeBooked' /\ RecordedIsNeverPaidAgain'
  BY <1>18 DEF ResetSecondsPass, session
<1>19. ASSUME Crash PROVE StoredBeforeBooked' /\ RecordedIsNeverPaidAgain'
  <2>1. \A d \in Callers : call'[d].at = "idle"
    BY <1>19 DEF Crash, Frame
  <2> QED
    BY <1>19, <2>1 DEF Crash
<1>20. ASSUME UNCHANGED vars PROVE StoredBeforeBooked' /\ RecordedIsNeverPaidAgain'
  BY <1>20 DEF vars, session, circuit
<1> QED
  BY <1>1, <1>2, <1>3, <1>4, <1>5, <1>6, <1>7, <1>8, <1>9, <1>10, <1>11, <1>12, <1>13, <1>14, <1>15, <1>16, <1>17, <1>18, <1>19, <1>20
  DEF Next, Step

\* Only a thread between its two writes leaves the circuit open without a time, and only a
\* count that reached the threshold is open, half open, or measured as expired.
LEMMA CircuitStep ==
  TypeOK /\ CountExplainsCircuit /\ CircuitIsConsistent /\ [Next]_vars
  => CountExplainsCircuit' /\ CircuitIsConsistent'
<1> SUFFICES ASSUME TypeOK, CountExplainsCircuit, CircuitIsConsistent, [Next]_vars
             PROVE  CountExplainsCircuit' /\ CircuitIsConsistent'
  OBVIOUS
<1> USE LlmCallAssumption DEF TypeOK, Frames, CountExplainsCircuit, CircuitIsConsistent, At
<1>1. ASSUME NEW c \in Callers, Begin(c) PROVE CountExplainsCircuit' /\ CircuitIsConsistent'
  BY <1>1 DEF Begin, GoTo, Raise, CanRetry, Frame, Closed, session, circuit
<1>2. ASSUME NEW c \in Callers, Reserve(c) PROVE CountExplainsCircuit' /\ CircuitIsConsistent'
  BY <1>2 DEF Reserve, GoTo, Raise, CanRetry, Frame, Closed, session, circuit
<1>3. ASSUME NEW c \in Callers, Preflight(c) PROVE CountExplainsCircuit' /\ CircuitIsConsistent'
  BY <1>3 DEF Preflight, GoTo, Raise, CanRetry, Frame, Closed, session, circuit
<1>4. ASSUME NEW c \in Callers, LookUp(c) PROVE CountExplainsCircuit' /\ CircuitIsConsistent'
  BY <1>4 DEF LookUp, GoTo, Raise, CanRetry, Frame, Closed, session, circuit
<1>5. ASSUME NEW c \in Callers, ReadCircuit(c) PROVE CountExplainsCircuit' /\ CircuitIsConsistent'
  BY <1>5 DEF ReadCircuit, GoTo, Raise, CanRetry, Frame, Closed, session, circuit
<1>6. ASSUME NEW c \in Callers, ProbeCircuit(c) PROVE CountExplainsCircuit' /\ CircuitIsConsistent'
  BY <1>6 DEF ProbeCircuit, GoTo, Raise, CanRetry, Frame, Closed, session, circuit
<1>7. ASSUME NEW c \in Callers, TakeSlot(c) PROVE CountExplainsCircuit' /\ CircuitIsConsistent'
  BY <1>7 DEF TakeSlot, GoTo, Raise, CanRetry, Frame, Closed, session, circuit
<1>8. ASSUME NEW c \in Callers, ProviderFails(c) PROVE CountExplainsCircuit' /\ CircuitIsConsistent'
  BY <1>8 DEF ProviderFails, GoTo, Raise, CanRetry, Frame, Closed, session, circuit
<1>9. ASSUME NEW c \in Callers, ProviderAnswers(c) PROVE CountExplainsCircuit' /\ CircuitIsConsistent'
  BY <1>9 DEF ProviderAnswers, GoTo, Raise, CanRetry, Frame, Closed, session, circuit
<1>10. ASSUME NEW c \in Callers, CountFailure(c) PROVE CountExplainsCircuit' /\ CircuitIsConsistent'
  BY <1>10 DEF CountFailure, GoTo, Raise, CanRetry, Frame, Closed, session, circuit
<1>11. ASSUME NEW c \in Callers, OpenCircuit(c) PROVE CountExplainsCircuit' /\ CircuitIsConsistent'
  BY <1>11 DEF OpenCircuit, GoTo, Raise, CanRetry, Frame, Closed, session, circuit
<1>12. ASSUME NEW c \in Callers, StampCircuit(c) PROVE CountExplainsCircuit' /\ CircuitIsConsistent'
  BY <1>12 DEF StampCircuit, GoTo, Raise, CanRetry, Frame, Closed, session, circuit
<1>13. ASSUME NEW c \in Callers, StoreResponse(c) PROVE CountExplainsCircuit' /\ CircuitIsConsistent'
  BY <1>13 DEF StoreResponse, GoTo, Raise, CanRetry, Frame, Closed, session, circuit
<1>14. ASSUME NEW c \in Callers, RecordSuccess(c) PROVE CountExplainsCircuit' /\ CircuitIsConsistent'
  BY <1>14 DEF RecordSuccess, GoTo, Raise, CanRetry, Frame, Closed, session, circuit
<1>15. ASSUME NEW c \in Callers, Book(c) PROVE CountExplainsCircuit' /\ CircuitIsConsistent'
  BY <1>15 DEF Book, GoTo, Raise, CanRetry, Frame, Closed, session, circuit
<1>16. ASSUME NEW c \in Callers, Check(c) PROVE CountExplainsCircuit' /\ CircuitIsConsistent'
  BY <1>16 DEF Check, GoTo, Raise, CanRetry, Frame, Closed, session, circuit
<1>17. ASSUME NEW c \in Callers, Leave(c) PROVE CountExplainsCircuit' /\ CircuitIsConsistent'
  BY <1>17 DEF Leave, GoTo, Raise, CanRetry, Frame, Closed, session, circuit
<1>18. ASSUME ResetSecondsPass PROVE CountExplainsCircuit' /\ CircuitIsConsistent'
  BY <1>18 DEF ResetSecondsPass, session
<1>19. ASSUME Crash PROVE CountExplainsCircuit' /\ CircuitIsConsistent'
  BY <1>19 DEF Crash, Frame, Closed
<1>20. ASSUME UNCHANGED vars PROVE CountExplainsCircuit' /\ CircuitIsConsistent'
  BY <1>20 DEF vars, session, circuit
<1> QED
  BY <1>1, <1>2, <1>3, <1>4, <1>5, <1>6, <1>7, <1>8, <1>9, <1>10, <1>11, <1>12, <1>13, <1>14, <1>15, <1>16, <1>17, <1>18, <1>19, <1>20
  DEF Next, Step

---------------------------------------------------------------------------

\* The units some callers hold, in these frames.
Held(frames, callers) == {held \in callers \X (1..Dearest) : held[2] <= frames[held[1]].mine}

\* One caller more holds as many units more as it reserved.
LEMMA OneMoreHolds ==
  ASSUME NEW frames \in [Callers -> Frames], NEW S \in SUBSET Callers, NEW c \in Callers \ S
  PROVE  /\ Cardinality(Held(frames, S)) \in Nat
         /\ Cardinality(Held(frames, S \cup {c})) = Cardinality(Held(frames, S)) + frames[c].mine
<1> DEFINE m == frames[c].mine
<1>1. IsFiniteSet(S) /\ IsFiniteSet(1..Dearest) /\ Dearest \in Nat
  <2>1. Dearest \in Nat /\ 1 \in Int /\ Dearest \in Int
    BY Prices
  <2>2. IsFiniteSet(1..Dearest)
    BY <2>1, FS_Interval
  <2>3. IsFiniteSet(S)
    BY LlmCallAssumption, FS_Subset
  <2> QED
    BY <2>1, <2>2, <2>3
<1>2. m \in Nat /\ m <= Dearest
  <2>1. m \in Costs \cup {0} /\ Costs \cup {0} \subseteq Nat
    BY LlmCallAssumption DEF Frames
  <2> QED
    BY <2>1, Prices
<1>3. IsFiniteSet(Held(frames, S)) /\ Cardinality(Held(frames, S)) \in Nat
  <2>1. IsFiniteSet(S \X (1..Dearest)) /\ Held(frames, S) \in SUBSET (S \X (1..Dearest))
    BY <1>1, FS_Product DEF Held
  <2> QED
    BY <2>1, FS_Subset, FS_CardinalityType
<1>4. IsFiniteSet({c} \X (1..m)) /\ Cardinality({c} \X (1..m)) = m
  <2>1. IsFiniteSet({c}) /\ Cardinality({c}) = 1
    BY FS_Singleton
  <2>2. IsFiniteSet(1..m) /\ Cardinality(1..m) = m
    <3>1. 1 \in Int /\ m \in Int
      BY <1>2
    <3> HIDE DEF m
    <3>2. IsFiniteSet(1..m) /\ Cardinality(1..m) = IF 1 > m THEN 0 ELSE m - 1 + 1
      BY <3>1, FS_Interval
    <3> QED
      BY <1>2, <3>2
  <2>3. IsFiniteSet({c} \X (1..m)) /\ Cardinality({c} \X (1..m)) = 1 * m
    BY <2>1, <2>2, FS_Product
  <2> QED
    BY <1>2, <2>3
<1>5. Held(frames, S \cup {c}) = Held(frames, S) \cup ({c} \X (1..m))
  BY <1>1, <1>2 DEF Held
<1>6. Held(frames, S) \cap ({c} \X (1..m)) = {}
  BY DEF Held
<1>7. Cardinality(Held(frames, S) \cap ({c} \X (1..m))) = 0
  BY <1>6, FS_EmptySet
<1>8. Cardinality(Held(frames, S) \cup ({c} \X (1..m)))
        = Cardinality(Held(frames, S)) + Cardinality({c} \X (1..m)) - 0
  BY <1>3, <1>4, <1>7, FS_Union
<1>9. Cardinality(Held(frames, S \cup {c})) = Cardinality(Held(frames, S)) + m - 0
  BY <1>4, <1>5, <1>8
<1> QED
  BY <1>2, <1>3, <1>9

\* What callers hold depends on their own frames, and some of them hold no more than all.
LEMMA HoldersDecide ==
  ASSUME NEW frames \in [Callers -> Frames], NEW S \in SUBSET Callers
  PROVE  /\ Cardinality(Held(frames, S)) \in Nat
         /\ Cardinality(Held(frames, S)) <= Cardinality(Held(frames, Callers))
         /\ \A others \in [Callers -> Frames] :
              (\A c \in S : others[c].mine = frames[c].mine) => Held(others, S) = Held(frames, S)
<1>1. IsFiniteSet(Callers \X (1..Dearest))
  <2>1. IsFiniteSet(Callers) /\ IsFiniteSet(1..Dearest)
    BY Prices, LlmCallAssumption, FS_Interval
  <2> QED
    BY <2>1, FS_Product
<1>2. IsFiniteSet(Held(frames, Callers))
  BY <1>1, FS_Subset DEF Held
<1>3. Held(frames, S) \in SUBSET Held(frames, Callers)
  BY DEF Held
<1>4. IsFiniteSet(Held(frames, S)) /\ Cardinality(Held(frames, S)) \in Nat
      /\ Cardinality(Held(frames, S)) <= Cardinality(Held(frames, Callers))
  BY <1>2, <1>3, FS_Subset, FS_CardinalityType
<1> QED
  BY <1>4 DEF Held

\* What a step can do to the money of a session: nothing, while one call moves on and
\* keeps what it holds; a reservation; a booking; a departure; or the end of the process.
MovesOn(c) ==
    /\ UNCHANGED <<spent, largest, reserved>>
    /\ call'[c].mine = call[c].mine
    /\ \A d \in Callers \ {c} : call'[d] = call[d]
    /\ call[c].at \in {"idle", "reserve"} <=> call'[c].at \in {"idle", "reserve"}
    /\ c \in Unbooked' => c \in Unbooked

TakesHeadroom(c) ==
    /\ At(c, "reserve") /\ HasHeadroom
    /\ UNCHANGED <<spent, largest>>
    /\ reserved' = reserved + largest
    /\ call'[c].mine = largest /\ call'[c].at = "preflight"
    /\ \A d \in Callers \ {c} : call'[d] = call[d]

IsBooked(c) ==
    /\ At(c, "book")
    /\ spent' = spent + call[c].answer
    /\ largest' = IF call[c].answer > largest THEN call[c].answer ELSE largest
    /\ reserved' = reserved
    /\ call'[c].mine = call[c].mine /\ call'[c].at = "check"
    /\ \A d \in Callers \ {c} : call'[d] = call[d]

GivesBack(c) ==
    /\ At(c, "leaving")
    /\ UNCHANGED <<spent, largest>>
    /\ reserved' = IF reserved > call[c].mine THEN reserved - call[c].mine ELSE 0
    /\ call'[c].mine = 0 /\ call'[c].at = "idle"
    /\ \A d \in Callers \ {c} : call'[d] = call[d]

StartsAnew ==
    /\ spent' = 0 /\ largest' = 0 /\ reserved' = 0
    /\ \A c \in Callers : call'[c].mine = 0 /\ call'[c].at = "idle"

\* Every step is one of these, or leaves money and calls alone.
LEMMA MoneySteps ==
  TypeOK /\ [Next]_vars
  => \/ UNCHANGED <<spent, largest, reserved, call>>
     \/ \E c \in Callers : MovesOn(c) \/ TakesHeadroom(c) \/ IsBooked(c) \/ GivesBack(c)
     \/ StartsAnew
<1> SUFFICES ASSUME TypeOK, [Next]_vars
             PROVE  \/ UNCHANGED <<spent, largest, reserved, call>>
                    \/ \E c \in Callers :
                         MovesOn(c) \/ TakesHeadroom(c) \/ IsBooked(c) \/ GivesBack(c)
                    \/ StartsAnew
  OBVIOUS
<1> USE DEF At
<1>0. ASSUME NEW c \in Callers, NEW place \in Places, GoTo(c, place), UNCHANGED <<spent, largest, reserved>>,
             call[c].at \in {"idle", "reserve"} <=> place \in {"idle", "reserve"},
             call[c].at \in {"idle", "reserve", "check", "leaving"} => place \notin (Places \ {"idle", "reserve", "check", "leaving"})
      PROVE  MovesOn(c)
  BY <1>0 DEF MovesOn, GoTo, TypeOK, Frames, Unbooked, Paying, Places
<1>1. ASSUME NEW c \in Callers, Begin(c) PROVE MovesOn(c)
  BY <1>0, <1>1 DEF Begin, session, Places
<1>2. ASSUME NEW c \in Callers, Reserve(c) PROVE MovesOn(c) \/ TakesHeadroom(c)
  <2>1. CASE HasHeadroom
    BY <1>2, <2>1 DEF Reserve, TakesHeadroom, TypeOK, Frames
  <2>2. CASE ~HasHeadroom
    BY <1>0, <1>2, <2>2 DEF Reserve, Places
  <2> QED
    BY <2>1, <2>2
<1>3. ASSUME NEW c \in Callers, Preflight(c) PROVE MovesOn(c)
  BY <1>0, <1>3 DEF Preflight, Raise, session, Places
<1>4. ASSUME NEW c \in Callers, LookUp(c) PROVE MovesOn(c)
  BY <1>0, <1>4 DEF LookUp, session, Places
<1>5. ASSUME NEW c \in Callers, ReadCircuit(c) PROVE MovesOn(c)
  BY <1>0, <1>5 DEF ReadCircuit, Raise, session, Places
<1>6. ASSUME NEW c \in Callers, ProbeCircuit(c) PROVE MovesOn(c)
  BY <1>0, <1>6 DEF ProbeCircuit, Raise, session, Places
<1>7. ASSUME NEW c \in Callers, TakeSlot(c) PROVE MovesOn(c)
  BY <1>7 DEF TakeSlot, session, MovesOn, TypeOK, Frames, Unbooked, Paying
<1>8. ASSUME NEW c \in Callers, ProviderFails(c) PROVE MovesOn(c)
  BY <1>0, <1>8 DEF ProviderFails, Raise, session, Places
<1>9. ASSUME NEW c \in Callers, ProviderAnswers(c) PROVE MovesOn(c)
  <2>1. ASSUME NEW cost \in Costs, call' = [call EXCEPT ![c].at = "store", ![c].answer = cost]
        PROVE  MovesOn(c)
    <3>1. call[c].at = "asking" /\ UNCHANGED <<spent, largest, reserved>>
      BY <1>9 DEF ProviderAnswers, session
    <3>2. call'[c].at = "store" /\ call'[c].mine = call[c].mine /\ \A d \in Callers \ {c} : call'[d] = call[d]
      BY <2>1 DEF TypeOK, Frames
    <3> QED
      BY <3>1, <3>2 DEF MovesOn, Unbooked, Paying
  <2> QED
    BY <1>0, <1>9, <2>1 DEF ProviderAnswers, Raise, session, Places
<1>10. ASSUME NEW c \in Callers, CountFailure(c) PROVE MovesOn(c)
  BY <1>0, <1>10 DEF CountFailure, session, Places
<1>11. ASSUME NEW c \in Callers, OpenCircuit(c) PROVE MovesOn(c)
  BY <1>0, <1>11 DEF OpenCircuit, Raise, session, Places
<1>12. ASSUME NEW c \in Callers, StampCircuit(c) PROVE MovesOn(c)
  BY <1>0, <1>12 DEF StampCircuit, Raise, session, Places
<1>13. ASSUME NEW c \in Callers, StoreResponse(c) PROVE MovesOn(c)
  BY <1>0, <1>13 DEF StoreResponse, session, Places
<1>14. ASSUME NEW c \in Callers, RecordSuccess(c) PROVE MovesOn(c)
  BY <1>0, <1>14 DEF RecordSuccess, session, Places
<1>15. ASSUME NEW c \in Callers, Book(c) PROVE IsBooked(c)
  BY <1>15 DEF Book, GoTo, IsBooked, TypeOK, Frames
<1>16. ASSUME NEW c \in Callers, Check(c) PROVE MovesOn(c)
  BY <1>0, <1>16 DEF Check, session, Places
<1>17. ASSUME NEW c \in Callers, Leave(c) PROVE GivesBack(c)
  BY <1>17 DEF Leave, GivesBack, Frame, TypeOK
<1>18. ASSUME ResetSecondsPass PROVE UNCHANGED <<spent, largest, reserved, call>>
  BY <1>18 DEF ResetSecondsPass, session
<1>19. ASSUME Crash PROVE StartsAnew
  BY <1>19 DEF Crash, StartsAnew, Frame
<1>20. ASSUME UNCHANGED vars PROVE UNCHANGED <<spent, largest, reserved, call>>
  BY <1>20 DEF vars, session
<1> QED
  BY <1>1, <1>2, <1>3, <1>4, <1>5, <1>6, <1>7, <1>8, <1>9, <1>10, <1>11, <1>12, <1>13, <1>14, <1>15, <1>16, <1>17, <1>18, <1>19, <1>20
  DEF Next, Step

\* The reservation of the session stays what its calls hold.
LEMMA AccountStep ==
  TypeOK /\ AttemptRemains /\ HoldingsFollowPrices /\ HeadroomIsAccounted /\ [Next]_vars
  => HeadroomIsAccounted'
<1> SUFFICES ASSUME TypeOK, TypeOK', HoldingsFollowPrices, HeadroomIsAccounted, [Next]_vars
             PROVE  reserved' = Cardinality(Held(call', Callers))
  <2>1. TypeOK /\ HeadroomIsAccounted /\ [Next]_vars => GateIsAccounted'
    BY GateStep DEF HeadroomIsAccounted
  <2>2. UnitsOf(Callers)' = Held(call', Callers)
    BY DEF UnitsOf, Held
  <2> QED
    BY <2>1, <2>2, TypeStep DEF HeadroomIsAccounted
<1>1. call \in [Callers -> Frames] /\ call' \in [Callers -> Frames] /\ reserved \in Nat
  BY DEF TypeOK
<1>2. reserved = Cardinality(Held(call, Callers))
  BY DEF HeadroomIsAccounted, UnitsOf, Held
<1>3. ASSUME NEW c \in Callers, \A d \in Callers \ {c} : call'[d] = call[d]
      PROVE  /\ call[c].mine \in Nat /\ call'[c].mine \in Nat
             /\ Cardinality(Held(call', Callers)) \in Nat
             /\ Cardinality(Held(call', Callers)) = reserved - call[c].mine + call'[c].mine
             /\ reserved >= call[c].mine
  <2> DEFINE rest == Callers \ {c}
             others == Cardinality(Held(call, rest))
  <2>1. rest \in SUBSET Callers /\ c \in Callers \ rest /\ rest \cup {c} = Callers
    OBVIOUS
  <2>2. Held(call', rest) = Held(call, rest)
    BY <1>1, <1>3, HoldersDecide
  <2>3. others \in Nat /\ reserved = others + call[c].mine
    BY <1>1, <1>2, <2>1, OneMoreHolds
  <2>4. Cardinality(Held(call', Callers)) = others + call'[c].mine
    BY <1>1, <2>1, <2>2, OneMoreHolds
  <2>5. call[c].mine \in Nat /\ call'[c].mine \in Nat
    <3>1. Costs \cup {0} \subseteq Nat /\ call[c] \in Frames /\ call'[c] \in Frames
      BY <1>1, LlmCallAssumption
    <3> QED
      BY <3>1 DEF Frames
  <2> HIDE DEF others
  <2> QED
    BY <2>3, <2>4, <2>5
<1>4. ASSUME NEW c \in Callers, MovesOn(c) PROVE reserved' = Cardinality(Held(call', Callers))
  <2>1. call'[c].mine = call[c].mine /\ reserved' = reserved /\ \A d \in Callers \ {c} : call'[d] = call[d]
    BY <1>4 DEF MovesOn
  <2> QED
    BY <1>1, <1>3, <2>1
<1>5. ASSUME NEW c \in Callers, TakesHeadroom(c) PROVE reserved' = Cardinality(Held(call', Callers))
  <2>1. /\ call'[c].mine = largest /\ reserved' = reserved + largest
        /\ \A d \in Callers \ {c} : call'[d] = call[d]
    BY <1>5 DEF TakesHeadroom
  <2>2. call[c].mine = 0
    BY <1>5 DEF TakesHeadroom, HoldingsFollowPrices
  <2> QED
    BY <1>1, <1>3, <2>1, <2>2
<1>6. ASSUME NEW c \in Callers, IsBooked(c) PROVE reserved' = Cardinality(Held(call', Callers))
  <2>1. call'[c].mine = call[c].mine /\ reserved' = reserved /\ \A d \in Callers \ {c} : call'[d] = call[d]
    BY <1>6 DEF IsBooked
  <2> QED
    BY <1>1, <1>3, <2>1
<1>7. ASSUME NEW c \in Callers, GivesBack(c) PROVE reserved' = Cardinality(Held(call', Callers))
  <2>1. /\ call'[c].mine = 0 /\ \A d \in Callers \ {c} : call'[d] = call[d]
        /\ reserved' = IF reserved > call[c].mine THEN reserved - call[c].mine ELSE 0
    BY <1>7 DEF GivesBack
  <2> QED
    BY <1>1, <1>3, <2>1
<1>8. ASSUME StartsAnew PROVE reserved' = Cardinality(Held(call', Callers))
  <2>1. Held(call', Callers) = {}
    BY <1>8 DEF StartsAnew, Held
  <2> QED
    BY <1>8, <2>1, FS_EmptySet DEF StartsAnew
<1> QED
  BY <1>2, <1>4, <1>5, <1>6, <1>7, <1>8, MoneySteps

\* What calls hold follows the prices that were booked.
LEMMA HoldingsStep ==
  TypeOK /\ GateIsAccounted /\ HoldingsFollowPrices /\ [Next]_vars => HoldingsFollowPrices'
<1> SUFFICES ASSUME TypeOK, GateIsAccounted, HoldingsFollowPrices, [Next]_vars
             PROVE  HoldingsFollowPrices'
  OBVIOUS
<1>1. /\ spent \in Nat /\ largest \in Nat
      /\ \A c \in Callers : call[c].mine \in Nat /\ call[c].answer \in Nat
  <2>1. /\ Costs \cup {0} \subseteq Nat /\ spent \in Nat /\ largest \in Nat
        /\ \A c \in Callers : call[c] \in Frames
    BY LlmCallAssumption DEF TypeOK
  <2> QED
    BY <2>1 DEF Frames
<1>2. ASSUME NEW c \in Callers, MovesOn(c) PROVE HoldingsFollowPrices'
  BY <1>2 DEF MovesOn, HoldingsFollowPrices, Unbooked, At
<1>3. ASSUME NEW c \in Callers, TakesHeadroom(c) PROVE HoldingsFollowPrices'
  BY <1>1, <1>3 DEF TakesHeadroom, HoldingsFollowPrices, Unbooked, Paying, At
<1>4. ASSUME NEW c \in Callers, IsBooked(c) PROVE HoldingsFollowPrices'
  <2>1. /\ call[c].at = "book" /\ call'[c].at = "check" /\ call'[c].mine = call[c].mine
        /\ \A d \in Callers \ {c} : call'[d] = call[d]
    BY <1>4 DEF IsBooked, At
  <2>2. largest' \in Nat /\ largest <= largest' /\ call[c].answer <= largest'
    BY <1>1, <1>4 DEF IsBooked
  <2>3. \A d \in Callers : (At(d, "idle") \/ At(d, "reserve") => call[d].mine = 0)'
    BY <2>1 DEF HoldingsFollowPrices, At
  <2>4. \A d \in Callers : call'[d].mine <= largest'
    BY <1>1, <2>1, <2>2 DEF HoldingsFollowPrices
  <2>5. ASSUME NEW d \in Unbooked', call'[d].mine = 0 PROVE FALSE
    <3>1. d # c /\ d \in Unbooked /\ call[d].mine = 0 /\ c \in Unbooked
      BY <2>1, <2>5 DEF Unbooked, Paying
    <3>2. largest = 0 /\ call[c].mine = 0
      BY <1>1, <3>1 DEF HoldingsFollowPrices
    <3>3. gate = c /\ gate = d
      BY <3>1, <3>2 DEF GateIsAccounted, At, Unbooked, Paying
    <3> QED
      BY <3>1, <3>3
  <2>6. largest' = 0 => spent' = 0
    BY <1>1, <1>4, <2>2 DEF IsBooked, HoldingsFollowPrices
  <2> QED
    BY <2>3, <2>4, <2>5, <2>6 DEF HoldingsFollowPrices
<1>5. ASSUME NEW c \in Callers, GivesBack(c) PROVE HoldingsFollowPrices'
  BY <1>1, <1>5 DEF GivesBack, HoldingsFollowPrices, Unbooked, Paying, At
<1>6. ASSUME StartsAnew PROVE HoldingsFollowPrices'
  BY <1>6 DEF StartsAnew, HoldingsFollowPrices, Unbooked, Paying, At
<1>7. ASSUME UNCHANGED <<spent, largest, reserved, call>> PROVE HoldingsFollowPrices'
  BY <1>7 DEF HoldingsFollowPrices, Unbooked, At
<1> QED
  BY <1>2, <1>3, <1>4, <1>5, <1>6, <1>7, MoneySteps

\* What is booked, and what may yet be booked on a reservation, stays within the budget and
\* the excess of the calls that have left theirs behind.
LEMMA KeptStep ==
  IInv /\ TypeOK' /\ [Next]_vars => HeadroomIsKept'
<1> SUFFICES ASSUME TypeOK, TypeOK', HeadroomIsAccounted, HoldingsFollowPrices, HeadroomIsKept, [Next]_vars
             PROVE  HeadroomIsKept'
  BY DEF IInv
<1> DEFINE k     == Dearest - Cheapest
           held  == Cardinality(Held(call, Unbooked))
           held1 == Cardinality(Held(call', Unbooked'))
           gone  == Cardinality(Callers \ Unbooked)
           gone1 == Cardinality(Callers \ Unbooked')
<1>1. /\ call \in [Callers -> Frames] /\ call' \in [Callers -> Frames]
      /\ spent \in Nat /\ largest \in Nat /\ reserved \in Nat /\ spent' \in Nat
      /\ Costs \cup {0} \subseteq Nat
      /\ \A c \in Callers : call[c].mine \in Nat /\ call[c].answer \in Costs \cup {0}
                            /\ call[c].mine \in Costs \cup {0}
  <2>1. /\ call \in [Callers -> Frames] /\ call' \in [Callers -> Frames]
        /\ spent \in Nat /\ largest \in Nat /\ reserved \in Nat /\ spent' \in Nat
    BY DEF TypeOK
  <2>2. Costs \cup {0} \subseteq Nat
    BY LlmCallAssumption
  <2> QED
    BY <2>1, <2>2 DEF Frames
<1>2. k \in Nat /\ Budget \in Nat /\ Dearest \in Nat
  BY Prices, LlmCallAssumption
<1>3. Unbooked \in SUBSET Callers /\ Unbooked' \in SUBSET Callers
  BY DEF Unbooked
<1>4. held \in Nat /\ held1 \in Nat /\ gone \in Nat /\ gone1 \in Nat
  <2>1. IsFiniteSet(Callers \ Unbooked) /\ IsFiniteSet(Callers \ Unbooked')
    BY LlmCallAssumption, FS_Difference
  <2> QED
    BY <1>1, <1>3, <2>1, HoldersDecide, FS_CardinalityType
<1>5. /\ HeadroomIsKept <=> \/ spent + held <= Budget + gone * k
                            \/ spent <= Dearest /\ \A c \in Unbooked : call[c].mine = 0
      /\ HeadroomIsKept' <=> \/ spent' + held1 <= Budget + gone1 * k
                             \/ spent' <= Dearest /\ \A c \in Unbooked' : call'[c].mine = 0
  <2>1. UnitsOf(Unbooked) = Held(call, Unbooked) /\ UnitsOf(Unbooked)' = Held(call', Unbooked')
    BY DEF UnitsOf, Held
  <2> QED
    BY <2>1 DEF HeadroomIsKept
\* A call that will not book any more leaves its reservation behind, and one excess more.
<1>6. ASSUME NEW c \in Unbooked, Unbooked' = Unbooked \ {c}, \A d \in Unbooked' : call'[d].mine = call[d].mine
      PROVE  held = held1 + call[c].mine /\ gone1 * k = gone * k + k
  <2>1. Held(call', Unbooked') = Held(call, Unbooked')
    BY <1>1, <1>3, <1>6, HoldersDecide
  <2>2. Unbooked' \cup {c} = Unbooked /\ c \in Callers \ Unbooked'
    BY <1>3, <1>6
  <2>3. held = held1 + call[c].mine
    BY <1>1, <1>3, <2>1, <2>2, OneMoreHolds
  <2>4. gone1 = gone + 1
    <3>1. Callers \ Unbooked' = (Callers \ Unbooked) \cup {c} /\ c \notin Callers \ Unbooked
      BY <1>3, <1>6
    <3>2. IsFiniteSet(Callers \ Unbooked)
      BY LlmCallAssumption, FS_Difference
    <3> QED
      BY <3>1, <3>2, FS_AddElement
  <2>5. \A n, m \in Nat : (n + 1) * m = n * m + m
    OBVIOUS
  <2> HIDE DEF held, held1, gone, gone1, k
  <2> QED
    BY <1>2, <1>4, <2>3, <2>4, <2>5
\* While the same calls may book, they hold the same.
<1>7. ASSUME Unbooked' = Unbooked, \A d \in Unbooked : call'[d].mine = call[d].mine
      PROVE  held1 = held /\ gone1 = gone
  BY <1>1, <1>3, <1>7, HoldersDecide
<1>8. gone * k \in Nat /\ gone1 * k \in Nat
  <2>1. \A n, m \in Nat : n * m \in Nat
    OBVIOUS
  <2> HIDE DEF gone, gone1, k
  <2> QED
    BY <1>2, <1>4, <2>1
<1>9. /\ k = Dearest - Cheapest /\ Cheapest \in Nat
      /\ \A cost \in Costs \cup {0} : cost <= Dearest /\ (cost > 0 => Cheapest <= cost)
  BY Prices
<1>10. held <= reserved
  BY <1>1, <1>3, HoldersDecide DEF HeadroomIsAccounted, UnitsOf, Held
<1>11. ASSUME NEW c \in Callers, MovesOn(c) PROVE HeadroomIsKept'
  <2>1. /\ spent' = spent /\ \A d \in Callers : call'[d].mine = call[d].mine
        /\ \A d \in Callers \ {c} : call'[d] = call[d]
        /\ c \in Unbooked' => c \in Unbooked
    BY <1>11 DEF MovesOn
  <2>2. Unbooked' = Unbooked \/ (c \in Unbooked /\ Unbooked' = Unbooked \ {c})
    BY <2>1 DEF Unbooked
  <2>3. CASE spent <= Dearest /\ \A d \in Unbooked : call[d].mine = 0
    BY <1>3, <1>5, <2>1, <2>2, <2>3
  <2>4. CASE spent + held <= Budget + gone * k
    <3>1. CASE Unbooked' = Unbooked
      <4>1. held1 = held /\ gone1 = gone
        BY <1>3, <1>7, <2>1, <3>1
      <4> QED
        BY <1>5, <2>1, <2>4, <4>1
    <3>2. CASE c \in Unbooked /\ Unbooked' = Unbooked \ {c}
      <4>1. held = held1 + call[c].mine /\ gone1 * k = gone * k + k
        BY <1>3, <1>6, <2>1, <3>2
      <4>2. call[c].mine \in Nat
        BY <1>1
      <4>3. spent' + held1 <= Budget + gone1 * k
        <5> HIDE DEF held, held1, gone, gone1, k
        <5> QED
          BY <1>1, <1>2, <1>4, <1>8, <2>1, <2>4, <4>1, <4>2
      <4> QED
        BY <1>5, <4>3
    <3> QED
      BY <2>2, <3>1, <3>2
  <2> QED
    BY <1>5, <2>3, <2>4
<1>12. ASSUME NEW c \in Callers, TakesHeadroom(c) PROVE HeadroomIsKept'
  <2>1. /\ spent' = spent /\ call'[c].mine = largest /\ At(c, "reserve") /\ call'[c].at = "preflight"
        /\ \A d \in Callers \ {c} : call'[d] = call[d]
    BY <1>12 DEF TakesHeadroom
  <2>2. Unbooked' = Unbooked \cup {c} /\ c \notin Unbooked
    BY <2>1 DEF Unbooked, Paying, At
  <2>3. CASE largest = 0
    <3>1. spent = 0 /\ \A d \in Callers : call[d].mine = 0
      BY <1>1, <2>3 DEF HoldingsFollowPrices
    <3>2. \A d \in Unbooked' : call'[d].mine = 0
      BY <1>3, <2>1, <2>3, <3>1
    <3> QED
      BY <1>2, <1>5, <2>1, <3>1, <3>2
  <2>4. CASE largest > 0
    <3>1. spent + reserved + largest <= Budget
      BY <1>12, <2>4 DEF TakesHeadroom, HasHeadroom
    <3>2. Held(call', Unbooked) = Held(call, Unbooked)
      <4>1. \A d \in Unbooked : call'[d].mine = call[d].mine
        BY <1>3, <2>1, <2>2
      <4> QED
        BY <1>1, <1>3, <4>1, HoldersDecide
    <3>3. held1 = held + largest
      <4>1. Cardinality(Held(call', Unbooked \cup {c})) = Cardinality(Held(call', Unbooked)) + call'[c].mine
        BY <1>1, <1>3, <2>2, OneMoreHolds
      <4> QED
        BY <2>1, <2>2, <3>2, <4>1
    <3>4. spent' + held1 <= Budget + gone1 * k
      <4> HIDE DEF held, held1, gone, gone1, k
      <4> QED
        BY <1>1, <1>2, <1>4, <1>8, <1>10, <2>1, <3>1, <3>3
    <3> QED
      BY <1>5, <3>4
  <2> QED
    BY <1>1, <2>3, <2>4
<1>13. ASSUME NEW c \in Callers, IsBooked(c) PROVE HeadroomIsKept'
  <2>1. /\ spent' = spent + call[c].answer /\ At(c, "book") /\ call'[c].at = "check"
        /\ call'[c].mine = call[c].mine
        /\ \A d \in Callers \ {c} : call'[d] = call[d]
    BY <1>13 DEF IsBooked
  <2>2. c \in Unbooked /\ Unbooked' = Unbooked \ {c}
    BY <2>1 DEF Unbooked, Paying, At
  <2>3. \A d \in Callers : call'[d].mine = call[d].mine
    BY <2>1
  <2>4. /\ call[c].answer \in Nat /\ call[c].answer <= Dearest
        /\ call[c].mine \in Nat /\ (call[c].mine > 0 => Cheapest <= call[c].mine)
    <3>1. call[c].answer \in Costs \cup {0} /\ call[c].mine \in Costs \cup {0}
      BY <1>1
    <3> QED
      BY <1>1, <1>9, <3>1
  <2>5. CASE call[c].mine = 0
    <3>1. largest = 0
      BY <2>2, <2>5 DEF HoldingsFollowPrices
    <3>2. spent = 0 /\ \A d \in Callers : call[d].mine = 0
      BY <1>1, <3>1 DEF HoldingsFollowPrices
    <3>3. spent' <= Dearest
      BY <1>2, <2>1, <2>4, <3>2
    <3> QED
      BY <1>3, <1>5, <2>3, <3>2, <3>3
  <2>6. CASE call[c].mine > 0
    <3>1. spent + held <= Budget + gone * k
      BY <1>5, <2>2, <2>6
    <3>2. held = held1 + call[c].mine /\ gone1 * k = gone * k + k
      BY <1>3, <1>6, <2>2, <2>3
    <3>3. call[c].answer <= k + call[c].mine
      <4> HIDE DEF k
      <4> QED
        BY <1>2, <1>9, <2>4, <2>6
    <3>4. spent' + held1 <= Budget + gone1 * k
      <4> HIDE DEF held, held1, gone, gone1, k
      <4> QED
        BY <1>1, <1>2, <1>4, <1>8, <2>1, <2>4, <3>1, <3>2, <3>3
    <3> QED
      BY <1>5, <3>4
  <2> QED
    BY <2>4, <2>5, <2>6
<1>14. ASSUME NEW c \in Callers, GivesBack(c) PROVE HeadroomIsKept'
  <2>1. /\ spent' = spent /\ At(c, "leaving") /\ call'[c].at = "idle"
        /\ \A d \in Callers \ {c} : call'[d] = call[d]
    BY <1>14 DEF GivesBack
  <2>2. Unbooked' = Unbooked /\ c \notin Unbooked
    BY <2>1 DEF Unbooked, Paying, At
  <2>3. \A d \in Unbooked : call'[d].mine = call[d].mine
    BY <1>3, <2>1, <2>2
  <2>4. held1 = held /\ gone1 = gone
    BY <1>7, <2>2, <2>3
  <2> QED
    BY <1>5, <2>1, <2>2, <2>3, <2>4
<1>15. ASSUME StartsAnew PROVE HeadroomIsKept'
  <2>1. spent' = 0 /\ Unbooked' = {}
    BY <1>15 DEF StartsAnew, Unbooked, Paying
  <2> QED
    BY <1>2, <1>5, <2>1
<1>16. ASSUME UNCHANGED <<spent, largest, reserved, call>> PROVE HeadroomIsKept'
  BY <1>16 DEF HeadroomIsKept, Unbooked, UnitsOf
<1> QED
  BY <1>11, <1>12, <1>13, <1>14, <1>15, <1>16, MoneySteps

\* The invariant of the specification.
THEOREM Invariance == Spec => []IInv
<1>1. IInv /\ [Next]_vars => IInv'
  BY TypeStep, AccountStep, HoldingsStep, KeptStep, PaymentStep, CircuitStep DEF IInv, HeadroomIsAccounted
<1> QED
  BY <1>1, InitIInv, PTL DEF Spec

\* The state keeps its types, and no more slots are held than the governor has.
THEOREM TypeCorrect == Spec => []TypeOK
<1>1. IInv => TypeOK
  BY DEF IInv
<1> QED
  BY <1>1, Invariance, PTL

\* Whatever a call meets, a session's reservation is the sum of what its calls in flight
\* hold, and the lock a call kept is given back with its end, and only then.
THEOREM ReservationFollowsCalls == Spec => []HeadroomIsAccounted
<1>1. IInv => HeadroomIsAccounted
  BY DEF IInv
<1> QED
  BY <1>1, Invariance, PTL

\* In particular the lock is kept exactly by a call in flight that reserved nothing.
COROLLARY GateFollowsCalls == Spec => []GateIsAccounted
<1>1. HeadroomIsAccounted => GateIsAccounted
  BY DEF HeadroomIsAccounted
<1> QED
  BY <1>1, ReservationFollowsCalls, PTL

\* However many callers overlap, a session books no more than its budget and one excess
\* over the cheapest price for each, or one first answer of unknown price.
THEOREM ConcurrentSpendIsBounded == Spec => []SpendWithinHeadroom
<1>1. IInv => SpendWithinHeadroom
  <2> SUFFICES ASSUME IInv, ~(spent <= Dearest) PROVE SpendWithinHeadroom
    BY DEF SpendWithinHeadroom
  <2> DEFINE k    == Dearest - Cheapest
             gone == Cardinality(Callers \ Unbooked)
             all  == Cardinality(Callers)
             held == Cardinality(Held(call, Unbooked))
  <2>1. spent + held <= Budget + gone * k
    BY DEF IInv, HeadroomIsKept, UnitsOf, Held
  <2>2. held \in Nat
    <3>1. call \in [Callers -> Frames] /\ Unbooked \in SUBSET Callers
      BY DEF IInv, TypeOK, Unbooked
    <3> QED
      BY <3>1, HoldersDecide
  <2>3. gone \in Nat /\ all \in Nat /\ gone <= all
    BY LlmCallAssumption, FS_Subset, FS_CardinalityType
  <2>4. k \in Nat /\ Budget \in Nat /\ spent \in Nat
    BY Prices, LlmCallAssumption DEF IInv, TypeOK
  <2>5. gone * k <= all * k /\ gone * k \in Nat /\ all * k \in Nat
    <3>1. \A n, m, l \in Nat : n <= m => n * l <= m * l /\ n * l \in Nat /\ m * l \in Nat
      OBVIOUS
    <3> HIDE DEF gone, all, k
    <3> QED
      BY <2>3, <2>4, <3>1
  <2>6. spent <= Budget + all * k
    <3> HIDE DEF gone, all, k, held
    <3> QED
      BY <2>1, <2>2, <2>4, <2>5
  <2> QED
    BY <2>6 DEF SpendWithinHeadroom
<1> QED
  BY <1>1, Invariance, PTL

\* An answer booked for a logical call, by this process or an earlier one, is not paid again.
THEOREM BookedIsNotPaidAgain == Spec => []RecordedIsNeverPaidAgain
<1>1. IInv => RecordedIsNeverPaidAgain
  BY DEF IInv
<1> QED
  BY <1>1, Invariance, PTL

\* The circuit that no lock protects stays consistent.
THEOREM CircuitStaysConsistent == Spec => []CircuitIsConsistent
<1>1. IInv => CircuitIsConsistent
  BY DEF IInv
<1> QED
  BY <1>1, Invariance, PTL
==================================================================================
