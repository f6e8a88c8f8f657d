--------------------------------- MODULE LlmCall --------------------------------
(***************************************************************************)
(* Model calls made by several threads of one process: the reservation of  *)
(* budget headroom, the replay of a stored answer, the circuit breaker,    *)
(* the governor's slots, the retries, and the order in which an answer is  *)
(* stored, booked and checked.  A caller stands for one slot of a fan-out; *)
(* it repeats its call after a failure, and after a crash of the process,  *)
(* which loses the session and the breaker but not the stored answers.     *)
(*                                                                         *)
(* Costs are whole units; 0 stands for an answer without a price.  Threads *)
(* switch between any two actions: what CPython runs without a call in     *)
(* between (the writes of record_success) is one action.                   *)
(***************************************************************************)
EXTENDS Naturals, FiniteSets, FiniteSetsExt

CONSTANTS Callers,
          Logical,       \* callers inside logical_llm_call, whose answers are stored
          Costs,         \* what an answer may cost
          Budget,        \* COGEV_LLM_BUDGET_USD, set
          Threshold,     \* failures that open the circuit
          MaxConcurrent, \* slots of the governor
          MaxAttempts,   \* attempts of one call
          MaxCalls       \* bound on the calls of one caller

ASSUME LlmCallAssumption ==
    /\ IsFiniteSet(Callers) /\ Logical \subseteq Callers
    /\ IsFiniteSet(Costs) /\ Costs \subseteq Nat /\ \E cost \in Costs : cost > 0
    /\ {Budget, Threshold, MaxConcurrent, MaxAttempts, MaxCalls} \subseteq Nat \ {0}

VARIABLES spent,     \* sum of the session's priced events that are no replays
          largest,   \* the largest of their costs
          reserved,  \* session.budget_reservation_usd
          gate,      \* who holds session.budget_call_lock
          breaker,   \* state, failure_count and opened_at of the provider's circuit
          expired,   \* callers in before_call whose clock reading is past opened_at + reset
          slots,     \* callers that hold a slot of the governor
          responses, \* callers whose answer is in llm-responses/
          call,      \* each caller's place in its call, and its local variables
          calls,     \* calls each caller began
          booked     \* callers whose answer was booked in any session (history)

session == <<spent, largest, reserved, gate>>

circuit == <<breaker, expired>>

vars == <<session, circuit, slots, responses, call, calls, booked>>

Nobody == "nobody"

ASSUME NobodyAssumption == Nobody \notin Callers

Closed == [state |-> "closed", failures |-> 0, opened |-> "never"]

Frame == [at |-> "idle", mine |-> 0, attempts |-> 0, answer |-> 0]

Init == /\ spent = 0 /\ largest = 0 /\ reserved = 0 /\ gate = Nobody
        /\ breaker = Closed /\ expired = {}
        /\ slots = {}
        /\ responses = {} /\ booked = {}
        /\ call = [c \in Callers |-> Frame] /\ calls = [c \in Callers |-> 0]

---------------------------------------------------------------------------

At(c, place) == call[c].at = place

GoTo(c, place) == call' = [call EXCEPT ![c].at = place]

\* Mutant: the reservation is returned after the call, in no finally block.
RaisePastReservation(c) == GoTo(c, "idle")

\* Every exception inside the reservation ends in its finally blocks.
Raise(c) == GoTo(c, "leaving")

Begin(c) ==
    /\ At(c, "idle") /\ calls[c] < MaxCalls
    /\ calls' = [calls EXCEPT ![c] = @ + 1]
    /\ GoTo(c, "reserve")
    /\ UNCHANGED <<session, circuit, slots, responses, booked>>

\* Mutant: calls in flight are left out of the sum.
HasHeadroomNow == spent < Budget /\ (largest > 0 => spent + largest <= Budget)

HasHeadroom ==
    /\ spent < Budget
    /\ largest > 0 => spent + reserved + largest <= Budget

\* Under the lock the reservation is refused, or takes the largest cost seen so far.
\* With a price known the lock is given back at once; without one the call keeps it.
Reserve(c) ==
    /\ At(c, "reserve") /\ gate = Nobody
    /\ \/ /\ ~HasHeadroom
          /\ GoTo(c, "idle")
          /\ UNCHANGED <<reserved, gate>>
       \/ /\ HasHeadroom
          /\ reserved' = reserved + largest
          /\ gate' = IF largest > 0 THEN Nobody ELSE c
          /\ call' = [call EXCEPT ![c].at = "preflight", ![c].mine = largest]
    /\ UNCHANGED <<spent, largest, circuit, slots, responses, calls, booked>>

\* enforce_budget(preflight=True)
Preflight(c) ==
    /\ At(c, "preflight")
    /\ IF spent >= Budget THEN Raise(c) ELSE GoTo(c, "lookup")
    /\ UNCHANGED <<session, circuit, slots, responses, calls, booked>>

\* A stored answer is returned after its replay event, which costs nothing.
LookUp(c) ==
    /\ At(c, "lookup")
    /\ GoTo(c, IF c \in responses THEN "check" ELSE "circuit")
    /\ UNCHANGED <<session, circuit, slots, responses, calls, booked>>

---------------------------------------------------------------------------

\* before_call up to its reading of the clock: an open circuit with a time is measured.
ReadCircuit(c) ==
    /\ At(c, "circuit")
    /\ IF breaker.state # "open" THEN GoTo(c, "slot") /\ UNCHANGED expired
       ELSE IF breaker.opened = "never" THEN Raise(c) /\ UNCHANGED expired
       ELSE /\ GoTo(c, "probing")
            /\ expired' = IF breaker.opened = "past" THEN expired \cup {c} ELSE expired
    /\ UNCHANGED <<session, breaker, slots, responses, calls, booked>>

\* The rest of before_call.  A success of another thread since has removed opened_at,
\* and the subtraction raises; a new opened_at is later than the reading.
ProbeCircuit(c) ==
    /\ At(c, "probing")
    /\ \/ /\ breaker.opened = "never"
          /\ Raise(c) /\ UNCHANGED breaker
       \/ /\ breaker.opened # "never" /\ c \in expired
          /\ breaker' = [breaker EXCEPT !.state = "half_open"]
          /\ GoTo(c, "slot")
       \/ /\ breaker.opened # "never" /\ c \notin expired
          /\ IF breaker.state = "open" THEN Raise(c) ELSE GoTo(c, "slot")
          /\ UNCHANGED breaker
    /\ expired' = expired \ {c}
    /\ UNCHANGED <<session, slots, responses, calls, booked>>

ResetSecondsPass ==
    /\ breaker.opened = "recent"
    /\ breaker' = [breaker EXCEPT !.opened = "past"]
    /\ UNCHANGED <<session, expired, slots, responses, call, calls, booked>>

TakeSlot(c) ==
    /\ At(c, "slot") /\ Cardinality(slots) < MaxConcurrent
    /\ slots' = slots \cup {c}
    /\ call' = [call EXCEPT ![c].at = "asking", ![c].attempts = @ + 1]
    /\ UNCHANGED <<session, circuit, responses, calls, booked>>

CanRetry(c) == call[c].attempts < MaxAttempts

\* Mutant: the slot is given back only after a successful completion.
ProviderFailsInSlot(c) ==
    /\ At(c, "asking")
    /\ \/ CanRetry(c) /\ GoTo(c, "slot")
       \/ GoTo(c, "failed")
    /\ UNCHANGED <<session, circuit, slots, responses, calls, booked>>

\* The request fails: a retryable error is tried again while attempts remain.
ProviderFails(c) ==
    /\ At(c, "asking")
    /\ slots' = slots \ {c}
    /\ \/ CanRetry(c) /\ GoTo(c, "slot")
       \/ GoTo(c, "failed")
    /\ UNCHANGED <<session, circuit, responses, calls, booked>>

\* The provider answers, at a cost.  An answer that is an error, truncated or no JSON
\* is asked for again while attempts remain and then raises, unbooked; one without
\* any content raises at once.
ProviderAnswers(c) ==
    /\ At(c, "asking")
    /\ slots' = slots \ {c}
    /\ \/ \E cost \in Costs : call' = [call EXCEPT ![c].at = "store", ![c].answer = cost]
       \/ CanRetry(c) /\ GoTo(c, "slot")
       \/ Raise(c)
    /\ UNCHANGED <<session, circuit, responses, calls, booked>>

---------------------------------------------------------------------------

\* record_failure up to its comparison with the threshold.
CountFailure(c) ==
    /\ At(c, "failed")
    /\ breaker' = [breaker EXCEPT !.failures = @ + 1]
    /\ GoTo(c, "counted")
    /\ UNCHANGED <<session, expired, slots, responses, calls, booked>>

\* At the threshold the circuit is open before the clock is read.
OpenCircuit(c) ==
    /\ At(c, "counted")
    /\ \/ /\ breaker.failures >= Threshold
          /\ breaker' = [breaker EXCEPT !.state = "open"]
          /\ GoTo(c, "opening")
       \/ /\ breaker.failures < Threshold
          /\ Raise(c) /\ UNCHANGED breaker
    /\ UNCHANGED <<session, expired, slots, responses, calls, booked>>

StampCircuit(c) ==
    /\ At(c, "opening")
    /\ breaker' = [breaker EXCEPT !.opened = "recent"]
    /\ expired' = {}
    /\ Raise(c)
    /\ UNCHANGED <<session, slots, responses, calls, booked>>

\* Mutant: only an answer with a price is stored.
StorePricedResponse(c) ==
    /\ At(c, "store")
    /\ responses' = IF call[c].answer > 0 THEN responses \cup ({c} \cap Logical) ELSE responses
    /\ GoTo(c, "succeed")
    /\ UNCHANGED <<session, circuit, slots, calls, booked>>

\* store_response replaces its file atomically, before anything is booked.
StoreResponse(c) ==
    /\ At(c, "store")
    /\ responses' = responses \cup ({c} \cap Logical)
    /\ GoTo(c, "succeed")
    /\ UNCHANGED <<session, circuit, slots, calls, booked>>

\* Mutant: the circuit is closed, its count of failures stays.
RecordSuccessKeepsCount(c) ==
    /\ At(c, "succeed")
    /\ breaker' = [Closed EXCEPT !.failures = breaker.failures]
    /\ GoTo(c, "book")
    /\ UNCHANGED <<session, expired, slots, responses, calls, booked>>

RecordSuccess(c) ==
    /\ At(c, "succeed")
    /\ breaker' = Closed
    /\ GoTo(c, "book")
    /\ UNCHANGED <<session, expired, slots, responses, calls, booked>>

\* record_event
Book(c) ==
    /\ At(c, "book")
    /\ spent' = spent + call[c].answer
    /\ largest' = IF call[c].answer > largest THEN call[c].answer ELSE largest
    /\ booked' = booked \cup {c}
    /\ GoTo(c, "check")
    /\ UNCHANGED <<reserved, gate, circuit, slots, responses, calls>>

\* enforce_budget(preflight=False) returns or raises: either way the call leaves.
Check(c) ==
    /\ At(c, "check")
    /\ GoTo(c, "leaving")
    /\ UNCHANGED <<session, circuit, slots, responses, calls, booked>>

\* The finally blocks of budget_reservation: the reservation is returned, and a lock
\* that was kept is given back.
Leave(c) ==
    /\ At(c, "leaving")
    /\ reserved' = IF reserved > call[c].mine THEN reserved - call[c].mine ELSE 0
    /\ gate' = IF gate = c THEN Nobody ELSE gate
    /\ call' = [call EXCEPT ![c] = Frame]
    /\ UNCHANGED <<spent, largest, circuit, slots, responses, calls, booked>>

\* The process dies; the next one starts with a new session and a closed circuit.
Crash ==
    /\ spent' = 0 /\ largest' = 0 /\ reserved' = 0 /\ gate' = Nobody
    /\ breaker' = Closed /\ expired' = {} /\ slots' = {}
    /\ call' = [c \in Callers |-> Frame]
    /\ UNCHANGED <<responses, calls, booked>>

Step(c) ==
    \/ Reserve(c) \/ Preflight(c) \/ LookUp(c)
    \/ ReadCircuit(c) \/ ProbeCircuit(c)
    \/ TakeSlot(c) \/ ProviderFails(c) \/ ProviderAnswers(c)
    \/ CountFailure(c) \/ OpenCircuit(c) \/ StampCircuit(c)
    \/ StoreResponse(c) \/ RecordSuccess(c) \/ Book(c) \/ Check(c) \/ Leave(c)

Next == \/ \E c \in Callers : Begin(c) \/ Step(c)
        \/ ResetSecondsPass
        \/ Crash

Spec == Init /\ [][Next]_vars

\* A thread that may run does; a request ends, because it has a timeout.  Calls,
\* crashes and the circuit's clock are not fair.
FairSpec == Spec /\ \A c \in Callers : WF_vars(Step(c))

---------------------------------------------------------------------------

Places == {"idle", "reserve", "preflight", "lookup", "circuit", "probing", "slot", "asking",
           "failed", "counted", "opening", "store", "succeed", "book", "check", "leaving"}

Frames == [at : Places, mine : Costs \cup {0}, attempts : 0..MaxAttempts, answer : Costs \cup {0}]

TypeOK ==
    /\ {spent, largest, reserved} \subseteq Nat /\ largest \in Costs \cup {0}
    /\ gate \in Callers \cup {Nobody}
    /\ breaker \in [state : {"closed", "open", "half_open"}, failures : Nat,
                     opened : {"never", "recent", "past"}]
    /\ expired \subseteq Callers /\ slots \subseteq Callers
    /\ Cardinality(slots) <= MaxConcurrent
    /\ responses \subseteq Logical /\ booked \subseteq Callers
    /\ call \in [Callers -> Frames]
    /\ calls \in [Callers -> 0..MaxCalls]

Dearest == Max(Costs)

Cheapest == Min(Costs \ {0})

\* Concurrent calls cannot spend the same headroom: what a session books goes beyond the
\* budget by no more than each concurrent call may cost above its reservation, or by a
\* first call whose price nobody knew.  With one price there is no excess at all.
SpendWithinHeadroom ==
    \/ spent <= Dearest
    \/ spent <= Budget + Cardinality(Callers) * (Dearest - Cheapest)

\* The lock of the reservation is kept exactly by a call in flight that reserved nothing.
GateIsAccounted ==
    \A c \in Callers : gate = c <=> ~At(c, "idle") /\ ~At(c, "reserve") /\ call[c].mine = 0

\* The units of budget some calls hold, one element for each.
UnitsOf(callers) == {held \in callers \X (1..Dearest) : held[2] <= call[held[1]].mine}

\* The reservation of the session is what its calls in flight hold, and the lock follows
\* them: nothing is lost on an exception, an early refusal or a replay, and nothing is
\* returned twice.
HeadroomIsAccounted ==
    /\ reserved = Cardinality(UnitsOf(Callers))
    /\ GateIsAccounted

Paying == {"circuit", "probing", "slot", "asking"}

\* An answer that was booked for a logical call, by this process or one that crashed, is
\* never asked for and paid again.
RecordedIsNeverPaidAgain ==
    \A c \in Logical \cap booked : call[c].at \notin Paying

\* The unlocked circuit stays consistent: it is open without a time only while a thread is
\* between its two writes, closed at the threshold only while one has yet to compare, and
\* half open only with a count that makes the next failure open it again.
CircuitIsConsistent ==
    /\ breaker.state = "open" /\ breaker.opened = "never" => \E c \in Callers : At(c, "opening")
    /\ breaker.state = "closed" /\ breaker.failures >= Threshold => \E c \in Callers : At(c, "counted")
    /\ breaker.state = "half_open" => breaker.failures >= Threshold

\* Every call returns or raises: no thread waits for ever on the budget's lock or on a slot.
CallsEnd == \A c \in Callers : ~At(c, "idle") ~> At(c, "idle")

\* What the invariants above rest on: a call that may still ask has an attempt left; an
\* answer on its way to be booked, or booked, is stored; a circuit that is open, or past
\* its time for somebody, has its count.
AttemptRemains ==
    \A c \in Callers :
      call[c].at \in {"idle", "reserve", "preflight", "lookup", "circuit", "probing", "slot"}
      => call[c].attempts < MaxAttempts

StoredBeforeBooked ==
    \A c \in Logical : c \in booked \/ call[c].at \in {"succeed", "book"} => c \in responses

CountExplainsCircuit ==
    /\ breaker.state = "open" => breaker.failures >= Threshold
    /\ expired # {} /\ breaker.opened # "never" => breaker.failures >= Threshold

\* A call holds nothing before it reserved, and no more than the dearest answer booked so
\* far; one that may yet book an answer holds nothing only while nothing with a price is
\* booked.
Unbooked ==
    {c \in Callers : call[c].at \in Paying \cup
                       {"preflight", "lookup", "failed", "counted", "opening", "store", "succeed", "book"}}

HoldingsFollowPrices ==
    /\ \A c \in Callers : At(c, "idle") \/ At(c, "reserve") => call[c].mine = 0
    /\ \A c \in Callers : call[c].mine <= largest
    /\ \A c \in Unbooked : call[c].mine = 0 => largest = 0
    /\ largest = 0 => spent = 0

\* What is booked and what may yet be booked on a reservation fits the budget, but for the
\* calls that have left their reservation behind; or a first call of unknown price spent
\* what it did, and nothing may be booked on a reservation.
HeadroomIsKept ==
    \/ spent + Cardinality(UnitsOf(Unbooked))
         <= Budget + Cardinality(Callers \ Unbooked) * (Dearest - Cheapest)
    \/ spent <= Dearest /\ \A c \in Unbooked : call[c].mine = 0

IInv == /\ TypeOK /\ AttemptRemains
        /\ HeadroomIsAccounted /\ HoldingsFollowPrices /\ HeadroomIsKept
        /\ StoredBeforeBooked /\ RecordedIsNeverPaidAgain
        /\ CountExplainsCircuit /\ CircuitIsConsistent
==================================================================================
