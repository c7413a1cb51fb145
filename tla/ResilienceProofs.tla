-------------------------- MODULE ResilienceProofs --------------------------
(***************************************************************************)
(* The circuit breaker under any number of callers, attempts and results   *)
(* in any order.  Only allowRequest and recordResult touch its counters,   *)
(* so each invariant has one case per critical section.                    *)
(***************************************************************************)
EXTENDS Resilience, FiniteSetTheorems, TLAPS

(* Steps that leave the breaker alone. *)
Elsewhere(c) ==
  Execute(c) \/ Cancelled(c) \/ Rejected(c) \/ Operation(c) \/ ShouldRetry(c) \/ Delay(c)

(* What every step does to the breaker. *)
BreakerStep ==
  \/ UNCHANGED breaker
  \/ Admit
  \/ recordSuccess
  \/ recordFailure
  \/ ResetTimeout

LEMMA NextBreaker == ASSUME [Next]_vars PROVE BreakerStep
<1>1. CASE UNCHANGED vars
  BY <1>1 DEF vars, BreakerStep
<1>2. CASE Flip
  BY <1>2 DEF Flip, BreakerStep
<1>3. CASE ResetTimeout
  BY <1>3 DEF BreakerStep
<1>4. ASSUME NEW c \in Caller, CallerStep(c) PROVE BreakerStep
  <2>1. CASE Elsewhere(c)
    BY <2>1 DEF Elsewhere, Execute, Cancelled, Rejected, Refuse, Operation, ShouldRetry,
                Delay, BreakerStep
  <2>2. CASE Attempt(c)
    BY <2>2 DEF Attempt, BreakerStep
  <2>3. CASE RecordResult(c)
    BY <2>3 DEF RecordResult, BreakerStep
  <2> QED BY <1>4, <2>1, <2>2, <2>3 DEF CallerStep, Elsewhere
<1> QED BY <1>1, <1>2, <1>3, <1>4 DEF Next

-----------------------------------------------------------------------------
(***************************************************************************)
(* Types.                                                                  *)
(***************************************************************************)

CountersOK ==
  /\ state \in {"closed", "open", "half-open"}
  /\ failures \in Nat /\ requests \in Nat /\ successes \in Nat
  /\ halfOpenRequests \in Nat

LEMMA CountersStep == ASSUME CountersOK, BreakerStep PROVE CountersOK'
<1>1. CASE UNCHANGED breaker
  BY <1>1 DEF CountersOK, breaker, counters
<1>2. CASE Admit
  BY <1>2 DEF CountersOK, Admit, breaker, counters
<1>3. CASE recordSuccess
  BY <1>3 DEF CountersOK, recordSuccess, breaker, counters
<1>4. CASE recordFailure
  BY <1>4 DEF CountersOK, recordFailure, Trip, breaker, counters
<1>5. CASE ResetTimeout
  BY <1>5 DEF CountersOK, ResetTimeout, counters
<1> QED BY <1>1, <1>2, <1>3, <1>4, <1>5 DEF BreakerStep

LEMMA DueStep == ASSUME due \in BOOLEAN, BreakerStep PROVE due' \in BOOLEAN
<1>1. CASE UNCHANGED breaker
  BY <1>1 DEF breaker
<1>2. CASE Admit
  BY <1>2 DEF Admit, breaker
<1>3. CASE recordSuccess
  BY <1>3 DEF recordSuccess, breaker
<1>4. CASE recordFailure
  BY <1>4 DEF recordFailure, Trip, breaker
<1>5. CASE ResetTimeout
  BY <1>5 DEF ResetTimeout
<1> QED BY <1>1, <1>2, <1>3, <1>4, <1>5 DEF BreakerStep

Label == {"out", "loop", "calling", "ok", "err", "judge", "delay"}

LEMMA CallersStep ==
  ASSUME pc \in [Caller -> Label], attempt \in [Caller -> Nat], [Next]_vars
  PROVE  pc' \in [Caller -> Label] /\ attempt' \in [Caller -> Nat]
<1>1. CASE UNCHANGED vars
  BY <1>1 DEF vars
<1>2. CASE Flip \/ ResetTimeout
  BY <1>2 DEF Flip, ResetTimeout
<1>3. ASSUME NEW c \in Caller, CallerStep(c)
      PROVE  pc' \in [Caller -> Label] /\ attempt' \in [Caller -> Nat]
  BY <1>3 DEF CallerStep, Execute, Cancelled, Attempt, Rejected, Operation, RecordResult,
              ShouldRetry, Delay, Goto, Label
<1> QED BY <1>1, <1>2, <1>3 DEF Next

LEMMA UpStep == ASSUME up \in BOOLEAN, [Next]_vars PROVE up' \in BOOLEAN
<1>1. CASE UNCHANGED vars
  BY <1>1 DEF vars
<1>2. CASE Flip
  BY <1>2 DEF Flip
<1>3. CASE ResetTimeout
  BY <1>3 DEF ResetTimeout
<1>4. ASSUME NEW c \in Caller, CallerStep(c) PROVE up' \in BOOLEAN
  BY <1>4 DEF CallerStep, Execute, Cancelled, Attempt, Rejected, Operation, RecordResult,
              ShouldRetry, Delay
<1> QED BY <1>1, <1>2, <1>3, <1>4 DEF Next

(* TypeCorrect: whatever order the callers' attempts and results come in,  *)
(* the breaker stays in one of its three states with natural counters      *)
(* (resilience.go, the CircuitBreaker struct).                             *)
THEOREM TypeCorrect == Spec => []TypeOK
<1>1. Init => TypeOK
  <2> SUFFICES ASSUME Init PROVE TypeOK
    OBVIOUS
  <2>1. CountersOK
    BY DEF Init, CountersOK
  <2>2. pc \in [Caller -> Label] /\ attempt \in [Caller -> Nat]
    BY DEF Init, Label
  <2>3. due \in BOOLEAN /\ up \in BOOLEAN
    BY Zenon DEF Init
  <2> QED BY <2>1, <2>2, <2>3 DEF TypeOK, CountersOK, Label
<1>2. TypeOK /\ [Next]_vars => TypeOK'
  <2> SUFFICES ASSUME TypeOK, [Next]_vars PROVE TypeOK'
    OBVIOUS
  <2>1. CountersOK'
    BY NextBreaker, CountersStep DEF TypeOK, CountersOK
  <2>2. due' \in BOOLEAN
    BY NextBreaker, DueStep DEF TypeOK
  <2>3. pc' \in [Caller -> Label] /\ attempt' \in [Caller -> Nat]
    BY CallersStep DEF TypeOK, Label
  <2>4. up' \in BOOLEAN
    BY UpStep DEF TypeOK
  <2> QED BY <2>1, <2>2, <2>3, <2>4 DEF TypeOK, CountersOK, Label
<1> QED BY <1>1, <1>2, PTL DEF Spec

-----------------------------------------------------------------------------
(***************************************************************************)
(* The breaker's limits.                                                   *)
(***************************************************************************)

(* A failure in the closed state that does not trip leaves fewer failures  *)
(* than the limit, and closing resets them.                                *)
(* ClosedLimit: a closed breaker is below MaxFailures (recordResult,       *)
(* shouldTrip and reset of resilience.go).                                 *)
THEOREM ClosedLimit == Spec => []ClosedWithinLimit
<1>1. Init => ClosedWithinLimit
  BY ResilienceConstants DEF Init, ClosedWithinLimit
<1>2. TypeOK /\ ClosedWithinLimit /\ [Next]_vars => ClosedWithinLimit'
  <2> SUFFICES ASSUME CountersOK, ClosedWithinLimit, BreakerStep
               PROVE  ClosedWithinLimit'
    BY NextBreaker DEF TypeOK, CountersOK
  <2> USE DEF CountersOK, ClosedWithinLimit
  <2>1. CASE UNCHANGED breaker
    BY <2>1 DEF breaker, counters
  <2>2. CASE Admit
    BY <2>2 DEF Admit, breaker, counters
  <2>3. CASE recordSuccess
    BY <2>3, ResilienceConstants DEF recordSuccess, breaker, counters
  <2>4. CASE recordFailure
    BY <2>4, ResilienceConstants DEF recordFailure, Trip, shouldTrip, breaker, counters
  <2>5. CASE ResetTimeout
    BY <2>5 DEF ResetTimeout, counters
  <2> QED BY <2>1, <2>2, <2>3, <2>4, <2>5 DEF BreakerStep
<1> QED BY <1>1, <1>2, TypeCorrect, PTL DEF Spec

-----------------------------------------------------------------------------
(***************************************************************************)
(* The half-open phase.                                                    *)
(***************************************************************************)

Places == pc \in [Caller -> Label]

LEMMA InFlightFinite ==
  /\ InFlight \subseteq Caller
  /\ IsFiniteSet(InFlight)
  /\ Cardinality(InFlight) \in Nat
  /\ Cardinality(Caller) \in Nat
  /\ Cardinality(InFlight) <= Cardinality(Caller)
<1>1. InFlight \subseteq Caller
  BY DEF InFlight
<1>2. IsFiniteSet(Caller)
  BY ResilienceConstants
<1> QED BY <1>1, <1>2, FS_Subset, FS_CardinalityType

(* Only an admitted attempt joins the calls under way, only a recorded     *)
(* result leaves them; the operation's return is neither.                  *)
LEMMA InFlightKept ==
  ASSUME Places, NEW c \in Caller, Elsewhere(c)
  PROVE  InFlight' = InFlight /\ UNCHANGED breaker
<1>1. InFlight' = InFlight
  <2>1. CASE Execute(c)
    BY <2>1 DEF Places, Label, Execute, Goto, InFlight
  <2>2. CASE Cancelled(c)
    BY <2>2 DEF Places, Label, Cancelled, Goto, InFlight
  <2>3. CASE Rejected(c)
    BY <2>3 DEF Places, Label, Rejected, Goto, InFlight
  <2>4. CASE Operation(c)
    BY <2>4 DEF Places, Label, Operation, Goto, InFlight
  <2>5. CASE ShouldRetry(c)
    BY <2>5 DEF Places, Label, ShouldRetry, Goto, InFlight
  <2>6. CASE Delay(c)
    BY <2>6 DEF Places, Label, Delay, Goto, InFlight
  <2> QED BY <2>1, <2>2, <2>3, <2>4, <2>5, <2>6 DEF Elsewhere
<1>2. UNCHANGED breaker
  BY DEF Elsewhere, Execute, Cancelled, Rejected, Refuse, Operation, ShouldRetry, Delay
<1> QED BY <1>1, <1>2

LEMMA RecordLeaves ==
  ASSUME Places, NEW c \in Caller, RecordResult(c)
  PROVE  c \in InFlight /\ InFlight' = InFlight \ {c}
BY DEF Places, Label, RecordResult, Goto, InFlight

(* TrialsBounded: whatever calls pass allowRequest together and whenever   *)
(* results of earlier phases come in, recordResult counts fewer than       *)
(* MaxRequests results plus one per caller in a half-open phase            *)
(* (resilience.go).                                                        *)
THEOREM TrialsBounded == Spec => []TrialBounded
<1>1. Init => TrialBounded
  BY DEF Init, TrialBounded
<1>2. TypeOK /\ TrialBounded /\ [Next]_vars => TrialBounded'
  <2> SUFFICES ASSUME CountersOK, Places, TrialBounded, [Next]_vars
               PROVE  TrialBounded'
    BY DEF TypeOK, CountersOK, Places, Label
  <2> USE ResilienceConstants
  <2>0. /\ Cardinality(InFlight) \in Nat
        /\ Cardinality(Caller) \in Nat
        /\ Cardinality(InFlight) <= Cardinality(Caller)
    BY InFlightFinite
  <2>1. CASE UNCHANGED vars
    BY <2>1 DEF vars, breaker, counters, TrialBounded, InFlight
  <2>2. CASE Flip \/ ResetTimeout
    BY <2>2 DEF Flip, ResetTimeout, breaker, counters, TrialBounded, InFlight
  <2>3. ASSUME NEW c \in Caller, Elsewhere(c) PROVE TrialBounded'
    BY <2>3, InFlightKept DEF breaker, TrialBounded
  <2>4. ASSUME NEW c \in Caller, Attempt(c) PROVE TrialBounded'
    <3>1. /\ InFlight' \in SUBSET Caller
          /\ Cardinality(InFlight') \in Nat
          /\ Cardinality(InFlight') <= Cardinality(Caller)
      <4>1. InFlight' \in SUBSET Caller
        BY DEF InFlight
      <4> QED BY <4>1, FS_Subset, FS_CardinalityType
    <3>2. state' = "half-open" => halfOpenRequests' \in Nat /\ halfOpenRequests' < MaxRequests
      BY <2>4 DEF Attempt, Admit, breaker, counters, CountersOK
    <3> QED BY <2>0, <3>1, <3>2 DEF TrialBounded
  <2>5. ASSUME NEW c \in Caller, RecordResult(c) PROVE TrialBounded'
    <3>1. c \in InFlight /\ InFlight' = InFlight \ {c}
      BY <2>5, RecordLeaves
    <3>2. Cardinality(InFlight') = Cardinality(InFlight) - 1
      BY <3>1, InFlightFinite, FS_RemoveElement
    <3>3. state' = "half-open" =>
            state = "half-open" /\ halfOpenRequests' = halfOpenRequests + 1
      BY <2>5 DEF RecordResult, recordSuccess, recordFailure, Trip, breaker, counters
    <3> QED BY <2>0, <3>2, <3>3 DEF TrialBounded, CountersOK
  <2> QED BY <2>1, <2>2, <2>3, <2>4, <2>5 DEF Next, CallerStep, Elsewhere
<1> QED BY <1>1, <1>2, TypeCorrect, PTL DEF Spec

(* WedgeIsFinal: a half-open breaker with MaxRequests results and no call  *)
(* under way never leaves that state, for every configuration: it is how   *)
(* the run breaker_recovery ends (allowRequest of resilience.go).          *)
THEOREM WedgeIsFinal == Spec => WedgedForGood
<1>1. TypeOK /\ [Next]_vars => [Wedged => Wedged']_vars
  <2> SUFFICES ASSUME CountersOK, Places, [Next]_vars, Wedged
               PROVE  Wedged'
    BY DEF TypeOK, CountersOK, Places, Label
  <2> USE ResilienceConstants
  <2>1. CASE UNCHANGED vars
    BY <2>1 DEF vars, breaker, counters, Wedged, InFlight
  <2>2. CASE Flip \/ ResetTimeout
    BY <2>2 DEF Flip, ResetTimeout, breaker, counters, Wedged, InFlight
  <2>3. ASSUME NEW c \in Caller, Elsewhere(c) PROVE Wedged'
    BY <2>3, InFlightKept DEF breaker, Wedged
  <2>4. ASSUME NEW c \in Caller, Attempt(c) PROVE FALSE
    BY <2>4 DEF Attempt, Admit, Wedged, CountersOK
  <2>5. ASSUME NEW c \in Caller, RecordResult(c) PROVE FALSE
    BY <2>5, RecordLeaves DEF Wedged
  <2> QED BY <2>1, <2>2, <2>3, <2>4, <2>5 DEF Next, CallerStep, Elsewhere
<1> QED BY <1>1, TypeCorrect, PTL DEF Spec, WedgedForGood

=============================================================================
