----------------------------- MODULE Resilience -----------------------------
(***************************************************************************)
(* ResilientExecutor (connection/resilience.go): callers that share one    *)
(* CircuitBreaker, each running its operation under a Retrier.  The        *)
(* operation is whatever is executed, external to the module: it fails     *)
(* while the router is down and succeeds otherwise.                        *)
(*                                                                         *)
(* allowRequest and recordResult are the two critical sections of the      *)
(* breaker; the operation between them runs without its lock.              *)
(***************************************************************************)
EXTENDS Naturals, FiniteSets

CONSTANTS
  Caller,
  MaxAttempts,        \* RetryPolicy.GetMaxAttempts
  MaxFailures,        \* CircuitBreakerConfig
  MinRequests,
  MaxRequests,
  Rate, Of,           \* FailureThreshold as the fraction Rate / Of
  RequestBound        \* bound: requests counted while the breaker is closed

ASSUME ResilienceConstants ==
  /\ IsFiniteSet(Caller)
  /\ MaxAttempts \in Nat \ {0}
  /\ MaxFailures \in Nat \ {0}
  /\ MinRequests \in Nat \ {0}
  /\ MaxRequests \in Nat \ {0}
  /\ Rate \in Nat /\ Of \in Nat \ {0} /\ Rate <= Of
  /\ RequestBound \in Nat

VARIABLES
  state,              \* cb.state
  failures,           \* cb.failures, consecutive
  requests,           \* cb.requests
  successes,          \* cb.successes
  halfOpenRequests,   \* cb.halfOpenRequests
  due,                \* nextRetryTime has passed
  pc,                 \* where each caller is
  attempt,            \* its loop variable
  up                  \* environment: the router answers

counters == <<failures, requests, successes>>
breaker == <<state, counters, halfOpenRequests, due>>
vars == <<breaker, pc, attempt, up>>

TypeOK ==
  /\ state \in {"closed", "open", "half-open"}
  /\ failures \in Nat /\ requests \in Nat /\ successes \in Nat
  /\ halfOpenRequests \in Nat
  /\ due \in BOOLEAN /\ up \in BOOLEAN
  /\ pc \in [Caller -> {"out", "loop", "calling", "ok", "err", "judge", "delay"}]
  /\ attempt \in [Caller -> Nat]

Init ==
  /\ state = "closed"
  /\ failures = 0 /\ requests = 0 /\ successes = 0 /\ halfOpenRequests = 0
  /\ due = FALSE
  /\ pc = [c \in Caller |-> "out"]
  /\ attempt = [c \in Caller |-> 0]
  /\ up = TRUE

Goto(c, l) == pc' = [pc EXCEPT ![c] = l]

InFlight == {c \in Caller : pc[c] \in {"calling", "ok", "err"}}

-----------------------------------------------------------------------------
(***************************************************************************)
(* The circuit breaker.                                                    *)
(***************************************************************************)

(* shouldTrip: consecutive failures, then the failure rate. *)
shouldTrip(f, r, s) ==
  \/ f >= MaxFailures
  \/ r >= MinRequests /\ (r - s) * Of >= Rate * r

(* Fault: the statistics of the last half-open phase are kept. *)
AdmitKeepingCount ==
  \/ state = "closed" /\ requests + Cardinality(InFlight) < RequestBound /\ UNCHANGED breaker
  \/ /\ state = "open" /\ due
     /\ state' = "half-open"
     /\ UNCHANGED <<counters, halfOpenRequests, due>>
  \/ state = "half-open" /\ halfOpenRequests < MaxRequests /\ UNCHANGED breaker

(* Fault: one call more than MaxRequests is let through. *)
AdmitOneMore ==
  \/ state = "closed" /\ requests + Cardinality(InFlight) < RequestBound /\ UNCHANGED breaker
  \/ /\ state = "open" /\ due
     /\ state' = "half-open" /\ halfOpenRequests' = 0
     /\ UNCHANGED <<counters, due>>
  \/ state = "half-open" /\ halfOpenRequests <= MaxRequests /\ UNCHANGED breaker

(* allowRequest answers yes: a closed breaker always, an open one to the    *)
(* first call after the reset timeout, a half-open one while too few        *)
(* results were recorded.                                                   *)
Admit ==
  \/ state = "closed" /\ requests + Cardinality(InFlight) < RequestBound /\ UNCHANGED breaker
  \/ /\ state = "open" /\ due
     /\ state' = "half-open" /\ halfOpenRequests' = 0
     /\ UNCHANGED <<counters, due>>
  \/ state = "half-open" /\ halfOpenRequests < MaxRequests /\ UNCHANGED breaker

(* allowRequest answers no. *)
Refuse ==
  /\ state # "closed"
  /\ state = "open" => ~due
  /\ state = "half-open" => halfOpenRequests >= MaxRequests
  /\ UNCHANGED breaker

(* Fault: the breaker closes without reset. *)
recordSuccessWithoutReset ==
  \/ /\ state = "closed"
     /\ requests' = requests + 1 /\ successes' = successes + 1 /\ failures' = 0
     /\ UNCHANGED <<state, halfOpenRequests, due>>
  \/ /\ state = "half-open"
     /\ halfOpenRequests' = halfOpenRequests + 1
     /\ state' = IF halfOpenRequests' >= MinRequests THEN "closed" ELSE state
     /\ UNCHANGED <<counters, due>>
  \/ state = "open" /\ UNCHANGED breaker

(* recordResult(true). *)
recordSuccess ==
  \/ /\ state = "closed"
     /\ requests' = requests + 1 /\ successes' = successes + 1 /\ failures' = 0
     /\ UNCHANGED <<state, halfOpenRequests, due>>
  \/ /\ state = "half-open"
     /\ halfOpenRequests' = halfOpenRequests + 1
     /\ IF halfOpenRequests' >= MinRequests
          THEN state' = "closed" /\ requests' = 0 /\ successes' = 0 /\ failures' = 0
          ELSE UNCHANGED <<state, counters>>
     /\ UNCHANGED due
  \/ state = "open" /\ UNCHANGED breaker

(* setState(Open) with a new nextRetryTime. *)
Trip == state' = "open" /\ due' = FALSE

(* recordResult(false). *)
recordFailure ==
  \/ /\ state = "closed"
     /\ requests' = requests + 1 /\ failures' = failures + 1
     /\ IF shouldTrip(failures', requests', successes) THEN Trip ELSE UNCHANGED <<state, due>>
     /\ UNCHANGED <<successes, halfOpenRequests>>
  \/ /\ state = "half-open"
     /\ halfOpenRequests' = halfOpenRequests + 1
     /\ Trip
     /\ UNCHANGED counters
  \/ state = "open" /\ UNCHANGED breaker

(* The clock passes nextRetryTime. *)
ResetTimeout ==
  /\ state = "open" /\ ~due
  /\ due' = TRUE
  /\ UNCHANGED <<state, counters, halfOpenRequests, pc, attempt, up>>

-----------------------------------------------------------------------------
(***************************************************************************)
(* The retrier.                                                            *)
(***************************************************************************)

Execute(c) ==
  /\ pc[c] = "out"
  /\ Goto(c, "loop")
  /\ attempt' = [attempt EXCEPT ![c] = 0]
  /\ UNCHANGED <<breaker, up>>

(* The context is over when the loop, or the wait between two attempts,    *)
(* looks at it: ErrRetryContextCancelled.                                  *)
Cancelled(c) ==
  /\ pc[c] \in {"loop", "delay"}
  /\ Goto(c, "out")
  /\ UNCHANGED <<breaker, attempt, up>>

(* An attempt the breaker lets through. *)
Attempt(c) ==
  /\ pc[c] = "loop"
  /\ Admit
  /\ Goto(c, "calling")
  /\ UNCHANGED <<attempt, up>>

(* An attempt that ends in ErrCircuitBreakerOpen. *)
Rejected(c) ==
  /\ pc[c] = "loop"
  /\ Refuse
  /\ Goto(c, "judge")
  /\ UNCHANGED <<attempt, up>>

(* The operation returns. *)
Operation(c) ==
  /\ pc[c] = "calling"
  /\ Goto(c, IF up THEN "ok" ELSE "err")
  /\ UNCHANGED <<breaker, attempt, up>>

(* recordResult; a success ends Execute. *)
RecordResult(c) ==
  /\ \/ pc[c] = "ok" /\ recordSuccess /\ Goto(c, "out")
     \/ pc[c] = "err" /\ recordFailure /\ Goto(c, "judge")
  /\ UNCHANGED <<attempt, up>>

(* The last attempt, or an error that is not among RetryableErrors, ends   *)
(* Execute with ErrMaxRetriesExceeded.                                     *)
ShouldRetry(c) ==
  /\ pc[c] = "judge"
  /\ \/ attempt[c] + 1 < MaxAttempts /\ Goto(c, "delay")
     \/ Goto(c, "out")
  /\ UNCHANGED <<breaker, attempt, up>>

(* Fault: an attempt is repeated without being counted. *)
DelayUncounted(c) ==
  /\ pc[c] = "delay"
  /\ Goto(c, "loop")
  /\ UNCHANGED <<breaker, attempt, up>>

(* NextDelay is over. *)
Delay(c) ==
  /\ pc[c] = "delay"
  /\ attempt' = [attempt EXCEPT ![c] = @ + 1]
  /\ Goto(c, "loop")
  /\ UNCHANGED <<breaker, up>>

-----------------------------------------------------------------------------
(* Environment: the router goes down and comes back. *)
Flip ==
  /\ up' = ~up
  /\ UNCHANGED <<breaker, pc, attempt>>

CallerStep(c) ==
  \/ Execute(c) \/ Cancelled(c) \/ Attempt(c) \/ Rejected(c) \/ Operation(c)
  \/ RecordResult(c) \/ ShouldRetry(c) \/ Delay(c)

Next ==
  \/ \E c \in Caller : CallerStep(c)
  \/ ResetTimeout
  \/ Flip

Spec == Init /\ [][Next]_vars

(***************************************************************************)
(* Fairness.  Time passes, operations have timeouts and callers run, tasks *)
(* being scheduled for ever; a caller that comes to the breaker again and  *)
(* again is not cancelled just before it every time, nor a delay cut short *)
(* or an error found to be final every time.                               *)
(***************************************************************************)
Fairness ==
  /\ WF_vars(ResetTimeout)
  /\ \A c \in Caller : WF_vars(CallerStep(c)) /\ SF_vars(Attempt(c))

FairSpec == Spec /\ Fairness

-----------------------------------------------------------------------------
(***************************************************************************)
(* What must hold.                                                         *)
(***************************************************************************)

(* A closed breaker has seen fewer than MaxFailures failures in a row: the  *)
(* failure that reaches the limit opens it, and when it closes again the    *)
(* failures of before the outage no longer count.                           *)
ClosedWithinLimit == state = "closed" => failures < MaxFailures

(* MaxRequests is compared with the results of the half-open phase, not     *)
(* with the calls it has let through, and late results of calls that began  *)
(* before the outage count too: the phase sees up to one result per caller  *)
(* more than MaxRequests - 1, and never more.                               *)
TrialBounded ==
  state = "half-open" =>
    halfOpenRequests + Cardinality(InFlight) < MaxRequests + Cardinality(Caller)

(* A half-open breaker that has MaxRequests results and no call under way   *)
(* stays as it is for ever: it refuses every call, only a result changes    *)
(* it, and no timeout leads out of half-open.                               *)
Wedged == state = "half-open" /\ halfOpenRequests >= MaxRequests /\ InFlight = {}
WedgedForGood == [][Wedged => Wedged']_vars

(* Execute returns: the attempts are bounded. *)
ExecuteReturns == \A c \in Caller : pc[c] # "out" ~> pc[c] = "out"

-----------------------------------------------------------------------------
(***************************************************************************)
(* What the comments on the configuration say of the breaker, and the code *)
(* does not do with the values they stand beside.                          *)
(***************************************************************************)

(* When the router stays up, the breaker closes and stays closed: the      *)
(* reset timeout is for a quick recovery, the calls of the half-open state *)
(* test that the connection has recovered (DefaultCircuitBreakerConfig).   *)
Recovers == <>[]up => <>[](state = "closed")

=============================================================================
