----------------------------- MODULE ConnState -----------------------------
(***************************************************************************)
(* The states of a pooled connection, the transitions between them         *)
(* (connection/state_manager.go) and the health a run of failed checks     *)
(* gives it (connection/pooled_connection.go).                             *)
(***************************************************************************)
EXTENDS Naturals

ConnectionState == {"Idle", "Connecting", "Acquired", "Executing",
                    "Checking", "Closing", "Closed"}

HealthStatus == {"Unknown", "Healthy", "Degraded", "Unhealthy"}

(* Whatever is not listed is refused; Closed is final. *)
CanTransition(from, to) ==
  \/ from = "Idle"       /\ to \in {"Connecting", "Acquired", "Checking", "Closing", "Closed"}
  \/ from = "Connecting" /\ to \in {"Acquired", "Closing", "Closed"}
  \/ from = "Acquired"   /\ to \in {"Executing", "Idle", "Checking", "Closing", "Closed"}
  \/ from = "Executing"  /\ to \in {"Acquired", "Closing", "Closed"}
  \/ from = "Checking"   /\ to \in {"Idle", "Acquired", "Closing", "Closed"}
  \/ from = "Closing"    /\ to = "Closed"

(* transitionStateLocked: a refused move leaves the state as it was. *)
Transition(from, to) == IF CanTransition(from, to) THEN to ELSE from

(* recordHealthCheck: the health after `failures` consecutive failed       *)
(* checks.                                                                 *)
HealthAfter(failures, degraded, unhealthy) ==
  IF failures >= unhealthy THEN "Unhealthy"
  ELSE IF failures >= degraded THEN "Degraded" ELSE "Healthy"

=============================================================================
