--------------------------- MODULE MC_Resilience ---------------------------
(* Resilience with three callers. *)
EXTENDS Resilience

CONSTANTS c1, c2, c3

=============================================================================
