-------------------------- MODULE MC_ScrapliDriver --------------------------
(* ScrapliDriver with a health check, a ping command and an interactive    *)
(* ping, and two goroutines that close the driver.                         *)
EXTENDS ScrapliDriver

CONSTANTS p1, e1, e2, k1, k2

=============================================================================
