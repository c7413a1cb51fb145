--------------------------- MODULE MC_Aggregator ---------------------------
(* Aggregator for TLC: a line that is down and one that is up, a check that *)
(* failed, and a line behind an NX-OS router that is down.                 *)
EXTENDS Aggregator

CONSTANTS r1, r2, r3, r4, w1, w2, manager, stopper

Output(p, l) ==
  [platform |-> p, error |-> "none", summary |-> TRUE, timeouts |-> FALSE, loss |-> l]

Exchanges ==
  [r \in Result |->
     CASE r = r1 -> Output("huawei_vrp", 100)
       [] r = r2 -> Output("cisco_iosxe", 0)
       [] r = r3 -> [Output("h3c_comware", 0) EXCEPT !.error = "connection", !.summary = FALSE]
       [] OTHER  -> Output("cisco_nxos", 100)]

=============================================================================
