---------------------------- MODULE MC_ConnPool ----------------------------
(* Instances of ConnPool for TLC. *)
EXTENDS ConnPool, TLC

Perms == Permutations(Conn) \cup Permutations(Borrower) \cup Permutations(Rebuilder)

=============================================================================
