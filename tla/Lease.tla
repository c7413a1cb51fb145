------------------------------- MODULE Lease -------------------------------
(***************************************************************************)
(* What a connection pool promises its callers, whatever it does to keep   *)
(* the promise: a connection is lent to one client at a time, it is lent   *)
(* again only after it was given back, and a connection that was taken     *)
(* out of service (found unhealthy, or being closed) is never lent again.  *)
(* A client that already holds it may keep it until it gives it back.  The *)
(* promise ends when the pool shuts down.                                  *)
(***************************************************************************)
CONSTANTS
  Client,
  Conn,
  NoConn

VARIABLES
  lease,     \* the connection each client holds, or NoConn
  retired,   \* the connections taken out of service
  open       \* the pool has not shut down

vars == <<lease, retired, open>>

Lent == {lease[b] : b \in Client}

Init ==
  /\ lease = [b \in Client |-> NoConn]
  /\ retired = {}
  /\ open = TRUE

Grant(b, c) ==
  /\ open
  /\ lease[b] = NoConn
  /\ c \notin Lent \cup retired
  /\ lease' = [lease EXCEPT ![b] = c]
  /\ UNCHANGED <<retired, open>>

GiveBack(b) ==
  /\ open
  /\ lease[b] # NoConn
  /\ lease' = [lease EXCEPT ![b] = NoConn]
  /\ UNCHANGED <<retired, open>>

Retire(c) ==
  /\ open
  /\ retired' = retired \cup {c}
  /\ UNCHANGED <<lease, open>>

ShutDown ==
  /\ open
  /\ open' = FALSE
  /\ UNCHANGED <<lease, retired>>

(* Nothing is promised any more. *)
AfterShutDown ==
  /\ ~open
  /\ lease' \in [Client -> Conn \cup {NoConn}]
  /\ retired' \in SUBSET Conn
  /\ UNCHANGED open

Next ==
  \/ \E b \in Client : GiveBack(b) \/ \E c \in Conn : Grant(b, c)
  \/ \E c \in Conn : Retire(c)
  \/ ShutDown
  \/ AfterShutDown

Spec == Init /\ [][Next]_vars

=============================================================================
