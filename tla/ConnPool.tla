------------------------------ MODULE ConnPool ------------------------------
(***************************************************************************)
(* One driver pool of EnhancedConnectionPool (connection/pool_enhanced.go) *)
(* with the goroutines that share it: borrowers (tasks and health checks), *)
(* rebuild workers, warm-up goroutines, the cleanup task and Close.        *)
(*                                                                         *)
(* Each action is one critical section of the code, or one unlocked read   *)
(* or write: pool.mu protects `pool`, conn.mu protects one connection.     *)
(* Clock comparisons (idle timeout, stuck timeouts, minimum age) are free  *)
(* choices.  A connection identity is used once; before its creation the   *)
(* per-connection variables hold the values createConnection gives it.     *)
(*                                                                         *)
(* A driver is seen from outside: a call on it returns, with an error if   *)
(* it was closed meanwhile.  Inside, a Close that meets a first Connect    *)
(* may panic, and end the process sooner than here; ScrapliDriver says     *)
(* when.                                                                   *)
(***************************************************************************)
EXTENDS ConnState, FiniteSets

CONSTANTS
  Conn,                      \* connection identities
  NoConn,                    \* no connection
  Borrower,                  \* goroutines that Get, use and Release a connection
  Rebuilder,                 \* workers of RebuildConnectionByProto
  Warmer,                    \* goroutines of WarmUp
  Cleaner,                   \* the cleanup task
  MaxConnections,            \* config.MaxConnections
  DegradedFailureThreshold,
  UnhealthyFailureThreshold,
  HealthCheckTriggerRebuild,
  RebuildOnDegraded

ASSUME ConnPoolConstants ==
  /\ NoConn \notin Conn
  /\ IsFiniteSet(Conn) /\ IsFiniteSet(Borrower) /\ IsFiniteSet(Rebuilder) /\ IsFiniteSet(Warmer)
  /\ Borrower \cap Rebuilder = {} /\ Borrower \cap Warmer = {} /\ Rebuilder \cap Warmer = {}
  /\ Cleaner \notin Borrower \cup Rebuilder \cup Warmer
  /\ MaxConnections \in Nat \ {0}
  /\ DegradedFailureThreshold \in Nat \ {0}
  /\ UnhealthyFailureThreshold \in Nat \ {0}
  /\ HealthCheckTriggerRebuild \in BOOLEAN
  /\ RebuildOnDegraded \in BOOLEAN

Proc == Borrower \cup Rebuilder \cup Warmer \cup {Cleaner}

VARIABLES
  pool,         \* driverPool.connections: the connections in the map
  state,        \* conn.state
  health,       \* conn.healthStatus
  failures,     \* conn.consecutiveFailures
  usingCount,   \* conn.usingCount
  driver,       \* conn.driver: "none" (not created), "live", "closed" or "nil"
  marked,       \* connections with markedForRebuild = 1
  rebuilding,   \* connections with rebuilding = true
  evicted,      \* deleted by the cleanup, forceClose still to run
  toClose,      \* collected by Close, safeClose still to run
  phase,        \* "open", "closing" (Close has begun) or "drained" (map emptied)
  crashed,      \* a panic of the pool's own code has ended the process
  pc,           \* where each goroutine is
  ref,          \* the connection each goroutine holds a pointer to
  repl,         \* the replacement a rebuild worker has created
  cand,         \* the snapshot of connection ids a borrower still has to try
  nilWrapped    \* borrowers whose MonitoredDriver wraps a nil driver

connVars  == <<state, health, failures, usingCount, driver, marked, rebuilding>>
closeVars == <<evicted, toClose, phase>>
vars == <<pool, connVars, closeVars, crashed, pc, ref, repl, cand, nilWrapped>>

Goto(p, l) == pc' = [pc EXCEPT ![p] = l]

Labels == {"out", "scan", "acquire", "create", "add", "activate", "held",
           "using", "executing", "running", "checking", "passed", "missed", "checked",
           "start", "begin", "close", "drop", "remove", "complete", "replace",
           "insert", "finish", "failed", "refused", "warm", "warmadd", "evict"}

TypeOK ==
  /\ pool \in SUBSET Conn
  /\ state \in [Conn -> ConnectionState]
  /\ health \in [Conn -> HealthStatus]
  /\ failures \in [Conn -> Nat]
  /\ usingCount \in [Conn -> Nat]
  /\ driver \in [Conn -> {"none", "live", "closed", "nil"}]
  /\ marked \in SUBSET Conn /\ rebuilding \in SUBSET Conn
  /\ evicted \in SUBSET Conn /\ toClose \in SUBSET Conn
  /\ phase \in {"open", "closing", "drained"}
  /\ crashed \in BOOLEAN
  /\ pc \in [Proc -> Labels]
  /\ ref \in [Proc -> Conn \cup {NoConn}]
  /\ repl \in [Rebuilder -> Conn \cup {NoConn}]
  /\ cand \in [Borrower -> SUBSET Conn]
  /\ nilWrapped \in SUBSET Borrower

Init ==
  /\ pool = {}
  /\ state = [c \in Conn |-> "Idle"]
  /\ health = [c \in Conn |-> "Unknown"]
  /\ failures = [c \in Conn |-> 0]
  /\ usingCount = [c \in Conn |-> 0]
  /\ driver = [c \in Conn |-> "none"]
  /\ marked = {} /\ rebuilding = {}
  /\ evicted = {} /\ toClose = {}
  /\ phase = "open"
  /\ crashed = FALSE
  /\ pc = [p \in Proc |-> IF p \in Warmer THEN "warm" ELSE "out"]
  /\ ref = [p \in Proc |-> NoConn]
  /\ repl = [r \in Rebuilder |-> NoConn]
  /\ cand = [b \in Borrower |-> {}]
  /\ nilWrapped = {}

shuttingDown == phase # "open"   \* isShuttingDown, p.ctx cancelled, eventChan closed

Fresh == {c \in Conn : driver[c] = "none"}

-----------------------------------------------------------------------------
(***************************************************************************)
(* Borrowers: GetWithContext.                                              *)
(***************************************************************************)

(* The shutdown and context checks, then tryGetAvailableConnection's first *)
(* phase: the ids under the read lock.  A further attempt, of              *)
(* getConnectionFromPool or of the retrier, takes the same step again.     *)
GetWithContext(b) ==
  /\ pc[b] = "out"
  /\ ~shuttingDown
  /\ cand' = [cand EXCEPT ![b] = pool]
  /\ Goto(b, "scan")
  /\ UNCHANGED <<pool, connVars, closeVars, crashed, ref, repl, nilWrapped>>

(* The request's context ends, or the pool's does. *)
AbandonGet(b) ==
  /\ pc[b] = "scan"
  /\ Goto(b, "out")
  /\ cand' = [cand EXCEPT ![b] = {}]
  /\ UNCHANGED <<pool, connVars, closeVars, crashed, ref, repl, nilWrapped>>

(* Second phase: look one id up again; the read lock is dropped before the *)
(* connection is acquired.                                                 *)
Lookup(b) ==
  /\ pc[b] = "scan"
  /\ ~shuttingDown
  /\ \E c \in cand[b] :
       /\ cand' = [cand EXCEPT ![b] = @ \ {c}]
       /\ \/ c \notin pool /\ UNCHANGED <<pc, ref>>
          \/ c \in pool /\ ref' = [ref EXCEPT ![b] = c] /\ Goto(b, "acquire")
  /\ UNCHANGED <<pool, connVars, closeVars, crashed, repl, nilWrapped>>

(* Fault: an acquisition that looks at the use count alone. *)
AvailableInAnyState(c) == usingCount[c] = 0 /\ c \notin rebuilding

(* Fault: an acquisition that forgets the health status. *)
AvailableIfUnhealthy(c) ==
  usingCount[c] = 0 /\ state[c] = "Idle" /\ c \notin rebuilding

Available(c) ==
  /\ usingCount[c] = 0
  /\ state[c] = "Idle"
  /\ health[c] # "Unhealthy"
  /\ c \notin rebuilding

tryAcquireForTask(b) ==
  /\ pc[b] = "acquire"
  /\ \/ /\ Available(ref[b])
        /\ state' = [state EXCEPT ![ref[b]] = "Acquired"]
        /\ cand' = [cand EXCEPT ![b] = {}]
        /\ Goto(b, "activate")
        /\ UNCHANGED ref
     \/ /\ ~Available(ref[b])
        /\ ref' = [ref EXCEPT ![b] = NoConn]
        /\ Goto(b, "scan")
        /\ UNCHANGED <<state, cand>>
  /\ UNCHANGED <<pool, health, failures, usingCount, driver, marked, rebuilding,
                 closeVars, crashed, repl, nilWrapped>>

(* Every candidate was refused: tryCreateNewConnection's count check, then *)
(* createConnection's context check.                                       *)
StartCreate(b) ==
  /\ pc[b] = "scan"
  /\ cand[b] = {}
  /\ Goto(b, IF Cardinality(pool) < MaxConnections /\ ~shuttingDown THEN "create" ELSE "out")
  /\ UNCHANGED <<pool, connVars, closeVars, crashed, ref, repl, cand, nilWrapped>>

(* createConnection: the factory answers. *)
Create(b) ==
  /\ pc[b] = "create"
  /\ \/ \E c \in Fresh :
          /\ driver' = [driver EXCEPT ![c] = "live"]
          /\ ref' = [ref EXCEPT ![b] = c]
          /\ Goto(b, "add")
     \/ Goto(b, "out") /\ UNCHANGED <<driver, ref>>
  /\ UNCHANGED <<pool, state, health, failures, usingCount, marked, rebuilding,
                 closeVars, crashed, repl, cand, nilWrapped>>

(* Fault: the connection created in vain is forgotten, not closed. *)
AddNewOrForget(b) ==
  LET c == ref[b] IN
  /\ pc[b] = "add"
  /\ \/ /\ Cardinality(pool) >= MaxConnections
        /\ ref' = [ref EXCEPT ![b] = NoConn]
        /\ Goto(b, "out")
        /\ UNCHANGED <<pool, state>>
     \/ /\ Cardinality(pool) < MaxConnections
        /\ Available(c)
        /\ pool' = pool \cup {c}
        /\ state' = [state EXCEPT ![c] = "Acquired"]
        /\ Goto(b, "activate")
        /\ UNCHANGED ref
  /\ UNCHANGED <<driver, health, failures, usingCount, marked, rebuilding, closeVars,
                 crashed, repl, cand, nilWrapped>>

(* Fault: no second count check. *)
AddNewUnchecked(b) ==
  /\ pc[b] = "add"
  /\ Available(ref[b])
  /\ pool' = pool \cup {ref[b]}
  /\ state' = [state EXCEPT ![ref[b]] = "Acquired"]
  /\ Goto(b, "activate")
  /\ UNCHANGED <<ref, driver, health, failures, usingCount, marked, rebuilding, closeVars,
                 crashed, repl, cand, nilWrapped>>

(* Under the pool lock: the second count check, the insertion and the      *)
(* acquisition of the new connection, which nobody else has seen, so that  *)
(* it is always Available.                                                 *)
AddNew(b) ==
  LET c == ref[b] IN
  /\ pc[b] = "add"
  /\ \/ /\ Cardinality(pool) >= MaxConnections
        /\ driver' = [driver EXCEPT ![c] = "closed"]
        /\ ref' = [ref EXCEPT ![b] = NoConn]
        /\ Goto(b, "out")
        /\ UNCHANGED <<pool, state>>
     \/ /\ Cardinality(pool) < MaxConnections
        /\ Available(c)
        /\ pool' = pool \cup {c}
        /\ state' = [state EXCEPT ![c] = "Acquired"]
        /\ Goto(b, "activate")
        /\ UNCHANGED <<driver, ref>>
  /\ UNCHANGED <<health, failures, usingCount, marked, rebuilding, closeVars,
                 crashed, repl, cand, nilWrapped>>

(* activateConnection: the wrapper copies conn.driver as it is now. *)
activateConnection(b) ==
  /\ pc[b] = "activate"
  /\ nilWrapped' = IF driver[ref[b]] = "nil" THEN nilWrapped \cup {b} ELSE nilWrapped
  /\ Goto(b, "held")
  /\ UNCHANGED <<pool, connVars, closeVars, crashed, ref, repl, cand>>

-----------------------------------------------------------------------------
(***************************************************************************)
(* A borrower with a connection: MonitoredDriver.Execute, a health check,  *)
(* Release.                                                                *)
(***************************************************************************)

(* Fault: the use is released at the end but never counted. *)
acquireUseUncounted(b) ==
  /\ pc[b] = "held"
  /\ Goto(b, "using")
  /\ UNCHANGED <<pool, connVars, closeVars, crashed, ref, repl, cand, nilWrapped>>

(* Execute: the use is counted before the state is looked at. *)
acquireUse(b) ==
  /\ pc[b] = "held"
  /\ usingCount' = [usingCount EXCEPT ![ref[b]] = @ + 1]
  /\ Goto(b, "using")
  /\ UNCHANGED <<pool, state, health, failures, driver, marked, rebuilding,
                 closeVars, crashed, ref, repl, cand, nilWrapped>>

(* Execute: an Acquired connection becomes Executing and will be restored; *)
(* any other state is kept and the driver is called all the same, which is *)
(* a nil dereference outside any recover when the wrapper holds none.      *)
BeginExecute(b) ==
  LET c == ref[b] IN
  /\ pc[b] = "using"
  /\ \/ state[c] = "Acquired" /\ state' = [state EXCEPT ![c] = "Executing"] /\ Goto(b, "executing")
     \/ state[c] # "Acquired" /\ UNCHANGED state /\ Goto(b, "running")
  /\ crashed' = (b \in nilWrapped)
  /\ UNCHANGED <<pool, health, failures, usingCount, driver, marked, rebuilding,
                 closeVars, ref, repl, cand, nilWrapped>>

(* Fault: the deferred function that restores Acquired is missing. *)
EndExecuteWithoutRestore(b) ==
  /\ pc[b] \in {"executing", "running"}
  /\ usingCount' = [usingCount EXCEPT ![ref[b]] = @ - 1]
  /\ Goto(b, "held")
  /\ UNCHANGED <<pool, state, health, failures, driver, marked, rebuilding,
                 closeVars, crashed, ref, repl, cand, nilWrapped>>

(* Execute's deferred functions: restore Acquired, then releaseUse. *)
EndExecute(b) ==
  LET c == ref[b] IN
  /\ pc[b] \in {"executing", "running"}
  /\ state' = IF pc[b] = "executing"
                THEN [state EXCEPT ![c] = Transition(@, "Acquired")] ELSE state
  /\ usingCount' = [usingCount EXCEPT ![c] = @ - 1]
  /\ Goto(b, "held")
  /\ UNCHANGED <<pool, health, failures, driver, marked, rebuilding,
                 closeVars, crashed, ref, repl, cand, nilWrapped>>

(* performHealthCheckForProtocol up to beginHealthCheck: a connection that *)
(* is too young, or in the wrong state, is released unchecked.             *)
beginHealthCheck(b) ==
  LET c == ref[b] IN
  /\ pc[b] = "held"
  /\ \/ /\ state[c] \in {"Acquired", "Idle"}
        /\ state' = [state EXCEPT ![c] = "Checking"]
        /\ Goto(b, "checking")
     \/ Goto(b, "checked") /\ UNCHANGED state
  /\ UNCHANGED <<pool, health, failures, usingCount, driver, marked, rebuilding,
                 closeVars, crashed, ref, repl, cand, nilWrapped>>

(* The probe uses conn.driver as it is now: a closed driver fails, a nil   *)
(* one panics in a goroutine without a recover.                            *)
defaultHealthCheck(b) ==
  LET d == driver[ref[b]] IN
  /\ pc[b] = "checking"
  /\ \/ d = "live" /\ Goto(b, "passed")
     \/ Goto(b, "missed")
  /\ crashed' = (d = "nil")
  /\ UNCHANGED <<pool, connVars, closeVars, ref, repl, cand, nilWrapped>>

(* The result, under the connection lock. *)
recordHealthCheck(b) ==
  LET c == ref[b]
      n == IF pc[b] = "passed" THEN 0 ELSE failures[c] + 1
      h == IF pc[b] = "passed" THEN "Healthy"
           ELSE HealthAfter(n, DegradedFailureThreshold, UnhealthyFailureThreshold)
  IN
  /\ pc[b] \in {"passed", "missed"}
  /\ failures' = [failures EXCEPT ![c] = n]
  /\ health' = [health EXCEPT ![c] = h]
  /\ marked' = IF \/ h = "Unhealthy" /\ HealthCheckTriggerRebuild
                  \/ h = "Degraded" /\ RebuildOnDegraded
                 THEN marked \cup {c} ELSE marked
  /\ state' = IF state[c] = "Checking" THEN [state EXCEPT ![c] = "Acquired"] ELSE state
  /\ Goto(b, "checked")
  /\ UNCHANGED <<pool, usingCount, driver, rebuilding, closeVars, crashed, ref, repl,
                 cand, nilWrapped>>

(* conn.release: only an Acquired connection goes back to Idle. *)
release(s) == IF s = "Acquired" THEN "Idle" ELSE s

(* The pool's Release, and the end of a health check. *)
Release(b) ==
  LET c == ref[b] IN
  /\ pc[b] \in {"held", "checked"}
  /\ state' = [state EXCEPT ![c] = release(@)]
  /\ ref' = [ref EXCEPT ![b] = NoConn]
  /\ nilWrapped' = nilWrapped \ {b}
  /\ Goto(b, "out")
  /\ UNCHANGED <<pool, health, failures, usingCount, driver, marked, rebuilding,
                 closeVars, crashed, repl, cand>>

-----------------------------------------------------------------------------
(***************************************************************************)
(* Rebuild workers: RebuildConnectionByProto, RebuildConnectionByID and    *)
(* performCoreRebuild.                                                     *)
(***************************************************************************)

(* RebuildManager.sendEvent has no recover: an event sent after Close has  *)
(* closed the channel ends the process.                                    *)
sendRebuildEvent == crashed' = shuttingDown

(* ShouldRebuild evaluates an unmarked connection only; its state must be  *)
(* right, whatever its health.                                             *)
checkConnectionState(c) == c \notin marked /\ state[c] = "Idle" /\ c \notin rebuilding

(* EvaluateAndMark on one connection of the pool; whether the interval has *)
(* passed and the usage, age or error strategy holds is a free choice.     *)
EvaluateAndMark(c) ==
  /\ c \in pool
  /\ checkConnectionState(c)
  /\ marked' = marked \cup {c}
  /\ sendRebuildEvent
  /\ UNCHANGED <<pool, state, health, failures, usingCount, driver, rebuilding,
                 closeVars, pc, ref, repl, cand, nilWrapped>>

(* What the rebuild task finds: a mark is cleared only after its           *)
(* connection has left the map, so of a snapshot of marked connections     *)
(* the ones still in the map are still marked.                             *)
getConnectionsForRebuild == marked \cap pool

(* A worker takes a marked connection and finds it in the map by its id. *)
findConnectionByID(r) ==
  /\ pc[r] = "out"
  /\ ~shuttingDown
  /\ \E c \in getConnectionsForRebuild : ref' = [ref EXCEPT ![r] = c]
  /\ Goto(r, "start")
  /\ UNCHANGED <<pool, connVars, closeVars, crashed, repl, cand, nilWrapped>>

(* canStartRebuild: neither the rebuilding flag nor the health counts. *)
Startable(c) == state[c] = "Idle" /\ usingCount[c] = 0

(* rebuildConnection: the started event, then phase 1, the unlocked check. *)
canStartRebuild(r) ==
  /\ pc[r] = "start"
  /\ sendRebuildEvent
  /\ Goto(r, IF Startable(ref[r]) THEN "begin" ELSE "refused")
  /\ UNCHANGED <<pool, connVars, closeVars, ref, repl, cand, nilWrapped>>

(* Phase 2, under the connection lock. *)
beginRebuild(r) ==
  LET c == ref[r] IN
  /\ pc[r] = "begin"
  /\ \/ /\ c \in rebuilding \/ state[c] \in {"Closing", "Closed"}
        /\ Goto(r, "refused")
        /\ UNCHANGED rebuilding
     \/ /\ c \notin rebuilding /\ state[c] \notin {"Closing", "Closed"}
        /\ rebuilding' = rebuilding \cup {c}
        /\ Goto(r, "close")
  /\ UNCHANGED <<pool, state, health, failures, usingCount, driver, marked,
                 closeVars, crashed, ref, repl, cand, nilWrapped>>

(* Phase 3.1: a refused transition (Closing or Closed already) is ignored. *)
beginClose(r) ==
  /\ pc[r] = "close"
  /\ state' = [state EXCEPT ![ref[r]] = Transition(@, "Closing")]
  /\ Goto(r, "drop")
  /\ UNCHANGED <<pool, health, failures, usingCount, driver, marked, rebuilding,
                 closeVars, crashed, ref, repl, cand, nilWrapped>>

(* Phase 3.2: driver.Close(); driver = nil, without a lock. *)
DropDriver(r) ==
  /\ pc[r] = "drop"
  /\ driver' = [driver EXCEPT ![ref[r]] = "nil"]
  /\ Goto(r, "remove")
  /\ UNCHANGED <<pool, state, health, failures, usingCount, marked, rebuilding,
                 closeVars, crashed, ref, repl, cand, nilWrapped>>

(* Phase 3.3, under the pool lock. *)
RemoveOld(r) ==
  /\ pc[r] = "remove"
  /\ pool' = pool \ {ref[r]}
  /\ Goto(r, "complete")
  /\ UNCHANGED <<connVars, closeVars, crashed, ref, repl, cand, nilWrapped>>

(* Phase 3.4, then createConnection's context check. *)
completeClose(r) ==
  LET c == ref[r] IN
  /\ pc[r] = "complete"
  /\ state' = [state EXCEPT ![c] = IF @ = "Closing" THEN "Closed" ELSE @]
  /\ Goto(r, IF shuttingDown THEN "failed" ELSE "replace")
  /\ UNCHANGED <<pool, health, failures, usingCount, driver, marked, rebuilding,
                 closeVars, crashed, ref, repl, cand, nilWrapped>>

(* Fault: a failed creation is tried again without limit. *)
createReplacementForever(r) ==
  /\ pc[r] = "replace"
  /\ \/ \E c \in Fresh :
          /\ driver' = [driver EXCEPT ![c] = "live"]
          /\ repl' = [repl EXCEPT ![r] = c]
          /\ Goto(r, "insert")
     \/ Fresh = {} /\ UNCHANGED <<driver, repl, pc>>
  /\ UNCHANGED <<pool, state, health, failures, usingCount, marked, rebuilding,
                 closeVars, crashed, ref, cand, nilWrapped>>

(* Phase 4: the factory answers, with no lock held. *)
createReplacementConnection(r) ==
  /\ pc[r] = "replace"
  /\ \/ \E c \in Fresh :
          /\ driver' = [driver EXCEPT ![c] = "live"]
          /\ repl' = [repl EXCEPT ![r] = c]
          /\ Goto(r, "insert")
     \/ Goto(r, "failed") /\ UNCHANGED <<driver, repl>>
  /\ UNCHANGED <<pool, state, health, failures, usingCount, marked, rebuilding,
                 closeVars, crashed, ref, cand, nilWrapped>>

(* Phase 5, under the pool lock: the size is not checked again. *)
InsertNew(r) ==
  /\ pc[r] = "insert"
  /\ pool' = pool \cup {repl[r]}
  /\ repl' = [repl EXCEPT ![r] = NoConn]
  /\ Goto(r, "finish")
  /\ UNCHANGED <<connVars, closeVars, crashed, ref, cand, nilWrapped>>

(* Fault: the flag is cleared on success only. *)
completeRebuildOnSuccess(r) ==
  LET c == ref[r] IN
  /\ pc[r] \in {"finish", "failed", "refused"}
  /\ rebuilding' = IF pc[r] = "finish" THEN rebuilding \ {c} ELSE rebuilding
  /\ marked' = IF pc[r] = "finish" THEN marked \ {c} ELSE marked
  /\ sendRebuildEvent
  /\ ref' = [ref EXCEPT ![r] = NoConn]
  /\ Goto(r, "out")
  /\ UNCHANGED <<pool, state, health, failures, usingCount, driver,
                 closeVars, repl, cand, nilWrapped>>

(* The deferred completeRebuild (the mark survives a failure), then the    *)
(* completed or failed event.  A refused worker never set the flag.        *)
completeRebuild(r) ==
  LET c == ref[r] IN
  /\ pc[r] \in {"finish", "failed", "refused"}
  /\ rebuilding' = IF pc[r] = "refused" THEN rebuilding ELSE rebuilding \ {c}
  /\ marked' = IF pc[r] = "finish" THEN marked \ {c} ELSE marked
  /\ sendRebuildEvent
  /\ ref' = [ref EXCEPT ![r] = NoConn]
  /\ Goto(r, "out")
  /\ UNCHANGED <<pool, state, health, failures, usingCount, driver,
                 closeVars, repl, cand, nilWrapped>>

-----------------------------------------------------------------------------
(***************************************************************************)
(* WarmUp: one goroutine per requested connection; the size of the pool is *)
(* not looked at.                                                          *)
(***************************************************************************)

WarmCreate(w) ==
  /\ pc[w] = "warm"
  /\ \/ /\ ~shuttingDown
        /\ \E c \in Fresh :
             /\ driver' = [driver EXCEPT ![c] = "live"]
             /\ ref' = [ref EXCEPT ![w] = c]
        /\ Goto(w, "warmadd")
     \/ Goto(w, "out") /\ UNCHANGED <<driver, ref>>
  /\ UNCHANGED <<pool, state, health, failures, usingCount, marked, rebuilding,
                 closeVars, crashed, repl, cand, nilWrapped>>

WarmAdd(w) ==
  /\ pc[w] = "warmadd"
  /\ pool' = pool \cup {ref[w]}
  /\ ref' = [ref EXCEPT ![w] = NoConn]
  /\ Goto(w, "out")
  /\ UNCHANGED <<connVars, closeVars, crashed, repl, cand, nilWrapped>>

-----------------------------------------------------------------------------
(***************************************************************************)
(* cleanupConnections.                                                     *)
(***************************************************************************)

(* Fault: an unhealthy connection that is being rebuilt, or is marked for  *)
(* it, is left to the rebuild.                                             *)
MustCleanupUnlessMarked(c) ==
  /\ usingCount[c] = 0
  /\ (health[c] = "Unhealthy" /\ c \notin marked) \/ state[c] = "Closed"

(* What shouldCleanupConnection must answer yes to, whatever the clock. *)
MustCleanup(c) ==
  /\ usingCount[c] = 0
  /\ health[c] = "Unhealthy" \/ state[c] = "Closed"

(* What it may answer yes to: any other connection whose timeout is over. *)
MayCleanup(c) == usingCount[c] = 0

(* The decision, without a lock. *)
shouldCleanupConnection(c) ==
  /\ pc[Cleaner] = "out"
  /\ phase # "drained"
  /\ c \in pool
  /\ MayCleanup(c)
  /\ ref' = [ref EXCEPT ![Cleaner] = c]
  /\ Goto(Cleaner, "evict")
  /\ UNCHANGED <<pool, connVars, closeVars, crashed, repl, cand, nilWrapped>>

(* Fault: the connection is closed but stays in the map. *)
EvictKeepingEntry ==
  LET c == ref[Cleaner] IN
  /\ pc[Cleaner] = "evict"
  /\ evicted' = IF c \in pool THEN evicted \cup {c} ELSE evicted
  /\ ref' = [ref EXCEPT ![Cleaner] = NoConn]
  /\ Goto(Cleaner, "out")
  /\ UNCHANGED <<pool, connVars, toClose, phase, crashed, repl, cand, nilWrapped>>

(* The deletion under the pool lock: only the presence of the id is        *)
(* checked again.  The connection is closed by a goroutine of its own.     *)
Evict ==
  LET c == ref[Cleaner] IN
  /\ pc[Cleaner] = "evict"
  /\ pool' = pool \ {c}
  /\ evicted' = IF c \in pool THEN evicted \cup {c} ELSE evicted
  /\ ref' = [ref EXCEPT ![Cleaner] = NoConn]
  /\ Goto(Cleaner, "out")
  /\ UNCHANGED <<connVars, toClose, phase, crashed, repl, cand, nilWrapped>>

(* Fault: forceClose forgets the driver it has closed. *)
forceCloseToNil(c) ==
  /\ c \in evicted
  /\ evicted' = evicted \ {c}
  /\ driver' = [driver EXCEPT ![c] = "nil"]
  /\ UNCHANGED <<pool, state, health, failures, usingCount, marked, rebuilding,
                 toClose, phase, crashed, pc, ref, repl, cand, nilWrapped>>

(* forceClose closes the driver whoever uses it and leaves conn.state; the *)
(* panic of a nil driver is recovered.  A user in its first Connect is the *)
(* overlap that ScrapliDriver speaks of.                                   *)
forceClose(c) ==
  /\ c \in evicted
  /\ evicted' = evicted \ {c}
  /\ driver' = IF driver[c] = "live" THEN [driver EXCEPT ![c] = "closed"] ELSE driver
  /\ UNCHANGED <<pool, state, health, failures, usingCount, marked, rebuilding,
                 toClose, phase, crashed, pc, ref, repl, cand, nilWrapped>>

-----------------------------------------------------------------------------
(***************************************************************************)
(* Close.                                                                  *)
(***************************************************************************)

(* The flag, the cancelled context and the closed event channel. *)
CloseBegin ==
  /\ phase = "open"
  /\ phase' = "closing"
  /\ UNCHANGED <<pool, connVars, evicted, toClose, crashed, pc, ref, repl, cand, nilWrapped>>

(* After wg.Wait (the cleanup task has returned), under the pool lock:     *)
(* connections in use are released on their users' behalf, the map is      *)
(* emptied.                                                                *)
CloseDrain ==
  /\ phase = "closing"
  /\ pc[Cleaner] = "out"
  /\ state' = [c \in Conn |-> IF c \in pool THEN release(state[c]) ELSE state[c]]
  /\ toClose' = pool
  /\ pool' = {}
  /\ phase' = "drained"
  /\ UNCHANGED <<health, failures, usingCount, driver, marked, rebuilding, evicted,
                 crashed, pc, ref, repl, cand, nilWrapped>>

(* setHealth and safeClose: a driver still in use after the wait stays     *)
(* open; the panic of a nil driver is recovered.                           *)
safeClose(c) ==
  /\ c \in toClose
  /\ toClose' = toClose \ {c}
  /\ health' = [health EXCEPT ![c] = "Unhealthy"]
  /\ driver' = IF usingCount[c] = 0 /\ driver[c] = "live"
                 THEN [driver EXCEPT ![c] = "closed"] ELSE driver
  /\ UNCHANGED <<pool, state, failures, usingCount, marked, rebuilding, evicted, phase,
                 crashed, pc, ref, repl, cand, nilWrapped>>

-----------------------------------------------------------------------------
BorrowerStep(b) ==
  \/ GetWithContext(b) \/ AbandonGet(b) \/ Lookup(b)
  \/ tryAcquireForTask(b) \/ StartCreate(b) \/ Create(b) \/ AddNew(b)
  \/ activateConnection(b) \/ acquireUse(b) \/ BeginExecute(b) \/ EndExecute(b)
  \/ beginHealthCheck(b) \/ defaultHealthCheck(b) \/ recordHealthCheck(b) \/ Release(b)

(* A rebuild in progress: everything but the choice of a connection. *)
RebuildStep(r) ==
  \/ canStartRebuild(r) \/ beginRebuild(r) \/ beginClose(r) \/ DropDriver(r)
  \/ RemoveOld(r) \/ completeClose(r) \/ createReplacementConnection(r)
  \/ InsertNew(r) \/ completeRebuild(r)

Next ==
  /\ ~crashed
  /\ \/ \E b \in Borrower : BorrowerStep(b)
     \/ \E r \in Rebuilder : findConnectionByID(r) \/ RebuildStep(r)
     \/ \E w \in Warmer : WarmCreate(w) \/ WarmAdd(w)
     \/ \E c \in Conn : EvaluateAndMark(c) \/ shouldCleanupConnection(c)
                        \/ forceClose(c) \/ safeClose(c)
     \/ Evict
     \/ CloseBegin
     \/ CloseDrain

Spec == Init /\ [][Next]_vars

(***************************************************************************)
(* Fairness.  A rebuild worker that has started is a goroutine without a   *)
(* blocking wait: every network call it makes has a timeout.  The cleanup  *)
(* loop visits every id of the map once per period, so a connection that   *)
(* must be cleaned up whenever it is looked at is eventually decided upon; *)
(* a timeout, by contrast, need never expire.  Close waits only for the    *)
(* background tasks.  Nothing obliges a caller to Get, to Release or to    *)
(* Close, or a policy to mark a connection.                                *)
(***************************************************************************)
Fairness ==
  /\ \A r \in Rebuilder : WF_vars(~crashed /\ RebuildStep(r))
  /\ \A c \in Conn : SF_vars(~crashed /\ MustCleanup(c) /\ shouldCleanupConnection(c))
  /\ WF_vars(~crashed /\ Evict)
  /\ WF_vars(~crashed /\ CloseDrain)

FairSpec == Spec /\ Fairness

-----------------------------------------------------------------------------
(***************************************************************************)
(* What must hold.                                                         *)
(***************************************************************************)

(* Where a borrower has a connection it acquired and has not released. *)
Holding == {"activate", "held", "using", "executing", "running",
            "checking", "passed", "missed", "checked"}
Holder == {b \in Borrower : pc[b] \in Holding}

(* Where a rebuild worker has set conn.rebuilding and not cleared it. *)
Owning == {"close", "drop", "remove", "complete", "replace", "insert", "finish", "failed"}
Owner == {r \in Rebuilder : pc[r] \in Owning}

(* Two goroutines never hold the same connection: between tryAcquireForTask *)
(* and Release a connection is not Idle, through executions, health checks  *)
(* and a rebuild or an eviction that runs into them.  Close ends this: it   *)
(* releases connections that others are using.                              *)
ExclusiveUse ==
  phase # "drained" =>
    \A b1, b2 \in Holder : ref[b1] = ref[b2] => b1 = b2

(* The pool's promise to its callers, as Lease states it: who holds which  *)
(* connection, and which connections are out of service.                   *)
Leased == [b \in Borrower |-> IF pc[b] \in Holding THEN ref[b] ELSE NoConn]
OutOfService == {c \in Conn : health[c] = "Unhealthy" \/ state[c] \in {"Closing", "Closed"}}

Promise == INSTANCE Lease WITH Client <- Borrower, lease <- Leased,
                               retired <- OutOfService, open <- (phase # "drained")

(* The pool with all its goroutines implements the promise: a connection    *)
(* found unhealthy or being closed is never handed out again, however old   *)
(* the snapshot a borrower goes through, and none is handed to two.         *)
KeepsPromise == Promise!Spec

(* A connection found Unhealthy stays so until it is gone: it cannot be     *)
(* acquired, so no later check can bring it back behind the cleanup's and   *)
(* the rebuild's back.                                                      *)
UnhealthyIsFinal ==
  [][\A c \in Conn : phase # "drained" /\ health[c] = "Unhealthy" => health'[c] = "Unhealthy"]_vars

(* conn.rebuilding is set exactly while one worker rebuilds the connection: *)
(* two workers never tear down the same one and no exit of                  *)
(* performCoreRebuild leaves the flag behind.                               *)
RebuildOwnership ==
  /\ rebuilding = {ref[r] : r \in Owner}
  /\ \A r1, r2 \in Owner : ref[r1] = ref[r2] => r1 = r2

(* What may exceed MaxConnections are a connection per warm-up goroutine    *)
(* that has returned and per connection that a rebuild has closed, at most  *)
(* one per rebuild worker: tryCreateNewConnection's second count check      *)
(* stops every other creation, however many borrowers race, and a           *)
(* replacement arrives once, though the connection it replaces may be       *)
(* evicted and its place taken meanwhile.                                   *)
PoolBound ==
  LET limit == MaxConnections + Cardinality({w \in Warmer : pc[w] = "out"}) IN
  /\ Cardinality(pool) <= limit + Cardinality(Rebuilder)
  /\ Cardinality(pool) <= limit + Cardinality({c \in Conn : state[c] \in {"Closing", "Closed"}})

(* What is in the map can be used: a driver is closed only once its         *)
(* connection has left the map, but for the window of performCoreRebuild    *)
(* between phases 3.2 and 3.3.                                              *)
PoolDriversLive ==
  \A c \in pool : driver[c] = "live" \/ \E r \in Owner : pc[r] = "remove" /\ ref[r] = c

(* A connection of the map that is not Idle has somebody who will give it   *)
(* back or take it out: no exit of Execute, of a health check or of a       *)
(* rebuild strands it.                                                      *)
NoStrandedConnection ==
  \A c \in pool : state[c] # "Idle" =>
    \/ \E b \in Holder : ref[b] = c
    \/ \E r \in Owner : pc[r] \in {"drop", "remove"} /\ ref[r] = c

(* Until Close has emptied the map, every open driver is in the map, waits  *)
(* to be closed, or is on its way into the map in a creating goroutine: no  *)
(* session to a router is forgotten.                                        *)
NoLeakedDriver ==
  phase # "drained" =>
    \A c \in Conn : driver[c] = "live" =>
      \/ c \in pool \cup evicted
      \/ \E p \in Borrower \cup Warmer : pc[p] \in {"add", "warmadd"} /\ ref[p] = c
      \/ \E r \in Rebuilder : pc[r] = "insert" /\ repl[r] = c

(* A nil driver is announced: while a borrower's wrapper or connection has  *)
(* no driver, conn.state says Closing or Closed, whatever Execute, a check, *)
(* a release or Close writes to it meanwhile.  So Execute, which reads the  *)
(* state under the lock just before it calls the driver, could refuse.  The *)
(* pool's own code panics there and where an event is sent after Close, and *)
(* nowhere else; an eviction sets no driver to nil.  A panic inside the     *)
(* driver, which a Close beside its first Connect may cause, is the subject *)
(* of ScrapliDriver (HarmNeedsOverlap) and not counted here.                *)
NilDriverAnnounced ==
  /\ \A b \in Holder : b \in nilWrapped \/ driver[ref[b]] = "nil" =>
                       state[ref[b]] \in {"Closing", "Closed"}
  /\ crashed => shuttingDown \/ \E b \in Holder : driver[ref[b]] = "nil"

(* A rebuild that has begun ends, whatever happens to the connection and   *)
(* to the pool meanwhile, unless the process does.                         *)
RebuildEnds == \A r \in Rebuilder : pc[r] # "out" ~> (pc[r] = "out" \/ crashed)

(* An unhealthy connection leaves the map, though it can no longer be       *)
(* acquired: by the cleanup, by a rebuild or by Close.                      *)
UnhealthyLeaves ==
  \A c \in Conn :
    (c \in pool /\ health[c] = "Unhealthy" /\ phase # "drained") ~> (c \notin pool \/ crashed)

-----------------------------------------------------------------------------
(***************************************************************************)
(* What the design document says of the pool, and the code does not        *)
(* guarantee.                                                              *)
(***************************************************************************)

(* A rebuild never closes the driver of a connection somebody holds        *)
(* (HEALTH_REBUILD_DESIGN.md: the checks of canStartRebuild and            *)
(* beginRebuild make sure the connection is idle).                         *)
NoTeardownInUse ==
  \A r \in Owner : \A b \in Holder : ref[r] = ref[b] => pc[r] = "close"

=============================================================================
