--------------------------- MODULE ConnPoolProofs ---------------------------
(***************************************************************************)
(* Theorems about ConnPool, for any number of connections, borrowers,      *)
(* rebuild workers and warm-up goroutines and any configuration.           *)
(***************************************************************************)
EXTENDS ConnPool, FiniteSetTheorems, TLAPS

-----------------------------------------------------------------------------
(***************************************************************************)
(* Type correctness.  The one type that is not preserved by the shape of   *)
(* the actions is usingCount \in Nat: a release must be matched by an      *)
(* earlier acquireUse, even after Close has let two borrowers share a      *)
(* connection.  So usingCount is shown to count its users.                 *)
(***************************************************************************)

BorrowerLabels == {"out", "scan", "acquire", "create", "add"} \cup Holding
RebuilderLabels == {"out", "start", "begin", "refused"} \cup Owning

(* Every goroutine is at one of its own labels and has the pointers it is  *)
(* about to use.                                                           *)
ControlOK ==
  /\ \A b \in Borrower : /\ pc[b] \in BorrowerLabels
                         /\ pc[b] \in Holding \cup {"acquire", "add"} => ref[b] \in Conn
  /\ \A r \in Rebuilder : /\ pc[r] \in RebuilderLabels
                          /\ pc[r] # "out" => ref[r] \in Conn
                          /\ pc[r] = "insert" => repl[r] \in Conn
  /\ \A w \in Warmer : /\ pc[w] \in {"warm", "warmadd", "out"}
                       /\ pc[w] = "warmadd" => ref[w] \in Conn
  /\ pc[Cleaner] \in {"out", "evict"}
  /\ pc[Cleaner] = "evict" => ref[Cleaner] \in Conn

Using == {"using", "executing", "running"}
Users(c) == {b \in Borrower : pc[b] \in Using /\ ref[b] = c}

(* conn.usingCount is the number of executions in progress. *)
UseCounted == \A c \in Conn : usingCount[c] = Cardinality(Users(c))

TypeInv == TypeOK /\ ControlOK /\ UseCounted

LEMMA UsersFinite ==
  ASSUME NEW c
  PROVE  IsFiniteSet(Users(c)) /\ Cardinality(Users(c)) \in Nat
<1>1. Users(c) \subseteq Borrower /\ IsFiniteSet(Borrower)
  BY ConnPoolConstants DEF Users
<1>2. IsFiniteSet(Users(c))
  BY <1>1, FS_Subset
<1> QED
  BY <1>2, FS_CardinalityType

LEMMA TypeInit == Init => TypeInv
<1> SUFFICES ASSUME Init PROVE TypeInv
  OBVIOUS
<1>1. TypeOK
  BY ConnPoolConstants DEF Init, TypeOK, Proc, Labels, ConnectionState, HealthStatus
<1>2. ControlOK
  BY ConnPoolConstants DEF Init, ControlOK, Proc, BorrowerLabels, RebuilderLabels, Holding, Owning
<1>3. ASSUME NEW c \in Conn PROVE usingCount[c] = Cardinality(Users(c))
  <2>1. Users(c) = {}
    BY ConnPoolConstants DEF Init, Users, Using, Proc
  <2> QED
    BY <2>1, FS_EmptySet DEF Init
<1> QED
  BY <1>1, <1>2, <1>3 DEF TypeInv, UseCounted

(* A step that neither starts nor ends an execution. *)
Quiet ==
  /\ UNCHANGED usingCount
  /\ \A b \in Borrower : /\ pc'[b] \in Using <=> pc[b] \in Using
                         /\ pc[b] \in Using => ref'[b] = ref[b]

LEMMA QuietKeepsCount ==
  ASSUME UseCounted, Quiet
  PROVE  UseCounted'
<1> SUFFICES ASSUME NEW c \in Conn PROVE usingCount'[c] = Cardinality(Users(c)')
  BY DEF UseCounted
<1>1. Users(c)' = Users(c)
  BY DEF Quiet, Users
<1> QED
  BY <1>1 DEF UseCounted, Quiet

(* A borrower, but for the two steps that count. *)
LEMMA BorrowerTypes ==
  ASSUME TypeInv, NEW b \in Borrower,
         GetWithContext(b) \/ AbandonGet(b) \/ Lookup(b) \/
         tryAcquireForTask(b) \/ StartCreate(b) \/ Create(b) \/ AddNew(b) \/
         activateConnection(b) \/ BeginExecute(b) \/ beginHealthCheck(b) \/
         defaultHealthCheck(b) \/ recordHealthCheck(b) \/ Release(b)
  PROVE  TypeOK' /\ ControlOK' /\ Quiet
<1> USE ConnPoolConstants DEF TypeInv, TypeOK, ControlOK, Quiet, Using, Goto, Proc, Labels,
        connVars, closeVars, ConnectionState, HealthStatus,
        BorrowerLabels, RebuilderLabels, Holding, Owning
<1>1. CASE GetWithContext(b)
  BY <1>1 DEF GetWithContext
<1>2. CASE AbandonGet(b)
  BY <1>2 DEF AbandonGet
<1>3. CASE Lookup(b)
  BY <1>3 DEF Lookup
<1>4. CASE tryAcquireForTask(b)
  BY <1>4 DEF tryAcquireForTask
<1>5. CASE StartCreate(b)
  BY <1>5 DEF StartCreate
<1>6. CASE Create(b)
  BY <1>6 DEF Create, Fresh
<1>7. CASE AddNew(b)
  BY <1>7 DEF AddNew
<1>8. CASE activateConnection(b)
  BY <1>8 DEF activateConnection
<1>9. CASE BeginExecute(b)
  BY <1>9 DEF BeginExecute
<1>10. CASE beginHealthCheck(b)
  BY <1>10 DEF beginHealthCheck
<1>11. CASE defaultHealthCheck(b)
  BY <1>11 DEF defaultHealthCheck
<1>12. CASE recordHealthCheck(b)
  <2>1. ref[b] \in Conn /\ failures[ref[b]] + 1 \in Nat
    BY <1>12 DEF recordHealthCheck
  <2>2. HealthAfter(failures[ref[b]] + 1, DegradedFailureThreshold, UnhealthyFailureThreshold)
          \in HealthStatus
    BY DEF HealthAfter
  <2>3. failures' \in [Conn -> Nat] /\ health' \in [Conn -> HealthStatus]
    BY <1>12, <2>1, <2>2 DEF recordHealthCheck
  <2>4. marked' \in SUBSET Conn
    BY <1>12, <2>1 DEF recordHealthCheck
  <2>5. state' \in [Conn -> ConnectionState]
    BY <1>12 DEF recordHealthCheck
  <2> QED
    BY <1>12, <2>3, <2>4, <2>5 DEF recordHealthCheck
<1>13. CASE Release(b)
  BY <1>13 DEF Release, release
<1> QED
  BY <1>1, <1>2, <1>3, <1>4, <1>5, <1>6, <1>7, <1>8, <1>9, <1>10, <1>11, <1>12, <1>13

(* A rebuild worker. *)
LEMMA RebuilderTypes ==
  ASSUME TypeInv, NEW r \in Rebuilder,
         findConnectionByID(r) \/ canStartRebuild(r) \/ beginRebuild(r) \/
         beginClose(r) \/ DropDriver(r) \/ RemoveOld(r) \/ completeClose(r) \/
         createReplacementConnection(r) \/ InsertNew(r) \/ completeRebuild(r)
  PROVE  TypeOK' /\ ControlOK' /\ Quiet
<1> USE ConnPoolConstants DEF TypeInv, TypeOK, ControlOK, Quiet, Using, Goto, Proc, Labels,
        connVars, closeVars, ConnectionState, HealthStatus,
        BorrowerLabels, RebuilderLabels, Holding, Owning
<1>1. CASE findConnectionByID(r)
  BY <1>1 DEF findConnectionByID, getConnectionsForRebuild
<1>2. CASE canStartRebuild(r)
  BY <1>2 DEF canStartRebuild, Startable, sendRebuildEvent, shuttingDown
<1>3. CASE beginRebuild(r)
  BY <1>3 DEF beginRebuild
<1>4. CASE beginClose(r)
  BY <1>4 DEF beginClose, Transition, CanTransition
<1>5. CASE DropDriver(r)
  BY <1>5 DEF DropDriver
<1>6. CASE RemoveOld(r)
  BY <1>6 DEF RemoveOld
<1>7. CASE completeClose(r)
  BY <1>7 DEF completeClose
<1>8. CASE createReplacementConnection(r)
  BY <1>8 DEF createReplacementConnection, Fresh
<1>9. CASE InsertNew(r)
  BY <1>9 DEF InsertNew
<1>10. CASE completeRebuild(r)
  BY <1>10 DEF completeRebuild, sendRebuildEvent, shuttingDown
<1> QED
  BY <1>1, <1>2, <1>3, <1>4, <1>5, <1>6, <1>7, <1>8, <1>9, <1>10

(* A warm-up goroutine. *)
LEMMA WarmerTypes ==
  ASSUME TypeInv, NEW w \in Warmer,
         WarmCreate(w) \/ WarmAdd(w)
  PROVE  TypeOK' /\ ControlOK' /\ Quiet
<1> USE ConnPoolConstants DEF TypeInv, TypeOK, ControlOK, Quiet, Using, Goto, Proc, Labels,
        connVars, closeVars, ConnectionState, HealthStatus,
        BorrowerLabels, RebuilderLabels, Holding, Owning
<1>1. CASE WarmCreate(w)
  BY <1>1 DEF WarmCreate, Fresh
<1>2. CASE WarmAdd(w)
  BY <1>2 DEF WarmAdd
<1> QED
  BY <1>1, <1>2

(* The steps on one connection: marking, cleanup and the two ways to close. *)
LEMMA ConnectionTypes ==
  ASSUME TypeInv, NEW c \in Conn,
         EvaluateAndMark(c) \/ shouldCleanupConnection(c) \/ forceClose(c) \/
         safeClose(c)
  PROVE  TypeOK' /\ ControlOK' /\ Quiet
<1> USE ConnPoolConstants DEF TypeInv, TypeOK, ControlOK, Quiet, Using, Goto, Proc, Labels,
        connVars, closeVars, ConnectionState, HealthStatus,
        BorrowerLabels, RebuilderLabels, Holding, Owning
<1>1. CASE EvaluateAndMark(c)
  BY <1>1 DEF EvaluateAndMark, checkConnectionState, sendRebuildEvent, shuttingDown
<1>2. CASE shouldCleanupConnection(c)
  BY <1>2 DEF shouldCleanupConnection
<1>3. CASE forceClose(c)
  BY <1>3 DEF forceClose
<1>4. CASE safeClose(c)
  BY <1>4 DEF safeClose
<1> QED
  BY <1>1, <1>2, <1>3, <1>4

(* The rest of the cleanup and of Close. *)
LEMMA PoolTypes ==
  ASSUME TypeInv, Evict \/ CloseBegin \/ CloseDrain
  PROVE  TypeOK' /\ ControlOK' /\ Quiet
<1> USE ConnPoolConstants DEF TypeInv, TypeOK, ControlOK, Quiet, Using, Goto, Proc, Labels,
        connVars, closeVars, ConnectionState, HealthStatus,
        BorrowerLabels, RebuilderLabels, Holding, Owning
<1>1. CASE Evict
  BY <1>1 DEF Evict
<1>2. CASE CloseBegin
  BY <1>2 DEF CloseBegin
<1>3. CASE CloseDrain
  BY <1>3 DEF CloseDrain, release
<1> QED
  BY <1>1, <1>2, <1>3

(* acquireUse adds the borrower to the users of its connection. *)
LEMMA AcquireUseTypes ==
  ASSUME TypeInv, NEW b \in Borrower, acquireUse(b)
  PROVE  TypeInv'
<1>1. TypeOK' /\ ControlOK'
  BY ConnPoolConstants DEF TypeInv, TypeOK, ControlOK, acquireUse, Goto, Proc, Labels,
     closeVars, BorrowerLabels, RebuilderLabels, Holding, Owning
<1>2. ASSUME NEW c \in Conn PROVE usingCount'[c] = Cardinality(Users(c)')
  <2>1. usingCount[c] = Cardinality(Users(c)) /\ usingCount \in [Conn -> Nat] /\ ref[b] \in Conn
    BY DEF TypeInv, TypeOK, ControlOK, UseCounted, acquireUse, Holding
  <2>2. CASE c = ref[b]
    <3>1. Users(c)' = Users(c) \cup {b} /\ b \notin Users(c)
      BY <2>2, ConnPoolConstants DEF TypeInv, TypeOK, acquireUse, Goto, Users, Using, Proc
    <3>2. Cardinality(Users(c) \cup {b}) = Cardinality(Users(c)) + 1
      BY <3>1, UsersFinite, FS_AddElement
    <3>3. usingCount'[c] = usingCount[c] + 1
      BY <2>1, <2>2 DEF acquireUse
    <3> QED
      BY <2>1, <3>1, <3>2, <3>3
  <2>3. CASE c # ref[b]
    <3>1. Users(c)' = Users(c)
      BY <2>3, ConnPoolConstants DEF TypeInv, TypeOK, acquireUse, Goto, Users, Using, Proc
    <3>2. usingCount'[c] = usingCount[c]
      BY <2>1, <2>3 DEF acquireUse
    <3> QED
      BY <2>1, <3>1, <3>2
  <2> QED
    BY <2>2, <2>3
<1> QED
  BY <1>1, <1>2 DEF TypeInv, UseCounted

(* releaseUse takes the borrower away: there was at least one user. *)
LEMMA EndExecuteTypes ==
  ASSUME TypeInv, NEW b \in Borrower, EndExecute(b)
  PROVE  TypeInv'
<1>1. usingCount \in [Conn -> Nat] /\ ref[b] \in Conn
  BY DEF TypeInv, TypeOK, ControlOK, EndExecute, Holding
<1>2. ASSUME NEW c \in Conn PROVE usingCount'[c] \in Nat /\ usingCount'[c] = Cardinality(Users(c)')
  <2>1. usingCount[c] = Cardinality(Users(c))
    BY DEF TypeInv, UseCounted
  <2>2. CASE c = ref[b]
    <3>1. Users(c)' = Users(c) \ {b} /\ b \in Users(c)
      BY <2>2, ConnPoolConstants DEF TypeInv, TypeOK, EndExecute, Goto, Users, Using, Proc
    <3>2. Cardinality(Users(c) \ {b}) = Cardinality(Users(c)) - 1 /\ IsFiniteSet(Users(c) \ {b})
      BY <3>1, UsersFinite, FS_RemoveElement
    <3>3. Cardinality(Users(c) \ {b}) \in Nat
      BY <3>2, FS_CardinalityType
    <3>4. usingCount'[c] = usingCount[c] - 1
      BY <1>1, <2>2 DEF EndExecute
    <3> QED
      BY <2>1, <3>1, <3>2, <3>3, <3>4
  <2>3. CASE c # ref[b]
    <3>1. Users(c)' = Users(c)
      BY <2>3, ConnPoolConstants DEF TypeInv, TypeOK, EndExecute, Goto, Users, Using, Proc
    <3>2. usingCount'[c] = usingCount[c]
      BY <1>1, <2>3 DEF EndExecute
    <3> QED
      BY <1>1, <2>1, <3>1, <3>2
  <2> QED
    BY <2>2, <2>3
<1>3. usingCount' \in [Conn -> Nat]
  BY <1>1, <1>2 DEF EndExecute
<1>4. TypeOK' /\ ControlOK'
  BY <1>3, ConnPoolConstants DEF TypeInv, TypeOK, ControlOK, EndExecute, Transition, CanTransition,
     Goto, Proc, Labels, closeVars, ConnectionState, BorrowerLabels, RebuilderLabels, Holding, Owning
<1> QED
  BY <1>2, <1>4 DEF TypeInv, UseCounted

LEMMA StutterTypes ==
  ASSUME TypeInv, UNCHANGED vars
  PROVE  TypeInv'
BY DEF TypeInv, TypeOK, ControlOK, UseCounted, Users, vars, connVars, closeVars

LEMMA TypeStep == TypeInv /\ [Next]_vars => TypeInv'
<1> SUFFICES ASSUME TypeInv, [Next]_vars PROVE TypeInv'
  OBVIOUS
<1> USE DEF TypeInv
<1>1. ASSUME NEW b \in Borrower, BorrowerStep(b) PROVE TypeInv'
  BY <1>1, BorrowerTypes, AcquireUseTypes, EndExecuteTypes, QuietKeepsCount DEF BorrowerStep
<1>2. ASSUME NEW r \in Rebuilder, findConnectionByID(r) \/ RebuildStep(r) PROVE TypeInv'
  BY <1>2, RebuilderTypes, QuietKeepsCount DEF RebuildStep
<1>3. ASSUME NEW w \in Warmer, WarmCreate(w) \/ WarmAdd(w) PROVE TypeInv'
  BY <1>3, WarmerTypes, QuietKeepsCount
<1>4. ASSUME NEW c \in Conn,
             EvaluateAndMark(c) \/ shouldCleanupConnection(c) \/ forceClose(c) \/ safeClose(c)
      PROVE  TypeInv'
  BY <1>4, ConnectionTypes, QuietKeepsCount
<1>5. CASE Evict \/ CloseBegin \/ CloseDrain
  BY <1>5, PoolTypes, QuietKeepsCount
<1>6. CASE UNCHANGED vars
  BY <1>6, StutterTypes
<1> QED
  BY <1>1, <1>2, <1>3, <1>4, <1>5, <1>6 DEF Next

(* The types of all variables; in particular no sequence of executions,    *)
(* panics and closures takes conn.usingCount below zero (a negative count  *)
(* would let a connection in use be acquired or cleaned up).               *)
THEOREM TypeCorrect == Spec => []TypeOK
<1>1. TypeInv => TypeOK
  BY DEF TypeInv
<1> QED
  BY TypeInit, TypeStep, <1>1, PTL DEF Spec

-----------------------------------------------------------------------------
(***************************************************************************)
(* One holder per connection and no way back to health.                        *)
(* ExclusiveUse is inductive with the state of a held connection: it is    *)
(* not Idle, so that tryAcquireForTask refuses it.  UnhealthyIsFinal needs *)
(* both, and that a borrower which may still record a check holds a        *)
(* connection that is not Unhealthy.                                       *)
(***************************************************************************)

HeldNotIdle == \A b \in Holder : state[ref[b]] # "Idle"
HeldByOne == \A b1, b2 \in Holder : ref[b1] = ref[b2] => b1 = b2
HeldNotUnhealthy == \A b \in Holder : pc[b] # "checked" => health[ref[b]] # "Unhealthy"

UseInv ==
  \/ phase = "drained"
  \/ toClose = {} /\ HeldNotIdle /\ HeldByOne /\ HeldNotUnhealthy

(* What one step does to the health of the connections. *)
HealthStep ==
  \A c \in Conn : phase # "drained" /\ health[c] = "Unhealthy" => health'[c] = "Unhealthy"

LEMMA UseInit == Init => UseInv
BY ConnPoolConstants DEF Init, UseInv, HeldNotIdle, HeldByOne, HeldNotUnhealthy, Holder, Holding, Proc

(* A borrower. *)
LEMMA BorrowerUse ==
  ASSUME TypeInv, UseInv, NEW b \in Borrower,
         GetWithContext(b) \/ AbandonGet(b) \/ Lookup(b) \/
         tryAcquireForTask(b) \/ StartCreate(b) \/ Create(b) \/ AddNew(b) \/
         activateConnection(b) \/ acquireUse(b) \/ BeginExecute(b) \/
         EndExecute(b) \/ beginHealthCheck(b) \/ defaultHealthCheck(b) \/
         recordHealthCheck(b) \/ Release(b)
  PROVE  UseInv' /\ HealthStep
<1> USE ConnPoolConstants DEF TypeInv, TypeOK, ControlOK, UseInv, HeldNotIdle, HeldByOne,
        HeldNotUnhealthy, HealthStep, Holder, Holding, Goto, Proc, Labels, connVars, closeVars,
        ConnectionState, BorrowerLabels, RebuilderLabels, Owning
<1>1. CASE GetWithContext(b)
  BY <1>1 DEF GetWithContext
<1>2. CASE AbandonGet(b)
  BY <1>2 DEF AbandonGet
<1>3. CASE Lookup(b)
  BY <1>3 DEF Lookup
<1>4. CASE tryAcquireForTask(b)
  BY <1>4 DEF tryAcquireForTask, Available
<1>5. CASE StartCreate(b)
  BY <1>5 DEF StartCreate
<1>6. CASE Create(b)
  BY <1>6 DEF Create
<1>7. CASE AddNew(b)
  BY <1>7 DEF AddNew, Available
<1>8. CASE activateConnection(b)
  BY <1>8 DEF activateConnection
<1>9. CASE acquireUse(b)
  BY <1>9 DEF acquireUse
<1>10. CASE BeginExecute(b)
  BY <1>10 DEF BeginExecute
<1>11. CASE EndExecute(b)
  BY <1>11 DEF EndExecute, Transition, CanTransition
<1>12. CASE beginHealthCheck(b)
  BY <1>12 DEF beginHealthCheck
<1>13. CASE defaultHealthCheck(b)
  BY <1>13 DEF defaultHealthCheck
<1>14. CASE recordHealthCheck(b)
  BY <1>14 DEF recordHealthCheck
<1>15. CASE Release(b)
  BY <1>15 DEF Release, release
<1> QED
  BY <1>1, <1>2, <1>3, <1>4, <1>5, <1>6, <1>7, <1>8, <1>9, <1>10, <1>11, <1>12, <1>13, <1>14, <1>15

(* A rebuild worker. *)
LEMMA RebuilderUse ==
  ASSUME TypeInv, UseInv, NEW r \in Rebuilder,
         findConnectionByID(r) \/ canStartRebuild(r) \/ beginRebuild(r) \/
         beginClose(r) \/ DropDriver(r) \/ RemoveOld(r) \/ completeClose(r) \/
         createReplacementConnection(r) \/ InsertNew(r) \/ completeRebuild(r)
  PROVE  UseInv' /\ HealthStep
<1> USE ConnPoolConstants DEF TypeInv, TypeOK, ControlOK, UseInv, HeldNotIdle, HeldByOne,
        HeldNotUnhealthy, HealthStep, Holder, Holding, Goto, Proc, Labels, connVars, closeVars,
        ConnectionState, BorrowerLabels, RebuilderLabels, Owning
<1>1. CASE findConnectionByID(r)
  BY <1>1 DEF findConnectionByID, getConnectionsForRebuild
<1>2. CASE canStartRebuild(r)
  BY <1>2 DEF canStartRebuild, Startable, sendRebuildEvent
<1>3. CASE beginRebuild(r)
  BY <1>3 DEF beginRebuild
<1>4. CASE beginClose(r)
  BY <1>4 DEF beginClose, Transition, CanTransition
<1>5. CASE DropDriver(r)
  BY <1>5 DEF DropDriver
<1>6. CASE RemoveOld(r)
  BY <1>6 DEF RemoveOld
<1>7. CASE completeClose(r)
  BY <1>7 DEF completeClose
<1>8. CASE createReplacementConnection(r)
  BY <1>8 DEF createReplacementConnection
<1>9. CASE InsertNew(r)
  BY <1>9 DEF InsertNew
<1>10. CASE completeRebuild(r)
  BY <1>10 DEF completeRebuild, sendRebuildEvent
<1> QED
  BY <1>1, <1>2, <1>3, <1>4, <1>5, <1>6, <1>7, <1>8, <1>9, <1>10

(* A warm-up goroutine. *)
LEMMA WarmerUse ==
  ASSUME TypeInv, UseInv, NEW w \in Warmer,
         WarmCreate(w) \/ WarmAdd(w)
  PROVE  UseInv' /\ HealthStep
<1> USE ConnPoolConstants DEF TypeInv, TypeOK, ControlOK, UseInv, HeldNotIdle, HeldByOne,
        HeldNotUnhealthy, HealthStep, Holder, Holding, Goto, Proc, Labels, connVars, closeVars,
        ConnectionState, BorrowerLabels, RebuilderLabels, Owning
<1>1. CASE WarmCreate(w)
  BY <1>1 DEF WarmCreate
<1>2. CASE WarmAdd(w)
  BY <1>2 DEF WarmAdd
<1> QED
  BY <1>1, <1>2

(* The steps on one connection. *)
LEMMA ConnectionUse ==
  ASSUME TypeInv, UseInv, NEW c \in Conn,
         EvaluateAndMark(c) \/ shouldCleanupConnection(c) \/ forceClose(c) \/
         safeClose(c)
  PROVE  UseInv' /\ HealthStep
<1> USE ConnPoolConstants DEF TypeInv, TypeOK, ControlOK, UseInv, HeldNotIdle, HeldByOne,
        HeldNotUnhealthy, HealthStep, Holder, Holding, Goto, Proc, Labels, connVars, closeVars,
        ConnectionState, BorrowerLabels, RebuilderLabels, Owning
<1>1. CASE EvaluateAndMark(c)
  BY <1>1 DEF EvaluateAndMark, checkConnectionState, sendRebuildEvent
<1>2. CASE shouldCleanupConnection(c)
  BY <1>2 DEF shouldCleanupConnection
<1>3. CASE forceClose(c)
  BY <1>3 DEF forceClose
<1>4. CASE safeClose(c)
  BY <1>4 DEF safeClose
<1> QED
  BY <1>1, <1>2, <1>3, <1>4

(* The rest of the cleanup and of Close. *)
LEMMA PoolUse ==
  ASSUME TypeInv, UseInv,
         Evict \/ CloseBegin \/ CloseDrain
  PROVE  UseInv' /\ HealthStep
<1> USE ConnPoolConstants DEF TypeInv, TypeOK, ControlOK, UseInv, HeldNotIdle, HeldByOne,
        HeldNotUnhealthy, HealthStep, Holder, Holding, Goto, Proc, Labels, connVars, closeVars,
        ConnectionState, BorrowerLabels, RebuilderLabels, Owning
<1>1. CASE Evict
  BY <1>1 DEF Evict
<1>2. CASE CloseBegin
  BY <1>2 DEF CloseBegin
<1>3. CASE CloseDrain
  BY <1>3 DEF CloseDrain, release
<1> QED
  BY <1>1, <1>2, <1>3

LEMMA UseStep == TypeInv /\ UseInv /\ [Next]_vars => UseInv' /\ HealthStep
<1> SUFFICES ASSUME TypeInv, UseInv, [Next]_vars PROVE UseInv' /\ HealthStep
  OBVIOUS
<1>1. ASSUME NEW b \in Borrower, BorrowerStep(b) PROVE UseInv' /\ HealthStep
  BY <1>1, BorrowerUse DEF BorrowerStep
<1>2. ASSUME NEW r \in Rebuilder, findConnectionByID(r) \/ RebuildStep(r) PROVE UseInv' /\ HealthStep
  BY <1>2, RebuilderUse DEF RebuildStep
<1>3. ASSUME NEW w \in Warmer, WarmCreate(w) \/ WarmAdd(w) PROVE UseInv' /\ HealthStep
  BY <1>3, WarmerUse
<1>4. ASSUME NEW c \in Conn,
             EvaluateAndMark(c) \/ shouldCleanupConnection(c) \/ forceClose(c) \/ safeClose(c)
      PROVE  UseInv' /\ HealthStep
  BY <1>4, ConnectionUse
<1>5. CASE Evict \/ CloseBegin \/ CloseDrain
  BY <1>5, PoolUse
<1>6. CASE UNCHANGED vars
  BY <1>6 DEF UseInv, HeldNotIdle, HeldByOne, HeldNotUnhealthy, HealthStep, Holder,
     vars, connVars, closeVars
<1> QED
  BY <1>1, <1>2, <1>3, <1>4, <1>5, <1>6 DEF Next

(* Until Close empties the map, no two goroutines hold the same connection *)
(* (tryAcquireForTask, Release), whatever rebuilds and cleanups run.       *)
THEOREM HeldExclusively == Spec => []ExclusiveUse
<1>1. UseInv => ExclusiveUse
  BY DEF UseInv, HeldByOne, ExclusiveUse
<1> QED
  BY TypeInit, TypeStep, UseInit, UseStep, <1>1, PTL DEF Spec

(* recordHealthCheck never turns an Unhealthy connection back.             *)
THEOREM NoRecovery == Spec => UnhealthyIsFinal
<1>1. TypeInv /\ UseInv /\ [Next]_vars => [HealthStep]_vars
  BY UseStep
<1> QED
  BY TypeInit, TypeStep, UseInit, UseStep, <1>1, PTL DEF Spec, UnhealthyIsFinal, HealthStep

-----------------------------------------------------------------------------
(***************************************************************************)
(* The pool implements Lease.  Most steps change neither who holds what    *)
(* nor what is out of service; tryAcquireForTask and AddNew grant (the     *)
(* connection is Idle, so by HeldNotIdle nobody holds it), Release gives   *)
(* back, recordHealthCheck and beginClose retire, CloseDrain shuts down.   *)
(***************************************************************************)

SameLeases ==
  \A b \in Borrower : /\ pc'[b] \in Holding <=> pc[b] \in Holding
                      /\ pc[b] \in Holding => ref'[b] = ref[b]

SameService ==
  \A c \in Conn : /\ health'[c] = "Unhealthy" <=> health[c] = "Unhealthy"
                  /\ state'[c] \in {"Closing", "Closed"} <=> state[c] \in {"Closing", "Closed"}

PromiseStep == [Promise!Next]_(Promise!vars)

LEMMA SameLeased ==
  ASSUME SameLeases
  PROVE  Leased' = Leased
BY DEF SameLeases, Leased

LEMMA SameOutOfService ==
  ASSUME SameService
  PROVE  OutOfService' = OutOfService
BY DEF SameService, OutOfService

(* A step that is none of the caller's business. *)
LEMMA StutterPromise ==
  ASSUME SameLeases, SameService, (phase' = "drained") <=> (phase = "drained")
  PROVE  PromiseStep
<1>1. Leased' = Leased /\ OutOfService' = OutOfService
  BY SameLeased, SameOutOfService
<1>2. (phase' # "drained") = (phase # "drained")
  OBVIOUS
<1> QED
  BY <1>1, <1>2 DEF PromiseStep, Promise!vars

(* After Close has emptied the map nothing is promised. *)
LEMMA DrainedPromise ==
  ASSUME TypeInv', phase = "drained", phase' = "drained"
  PROVE  PromiseStep
<1>1. Leased' \in [Borrower -> Conn \cup {NoConn}]
  BY DEF TypeInv, TypeOK, Leased, Proc
<1>2. OutOfService' \in SUBSET Conn
  BY DEF OutOfService
<1>3. Promise!AfterShutDown
  BY <1>1, <1>2 DEF Promise!AfterShutDown
<1> QED
  BY <1>3 DEF PromiseStep, Promise!Next

(* The steps of a borrower that neither acquire, release nor judge. *)
LEMMA BorrowerQuiet ==
  ASSUME TypeInv, NEW b \in Borrower,
         GetWithContext(b) \/ AbandonGet(b) \/ Lookup(b) \/ StartCreate(b) \/ Create(b) \/
         activateConnection(b) \/ acquireUse(b) \/ BeginExecute(b) \/ EndExecute(b) \/
         beginHealthCheck(b) \/ defaultHealthCheck(b)
  PROVE  SameLeases /\ SameService /\ phase' = phase
<1> USE ConnPoolConstants DEF TypeInv, TypeOK, ControlOK, SameLeases, SameService, Holding, Goto, Proc,
        connVars, closeVars, ConnectionState, BorrowerLabels, RebuilderLabels, Owning
<1>1. CASE GetWithContext(b)
  BY <1>1 DEF GetWithContext
<1>2. CASE AbandonGet(b)
  BY <1>2 DEF AbandonGet
<1>3. CASE Lookup(b)
  BY <1>3 DEF Lookup
<1>4. CASE StartCreate(b)
  BY <1>4 DEF StartCreate
<1>5. CASE Create(b)
  BY <1>5 DEF Create
<1>6. CASE activateConnection(b)
  BY <1>6 DEF activateConnection
<1>7. CASE acquireUse(b)
  BY <1>7 DEF acquireUse
<1>8. CASE BeginExecute(b)
  BY <1>8 DEF BeginExecute
<1>9. CASE EndExecute(b)
  BY <1>9 DEF EndExecute, Transition, CanTransition
<1>10. CASE beginHealthCheck(b)
  BY <1>10 DEF beginHealthCheck
<1>11. CASE defaultHealthCheck(b)
  BY <1>11 DEF defaultHealthCheck
<1> QED
  BY <1>1, <1>2, <1>3, <1>4, <1>5, <1>6, <1>7, <1>8, <1>9, <1>10, <1>11

(* The steps of a rebuild worker but for beginClose. *)
LEMMA RebuilderQuiet ==
  ASSUME TypeInv, NEW r \in Rebuilder,
         findConnectionByID(r) \/ canStartRebuild(r) \/ beginRebuild(r) \/ DropDriver(r) \/
         RemoveOld(r) \/ completeClose(r) \/ createReplacementConnection(r) \/
         InsertNew(r) \/ completeRebuild(r)
  PROVE  SameLeases /\ SameService /\ phase' = phase
<1> USE ConnPoolConstants DEF TypeInv, TypeOK, ControlOK, SameLeases, SameService, Holding, Goto, Proc,
        connVars, closeVars, ConnectionState, BorrowerLabels, RebuilderLabels, Owning
<1>1. CASE findConnectionByID(r)
  BY <1>1 DEF findConnectionByID
<1>2. CASE canStartRebuild(r)
  BY <1>2 DEF canStartRebuild
<1>3. CASE beginRebuild(r)
  BY <1>3 DEF beginRebuild
<1>4. CASE DropDriver(r)
  BY <1>4 DEF DropDriver
<1>5. CASE RemoveOld(r)
  BY <1>5 DEF RemoveOld
<1>6. CASE completeClose(r)
  BY <1>6 DEF completeClose
<1>7. CASE createReplacementConnection(r)
  BY <1>7 DEF createReplacementConnection
<1>8. CASE InsertNew(r)
  BY <1>8 DEF InsertNew
<1>9. CASE completeRebuild(r)
  BY <1>9 DEF completeRebuild
<1> QED
  BY <1>1, <1>2, <1>3, <1>4, <1>5, <1>6, <1>7, <1>8, <1>9

(* Warm-up, marking, cleanup and the beginning of Close. *)
LEMMA OthersQuiet ==
  ASSUME TypeInv,
         \/ \E w \in Warmer : WarmCreate(w) \/ WarmAdd(w)
         \/ \E c \in Conn : EvaluateAndMark(c) \/ shouldCleanupConnection(c) \/ forceClose(c)
         \/ Evict \/ CloseBegin
  PROVE  SameLeases /\ SameService /\ ((phase' = "drained") <=> (phase = "drained"))
<1> USE ConnPoolConstants DEF TypeInv, TypeOK, ControlOK, SameLeases, SameService, Holding, Goto, Proc,
        connVars, closeVars, ConnectionState, BorrowerLabels, RebuilderLabels, Owning
<1>1. ASSUME NEW w \in Warmer, WarmCreate(w) \/ WarmAdd(w)
      PROVE  SameLeases /\ SameService /\ phase' = phase
  BY <1>1 DEF WarmCreate, WarmAdd
<1>2. ASSUME NEW c \in Conn, EvaluateAndMark(c) \/ shouldCleanupConnection(c) \/ forceClose(c)
      PROVE  SameLeases /\ SameService /\ phase' = phase
  BY <1>2 DEF EvaluateAndMark, shouldCleanupConnection, forceClose
<1>3. CASE Evict
  BY <1>3 DEF Evict
<1>4. CASE CloseBegin
  BY <1>4 DEF CloseBegin
<1> QED
  BY <1>1, <1>2, <1>3, <1>4

(* An Idle connection that is not Unhealthy is nobody's and in service. *)
LEMMA GrantPromise ==
  ASSUME TypeInv, UseInv, phase # "drained", UNCHANGED <<phase, health>>,
         NEW b \in Borrower, pc[b] \in {"acquire", "add"}, Available(ref[b]),
         state' = [state EXCEPT ![ref[b]] = "Acquired"], UNCHANGED ref, Goto(b, "activate")
  PROVE  PromiseStep
<1> DEFINE c == ref[b]
<1> USE ConnPoolConstants DEF TypeInv, TypeOK, ControlOK, Goto, Holding, Proc
<1>1. c \in Conn /\ state[c] = "Idle" /\ health[c] # "Unhealthy"
  BY DEF Available
<1>2. Leased[b] = NoConn /\ Leased' = [Leased EXCEPT ![b] = c]
  BY DEF Leased
<1>3. SameService
  BY <1>1 DEF SameService, ConnectionState
<1>4. c \notin OutOfService
  BY <1>1 DEF OutOfService
<1>5. \A x \in Borrower : Leased[x] # c
  BY <1>1 DEF UseInv, HeldNotIdle, Holder, Leased
<1>6. c \notin Promise!Lent
  BY <1>5 DEF Promise!Lent
<1>7. OutOfService' = OutOfService
  BY <1>3, SameOutOfService
<1>8. Promise!Grant(b, c)
  BY <1>2, <1>4, <1>6, <1>7 DEF Promise!Grant
<1> QED
  BY <1>1, <1>8 DEF PromiseStep, Promise!Next

LEMMA AcquirePromise ==
  ASSUME TypeInv, UseInv, phase # "drained", NEW b \in Borrower, tryAcquireForTask(b) \/ AddNew(b)
  PROVE  PromiseStep
<1>1. CASE tryAcquireForTask(b)
  <2>1. CASE Available(ref[b])
    BY <1>1, <2>1, GrantPromise DEF tryAcquireForTask, closeVars
  <2>2. CASE ~Available(ref[b])
    <3>1. SameLeases /\ SameService /\ phase' = phase
      BY <1>1, <2>2, ConnPoolConstants DEF tryAcquireForTask, SameLeases, SameService, TypeInv, TypeOK,
         Goto, Holding, Proc, closeVars
    <3> QED
      BY <3>1, StutterPromise
  <2> QED
    BY <2>1, <2>2
<1>2. CASE AddNew(b)
  <2>0. Cardinality(pool) \in Nat /\ MaxConnections \in Nat
    BY ConnPoolConstants, FS_Subset, FS_CardinalityType DEF TypeInv, TypeOK
  <2>1. CASE Cardinality(pool) < MaxConnections
    <3>1. Available(ref[b]) /\ state' = [state EXCEPT ![ref[b]] = "Acquired"] /\ UNCHANGED ref
          /\ Goto(b, "activate") /\ UNCHANGED <<phase, health>> /\ pc[b] = "add"
      BY <1>2, <2>0, <2>1 DEF AddNew, closeVars
    <3> QED
      BY <3>1, GrantPromise
  <2>2. CASE ~(Cardinality(pool) < MaxConnections)
    <3>1. SameLeases /\ SameService /\ phase' = phase
      BY <1>2, <2>0, <2>2, ConnPoolConstants DEF AddNew, SameLeases, SameService, TypeInv, TypeOK,
         Goto, Holding, Proc, closeVars
    <3> QED
      BY <3>1, StutterPromise
  <2> QED
    BY <2>1, <2>2
<1> QED
  BY <1>1, <1>2

LEMMA ReleasePromise ==
  ASSUME TypeInv, phase # "drained", NEW b \in Borrower, Release(b)
  PROVE  PromiseStep
<1> USE ConnPoolConstants DEF TypeInv, TypeOK, ControlOK, Goto, Holding, Proc, Release, closeVars
<1>1. Leased[b] # NoConn /\ Leased' = [Leased EXCEPT ![b] = NoConn]
  BY DEF Leased
<1>2. SameService
  BY DEF SameService, release, ConnectionState
<1>3. OutOfService' = OutOfService
  BY <1>2, SameOutOfService
<1>4. Promise!GiveBack(b)
  BY <1>1, <1>3 DEF Promise!GiveBack
<1> QED
  BY <1>4 DEF PromiseStep, Promise!Next

(* A step after which one connection may be out of service. *)
LEMMA RetirePromise ==
  ASSUME SameLeases, phase # "drained", phase' = phase, NEW c \in Conn,
         OutOfService' = OutOfService \/ OutOfService' = OutOfService \cup {c}
  PROVE  PromiseStep
<1>1. Leased' = Leased
  BY SameLeased
<1>2. CASE OutOfService' = OutOfService
  BY <1>1, <1>2 DEF PromiseStep, Promise!vars
<1>3. CASE OutOfService' = OutOfService \cup {c}
  <2>1. Promise!Retire(c)
    BY <1>1, <1>3 DEF Promise!Retire
  <2> QED
    BY <2>1 DEF PromiseStep, Promise!Next
<1> QED
  BY <1>2, <1>3

LEMMA JudgePromise ==
  ASSUME TypeInv, UseInv, phase # "drained", NEW b \in Borrower, recordHealthCheck(b)
  PROVE  PromiseStep
<1> DEFINE c == ref[b]
<1> USE ConnPoolConstants DEF TypeInv, TypeOK, ControlOK, Goto, Holding, Proc, recordHealthCheck, closeVars
<1>1. c \in Conn /\ SameLeases /\ phase' = phase
  BY DEF SameLeases
<1>2. health[c] # "Unhealthy"
  BY DEF UseInv, HeldNotUnhealthy, Holder
<1>3. \A x \in Conn : state'[x] \in {"Closing", "Closed"} <=> state[x] \in {"Closing", "Closed"}
  BY DEF ConnectionState
<1>4. \A x \in Conn : x # c => health'[x] = health[x]
  OBVIOUS
<1>5. OutOfService' = OutOfService \/ OutOfService' = OutOfService \cup {c}
  BY <1>1, <1>2, <1>3, <1>4 DEF OutOfService
<1> QED
  BY <1>1, <1>5, RetirePromise

LEMMA BeginClosePromise ==
  ASSUME TypeInv, phase # "drained", NEW r \in Rebuilder, beginClose(r)
  PROVE  PromiseStep
<1> DEFINE c == ref[r]
<1> USE ConnPoolConstants DEF TypeInv, TypeOK, ControlOK, Goto, Proc, beginClose, closeVars
<1>1. c \in Conn /\ SameLeases /\ phase' = phase /\ health' = health
  BY DEF SameLeases
<1>2. state'[c] \in {"Closing", "Closed"} /\ \A x \in Conn : x # c => state'[x] = state[x]
  BY <1>1 DEF Transition, CanTransition, ConnectionState
<1>3. OutOfService' = OutOfService \cup {c}
  BY <1>1, <1>2 DEF OutOfService
<1> QED
  BY <1>1, <1>3, RetirePromise

LEMMA ClosePromise ==
  ASSUME TypeInv, phase # "drained", CloseDrain
  PROVE  PromiseStep
<1>1. SameLeases /\ SameService /\ phase' = "drained"
  BY DEF SameLeases, SameService, CloseDrain, release, TypeInv, TypeOK, ConnectionState
<1>2. Leased' = Leased /\ OutOfService' = OutOfService
  BY <1>1, SameLeased, SameOutOfService
<1>3. Promise!ShutDown
  BY <1>1, <1>2 DEF Promise!ShutDown
<1> QED
  BY <1>3 DEF PromiseStep, Promise!Next

LEMMA PromiseOpen ==
  ASSUME TypeInv, UseInv, Next, phase # "drained"
  PROVE  PromiseStep
<1>1. ASSUME NEW b \in Borrower, BorrowerStep(b) PROVE PromiseStep
  <2>1. CASE tryAcquireForTask(b) \/ AddNew(b)
    BY <2>1, AcquirePromise
  <2>2. CASE Release(b)
    BY <2>2, ReleasePromise
  <2>3. CASE recordHealthCheck(b)
    BY <2>3, JudgePromise
  <2> QED
    BY <1>1, <2>1, <2>2, <2>3, BorrowerQuiet, StutterPromise DEF BorrowerStep
<1>2. ASSUME NEW r \in Rebuilder, findConnectionByID(r) \/ RebuildStep(r) PROVE PromiseStep
  <2>1. CASE beginClose(r)
    BY <2>1, BeginClosePromise
  <2> QED
    BY <1>2, <2>1, RebuilderQuiet, StutterPromise DEF RebuildStep
<1>3. ASSUME NEW c \in Conn, safeClose(c) PROVE FALSE
  BY <1>3 DEF UseInv, safeClose
<1>4. CASE CloseDrain
  BY <1>4, ClosePromise
<1> QED
  BY <1>1, <1>2, <1>3, <1>4, OthersQuiet, StutterPromise DEF Next

(* Nothing reopens the pool. *)
LEMMA DrainedForGood ==
  ASSUME TypeInv, Next, phase = "drained"
  PROVE  phase' = "drained"
<1>1. ASSUME NEW b \in Borrower, BorrowerStep(b) PROVE phase' = phase
  BY <1>1 DEF BorrowerStep, GetWithContext, AbandonGet, Lookup, tryAcquireForTask, StartCreate,
     Create, AddNew, activateConnection, acquireUse, BeginExecute, EndExecute, beginHealthCheck,
     defaultHealthCheck, recordHealthCheck, Release, closeVars
<1>2. ASSUME NEW r \in Rebuilder, findConnectionByID(r) \/ RebuildStep(r) PROVE phase' = phase
  BY <1>2 DEF findConnectionByID, RebuildStep, canStartRebuild, beginRebuild, beginClose, DropDriver,
     RemoveOld, completeClose, createReplacementConnection, InsertNew, completeRebuild, closeVars
<1>3. CASE \E w \in Warmer : WarmCreate(w) \/ WarmAdd(w)
  BY <1>3 DEF WarmCreate, WarmAdd, closeVars
<1>4. CASE \E c \in Conn : EvaluateAndMark(c) \/ shouldCleanupConnection(c) \/ forceClose(c)
                           \/ safeClose(c)
  BY <1>4 DEF EvaluateAndMark, shouldCleanupConnection, forceClose, safeClose, closeVars
<1>5. CASE Evict \/ CloseBegin \/ CloseDrain
  BY <1>5 DEF Evict, CloseBegin, CloseDrain
<1> QED
  BY <1>1, <1>2, <1>3, <1>4, <1>5 DEF Next

LEMMA PromiseStepHolds == TypeInv /\ UseInv /\ TypeInv' /\ [Next]_vars => PromiseStep
<1> SUFFICES ASSUME TypeInv, UseInv, TypeInv', [Next]_vars PROVE PromiseStep
  OBVIOUS
<1>1. CASE Next /\ phase # "drained"
  BY <1>1, PromiseOpen
<1>2. CASE Next /\ phase = "drained"
  BY <1>2, DrainedForGood, DrainedPromise
<1>3. CASE UNCHANGED vars
  <2>1. SameLeases /\ SameService /\ phase' = phase
    BY <1>3 DEF vars, connVars, closeVars, SameLeases, SameService
  <2> QED
    BY <2>1, StutterPromise
<1> QED
  BY <1>1, <1>2, <1>3

LEMMA PromiseInit == Init => Promise!Init
<1> SUFFICES ASSUME Init PROVE Promise!Init
  OBVIOUS
<1>1. Leased = [b \in Borrower |-> NoConn]
  BY ConnPoolConstants DEF Init, Leased, Holding, Proc
<1>2. OutOfService = {}
  BY DEF Init, OutOfService
<1> QED
  BY <1>1, <1>2 DEF Init, Promise!Init

(* The pool with its borrowers, rebuild workers, warm-up, cleanup and Close *)
(* implements the promise of Lease: GetWithContext never hands a connection *)
(* out twice, nor one that is Unhealthy, Closing or Closed.                 *)
THEOREM ImplementsLease == Spec => KeepsPromise
<1> QED
  BY PromiseInit, PromiseStepHolds, TypeInit, TypeStep, UseInit, UseStep, PTL
     DEF Spec, KeepsPromise, Promise!Spec, PromiseStep

-----------------------------------------------------------------------------
(***************************************************************************)
(* One rebuild worker per connection.  RebuildOwnership is inductive.      *)
(***************************************************************************)

LEMMA OwnershipInit == Init => RebuildOwnership
<1> SUFFICES ASSUME Init PROVE RebuildOwnership
  OBVIOUS
<1>1. \A r \in Rebuilder : pc[r] = "out"
  BY ConnPoolConstants DEF Init, Proc
<1>2. Owner = {}
  BY <1>1 DEF Owner, Owning
<1> QED
  BY <1>2 DEF Init, RebuildOwnership

(* A borrower. *)
LEMMA BorrowerOwnership ==
  ASSUME TypeInv, RebuildOwnership, NEW b \in Borrower,
         GetWithContext(b) \/ AbandonGet(b) \/ Lookup(b) \/
         tryAcquireForTask(b) \/ StartCreate(b) \/ Create(b) \/ AddNew(b) \/
         activateConnection(b) \/ acquireUse(b) \/ BeginExecute(b) \/
         EndExecute(b) \/ beginHealthCheck(b) \/ defaultHealthCheck(b) \/
         recordHealthCheck(b) \/ Release(b)
  PROVE  RebuildOwnership'
<1> USE ConnPoolConstants DEF TypeInv, TypeOK, ControlOK, RebuildOwnership, Owner, Owning,
        Goto, Proc, Labels, connVars, closeVars, BorrowerLabels, RebuilderLabels, Holding
<1>1. CASE GetWithContext(b)
  BY <1>1 DEF GetWithContext
<1>2. CASE AbandonGet(b)
  BY <1>2 DEF AbandonGet
<1>3. CASE Lookup(b)
  BY <1>3 DEF Lookup
<1>4. CASE tryAcquireForTask(b)
  BY <1>4 DEF tryAcquireForTask
<1>5. CASE StartCreate(b)
  BY <1>5 DEF StartCreate
<1>6. CASE Create(b)
  BY <1>6 DEF Create
<1>7. CASE AddNew(b)
  BY <1>7 DEF AddNew
<1>8. CASE activateConnection(b)
  BY <1>8 DEF activateConnection
<1>9. CASE acquireUse(b)
  BY <1>9 DEF acquireUse
<1>10. CASE BeginExecute(b)
  BY <1>10 DEF BeginExecute
<1>11. CASE EndExecute(b)
  BY <1>11 DEF EndExecute
<1>12. CASE beginHealthCheck(b)
  BY <1>12 DEF beginHealthCheck
<1>13. CASE defaultHealthCheck(b)
  BY <1>13 DEF defaultHealthCheck
<1>14. CASE recordHealthCheck(b)
  BY <1>14 DEF recordHealthCheck
<1>15. CASE Release(b)
  BY <1>15 DEF Release, release
<1> QED
  BY <1>1, <1>2, <1>3, <1>4, <1>5, <1>6, <1>7, <1>8, <1>9, <1>10, <1>11, <1>12, <1>13, <1>14, <1>15

(* A rebuild worker. *)
LEMMA RebuilderOwnership ==
  ASSUME TypeInv, RebuildOwnership, NEW r \in Rebuilder,
         findConnectionByID(r) \/ canStartRebuild(r) \/ beginRebuild(r) \/
         beginClose(r) \/ DropDriver(r) \/ RemoveOld(r) \/ completeClose(r) \/
         createReplacementConnection(r) \/ InsertNew(r) \/ completeRebuild(r)
  PROVE  RebuildOwnership'
<1> USE ConnPoolConstants DEF TypeInv, TypeOK, ControlOK, RebuildOwnership, Owner, Owning,
        Goto, Proc, Labels, connVars, closeVars, BorrowerLabels, RebuilderLabels, Holding
<1>1. CASE findConnectionByID(r)
  BY <1>1 DEF findConnectionByID, getConnectionsForRebuild
<1>2. CASE canStartRebuild(r)
  BY <1>2 DEF canStartRebuild, Startable, sendRebuildEvent
<1>3. CASE beginRebuild(r)
  BY <1>3 DEF beginRebuild
<1>4. CASE beginClose(r)
  BY <1>4 DEF beginClose
<1>5. CASE DropDriver(r)
  BY <1>5 DEF DropDriver
<1>6. CASE RemoveOld(r)
  BY <1>6 DEF RemoveOld
<1>7. CASE completeClose(r)
  BY <1>7 DEF completeClose
<1>8. CASE createReplacementConnection(r)
  BY <1>8 DEF createReplacementConnection
<1>9. CASE InsertNew(r)
  BY <1>9 DEF InsertNew
<1>10. CASE completeRebuild(r)
  BY <1>10 DEF completeRebuild, sendRebuildEvent
<1> QED
  BY <1>1, <1>2, <1>3, <1>4, <1>5, <1>6, <1>7, <1>8, <1>9, <1>10

(* A warm-up goroutine. *)
LEMMA WarmerOwnership ==
  ASSUME TypeInv, RebuildOwnership, NEW w \in Warmer,
         WarmCreate(w) \/ WarmAdd(w)
  PROVE  RebuildOwnership'
<1> USE ConnPoolConstants DEF TypeInv, TypeOK, ControlOK, RebuildOwnership, Owner, Owning,
        Goto, Proc, Labels, connVars, closeVars, BorrowerLabels, RebuilderLabels, Holding
<1>1. CASE WarmCreate(w)
  BY <1>1 DEF WarmCreate
<1>2. CASE WarmAdd(w)
  BY <1>2 DEF WarmAdd
<1> QED
  BY <1>1, <1>2

(* The steps on one connection. *)
LEMMA ConnectionOwnership ==
  ASSUME TypeInv, RebuildOwnership, NEW c \in Conn,
         EvaluateAndMark(c) \/ shouldCleanupConnection(c) \/ forceClose(c) \/
         safeClose(c)
  PROVE  RebuildOwnership'
<1> USE ConnPoolConstants DEF TypeInv, TypeOK, ControlOK, RebuildOwnership, Owner, Owning,
        Goto, Proc, Labels, connVars, closeVars, BorrowerLabels, RebuilderLabels, Holding
<1>1. CASE EvaluateAndMark(c)
  BY <1>1 DEF EvaluateAndMark, checkConnectionState, sendRebuildEvent
<1>2. CASE shouldCleanupConnection(c)
  BY <1>2 DEF shouldCleanupConnection
<1>3. CASE forceClose(c)
  BY <1>3 DEF forceClose
<1>4. CASE safeClose(c)
  BY <1>4 DEF safeClose
<1> QED
  BY <1>1, <1>2, <1>3, <1>4

(* The rest of the cleanup and of Close. *)
LEMMA PoolOwnership ==
  ASSUME TypeInv, RebuildOwnership,
         Evict \/ CloseBegin \/ CloseDrain
  PROVE  RebuildOwnership'
<1> USE ConnPoolConstants DEF TypeInv, TypeOK, ControlOK, RebuildOwnership, Owner, Owning,
        Goto, Proc, Labels, connVars, closeVars, BorrowerLabels, RebuilderLabels, Holding
<1>1. CASE Evict
  BY <1>1 DEF Evict
<1>2. CASE CloseBegin
  BY <1>2 DEF CloseBegin
<1>3. CASE CloseDrain
  BY <1>3 DEF CloseDrain, release
<1> QED
  BY <1>1, <1>2, <1>3

LEMMA OwnershipStep == TypeInv /\ RebuildOwnership /\ [Next]_vars => RebuildOwnership'
<1> SUFFICES ASSUME TypeInv, RebuildOwnership, [Next]_vars PROVE RebuildOwnership'
  OBVIOUS
<1>1. ASSUME NEW b \in Borrower, BorrowerStep(b) PROVE RebuildOwnership'
  BY <1>1, BorrowerOwnership DEF BorrowerStep
<1>2. ASSUME NEW r \in Rebuilder, findConnectionByID(r) \/ RebuildStep(r) PROVE RebuildOwnership'
  BY <1>2, RebuilderOwnership DEF RebuildStep
<1>3. ASSUME NEW w \in Warmer, WarmCreate(w) \/ WarmAdd(w) PROVE RebuildOwnership'
  BY <1>3, WarmerOwnership
<1>4. ASSUME NEW c \in Conn,
             EvaluateAndMark(c) \/ shouldCleanupConnection(c) \/ forceClose(c) \/ safeClose(c)
      PROVE  RebuildOwnership'
  BY <1>4, ConnectionOwnership
<1>5. CASE Evict \/ CloseBegin \/ CloseDrain
  BY <1>5, PoolOwnership
<1>6. CASE UNCHANGED vars
  BY <1>6 DEF RebuildOwnership, Owner, vars, connVars, closeVars
<1> QED
  BY <1>1, <1>2, <1>3, <1>4, <1>5, <1>6 DEF Next

(* However many workers race for a marked connection, at most one rebuilds *)
(* it (beginRebuild), and its flag is set exactly as long as that worker   *)
(* is at it (completeRebuild runs on every exit).                          *)
THEOREM OneRebuildPerConnection == Spec => []RebuildOwnership
BY TypeInit, TypeStep, OwnershipInit, OwnershipStep, PTL DEF Spec

=============================================================================
