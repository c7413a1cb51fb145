----------------------- MODULE ConnPoolSessionProofs -----------------------
(***************************************************************************)
(* Theorems about the sessions of ConnPool's connections: which drivers    *)
(* are open, who answers for a connection that is busy or being closed,    *)
(* and what can bring the process down.                                    *)
(***************************************************************************)
EXTENDS ConnPoolProofs

-----------------------------------------------------------------------------
(***************************************************************************)
(* A connection under construction is known to its maker only.  Everything *)
(* below rests on this: what a maker inserts or throws away is nobody      *)
(* else's.                                                                 *)
(***************************************************************************)

(* The connection a borrower, a warm-up goroutine or a rebuild worker has  *)
(* created and not yet inserted.                                           *)
Made(p) ==
  IF pc[p] \in {"add", "warmadd"} THEN ref[p]
  ELSE IF pc[p] = "insert" THEN repl[p] ELSE NoConn

(* Where a goroutine does not point to a connection of the pool. *)
Apart == {"out", "scan", "create", "add", "warm", "warmadd"}

Unseen(c) ==
  /\ c \notin pool /\ c \notin evicted /\ c \notin toClose
  /\ \A p \in Proc : pc[p] \notin Apart => ref[p] # c
  /\ \A b \in Borrower : c \notin cand[b]
  /\ state[c] = "Idle"

UnmadeUnseen == \A c \in Conn : driver[c] = "none" => Unseen(c) /\ \A p \in Proc : Made(p) # c
MadeUnseen == \A p \in Proc : Made(p) \in Conn => Unseen(Made(p)) /\ driver[Made(p)] = "live"
MadeOnce == \A p, q \in Proc : Made(p) = Made(q) /\ Made(p) \in Conn => p = q

MakerInv == UnmadeUnseen /\ MadeUnseen /\ MadeOnce

LEMMA MakerInit == Init => MakerInv
<1> SUFFICES ASSUME Init PROVE MakerInv
  OBVIOUS
<1>1. \A p \in Proc : pc[p] \in {"warm", "out"} /\ Made(p) = NoConn
  BY DEF Init, Made
<1>2. \A c \in Conn : Unseen(c)
  BY <1>1 DEF Init, Unseen, Apart
<1> QED
  BY <1>1, <1>2, ConnPoolConstants DEF MakerInv, UnmadeUnseen, MadeUnseen, MadeOnce, Init

(* A step that lets nobody see or make a connection. *)
UnseenStays == \A c \in Conn : Unseen(c) => Unseen(c)' /\ driver'[c] = driver[c]
MadeStays == \A p \in Proc : Made(p)' = Made(p)
NoneStays == \A c \in Conn : driver'[c] = "none" => driver[c] = "none"
MakerQuiet == UnseenStays /\ MadeStays /\ NoneStays

LEMMA QuietKeepsMaker ==
  ASSUME MakerInv, MakerQuiet
  PROVE  MakerInv'
<1> USE DEF MakerInv, MakerQuiet, UnseenStays, MadeStays, NoneStays
<1>1. UnmadeUnseen'
  BY DEF UnmadeUnseen
<1>2. MadeUnseen'
  BY DEF MadeUnseen
<1>3. MadeOnce'
  BY DEF MadeOnce
<1> QED
  BY <1>1, <1>2, <1>3

(* A borrower, but for the two steps that make and insert. *)
LEMMA BorrowerMaker ==
  ASSUME TypeInv, NEW b \in Borrower,
         GetWithContext(b) \/ AbandonGet(b) \/ Lookup(b) \/
         tryAcquireForTask(b) \/ StartCreate(b) \/
         activateConnection(b) \/ acquireUse(b) \/ BeginExecute(b) \/ EndExecute(b) \/
         beginHealthCheck(b) \/ defaultHealthCheck(b) \/ recordHealthCheck(b) \/ Release(b)
  PROVE  MakerQuiet
<1> USE ConnPoolConstants DEF TypeInv, TypeOK, ControlOK, MakerQuiet, UnseenStays, MadeStays,
        NoneStays, Unseen, Made, Apart, Goto, Proc, connVars, closeVars, BorrowerLabels, Holding
<1>1. CASE GetWithContext(b)
  BY <1>1 DEF GetWithContext
<1>2. CASE AbandonGet(b)
  BY <1>2 DEF AbandonGet
<1>3. CASE Lookup(b)
  BY <1>3 DEF Lookup
<1>4. CASE tryAcquireForTask(b)
  BY <1>4 DEF tryAcquireForTask
<1>5. CASE StartCreate(b)
  BY <1>5 DEF StartCreate
<1>6. CASE activateConnection(b)
  BY <1>6 DEF activateConnection
<1>7. CASE acquireUse(b)
  BY <1>7 DEF acquireUse
<1>8. CASE BeginExecute(b)
  BY <1>8 DEF BeginExecute
<1>9. CASE EndExecute(b)
  BY <1>9 DEF EndExecute
<1>10. CASE beginHealthCheck(b)
  BY <1>10 DEF beginHealthCheck
<1>11. CASE defaultHealthCheck(b)
  BY <1>11 DEF defaultHealthCheck
<1>12. CASE recordHealthCheck(b)
  BY <1>12 DEF recordHealthCheck
<1>13. CASE Release(b)
  BY <1>13 DEF Release
<1> QED
  BY <1>1, <1>2, <1>3, <1>4, <1>5, <1>6, <1>7, <1>8, <1>9, <1>10, <1>11, <1>12, <1>13

(* A rebuild worker, but for the two steps that make and insert. *)
LEMMA RebuilderMaker ==
  ASSUME TypeInv, NEW r \in Rebuilder,
         findConnectionByID(r) \/ canStartRebuild(r) \/ beginRebuild(r) \/
         beginClose(r) \/ DropDriver(r) \/ RemoveOld(r) \/ completeClose(r) \/ completeRebuild(r)
  PROVE  MakerQuiet
<1> USE ConnPoolConstants DEF TypeInv, TypeOK, ControlOK, MakerQuiet, UnseenStays, MadeStays,
        NoneStays, Unseen, Made, Apart, Goto, Proc, connVars, closeVars, RebuilderLabels, Owning
<1>1. CASE findConnectionByID(r)
  BY <1>1 DEF findConnectionByID, getConnectionsForRebuild
<1>2. CASE canStartRebuild(r)
  BY <1>2 DEF canStartRebuild
<1>3. CASE beginRebuild(r)
  BY <1>3 DEF beginRebuild
<1>4. CASE beginClose(r)
  BY <1>4 DEF beginClose
<1>5. CASE DropDriver(r)
  BY <1>5 DEF DropDriver
<1>6. CASE RemoveOld(r)
  BY <1>6 DEF RemoveOld
<1>7. CASE completeClose(r)
  BY <1>7 DEF completeClose
<1>8. CASE completeRebuild(r)
  BY <1>8 DEF completeRebuild
<1> QED
  BY <1>1, <1>2, <1>3, <1>4, <1>5, <1>6, <1>7, <1>8

(* The steps on one connection, the rest of the cleanup and of Close. *)
LEMMA OthersMaker ==
  ASSUME TypeInv,
         \/ \E c \in Conn : EvaluateAndMark(c) \/ shouldCleanupConnection(c) \/ forceClose(c)
                            \/ safeClose(c)
         \/ Evict \/ CloseBegin \/ CloseDrain
  PROVE  MakerQuiet
<1> USE ConnPoolConstants DEF TypeInv, TypeOK, ControlOK, MakerQuiet, UnseenStays, MadeStays,
        NoneStays, Unseen, Made, Apart, Goto, Proc, connVars, closeVars
<1>1. ASSUME NEW c \in Conn, EvaluateAndMark(c) PROVE MakerQuiet
  BY <1>1 DEF EvaluateAndMark
<1>2. ASSUME NEW c \in Conn, shouldCleanupConnection(c) PROVE MakerQuiet
  BY <1>2 DEF shouldCleanupConnection
<1>3. ASSUME NEW c \in Conn, forceClose(c) PROVE MakerQuiet
  BY <1>3 DEF forceClose
<1>4. ASSUME NEW c \in Conn, safeClose(c) PROVE MakerQuiet
  BY <1>4 DEF safeClose
<1>5. CASE Evict
  BY <1>5 DEF Evict
<1>6. CASE CloseBegin
  BY <1>6 DEF CloseBegin
<1>7. CASE CloseDrain
  BY <1>7 DEF CloseDrain, release
<1> QED
  BY <1>1, <1>2, <1>3, <1>4, <1>5, <1>6, <1>7

(* The factory answers p with a new connection. *)
Makes(p, c) ==
  /\ driver[c] = "none"
  /\ driver' = [driver EXCEPT ![c] = "live"]
  /\ \A x \in Conn : Unseen(x) => Unseen(x)'
  /\ \A q \in Proc : Made(q)' = IF q = p THEN c ELSE Made(q)

(* p puts its connection into the map, or throws it away. *)
Publishes(p, c) ==
  /\ c = Made(p)
  /\ \A x \in Conn : x # c /\ Unseen(x) => Unseen(x)'
  /\ \A x \in Conn : x # c => driver'[x] = driver[x]
  /\ driver'[c] \in {"live", "closed"}
  /\ \A q \in Proc : Made(q)' = IF q = p THEN NoConn ELSE Made(q)

LEMMA MakesKeepsMaker ==
  ASSUME TypeInv, MakerInv, NEW p \in Proc, NEW c \in Conn, Makes(p, c)
  PROVE  MakerInv'
<1> USE ConnPoolConstants DEF MakerInv, Makes, TypeInv, TypeOK
<1>1. UnmadeUnseen'
  BY DEF UnmadeUnseen
<1>2. MadeUnseen'
  BY DEF MadeUnseen, UnmadeUnseen
<1>3. MadeOnce'
  BY DEF MadeOnce, UnmadeUnseen
<1> QED
  BY <1>1, <1>2, <1>3

LEMMA PublishesKeepsMaker ==
  ASSUME TypeInv, MakerInv, NEW p \in Proc, NEW c \in Conn, Publishes(p, c)
  PROVE  MakerInv'
<1> USE ConnPoolConstants DEF MakerInv, Publishes, TypeInv, TypeOK
<1>1. UnmadeUnseen'
  BY DEF UnmadeUnseen
<1>2. MadeUnseen'
  BY DEF MadeUnseen, MadeOnce
<1>3. MadeOnce'
  BY DEF MadeOnce
<1> QED
  BY <1>1, <1>2, <1>3

(* Create, createReplacementConnection and WarmCreate make a connection, or *)
(* fail.                                                                    *)
LEMMA CreationMakes ==
  ASSUME TypeInv, NEW p \in Proc,
         \/ p \in Borrower /\ Create(p)
         \/ p \in Rebuilder /\ createReplacementConnection(p)
         \/ p \in Warmer /\ WarmCreate(p)
  PROVE  MakerQuiet \/ \E c \in Conn : Makes(p, c)
<1> USE ConnPoolConstants DEF TypeInv, TypeOK, ControlOK, Fresh, Makes, MakerQuiet, UnseenStays,
        MadeStays, NoneStays, Unseen, Made, Apart, Goto, Proc, connVars, closeVars
<1>1. CASE p \in Borrower /\ Create(p)
  <2>1. ASSUME NEW c \in Fresh, driver' = [driver EXCEPT ![c] = "live"],
               ref' = [ref EXCEPT ![p] = c], Goto(p, "add")
        PROVE  Makes(p, c)
    BY <1>1, <2>1 DEF Create
  <2>2. CASE Goto(p, "out") /\ UNCHANGED <<driver, ref>>
    BY <1>1, <2>2 DEF Create
  <2> HIDE DEF Makes, MakerQuiet
  <2> QED
    BY <1>1, <2>1, <2>2 DEF Create
<1>2. CASE p \in Rebuilder /\ createReplacementConnection(p)
  <2>1. ASSUME NEW c \in Fresh, driver' = [driver EXCEPT ![c] = "live"],
               repl' = [repl EXCEPT ![p] = c], Goto(p, "insert")
        PROVE  Makes(p, c)
    BY <1>2, <2>1 DEF createReplacementConnection
  <2>2. CASE Goto(p, "failed") /\ UNCHANGED <<driver, repl>>
    BY <1>2, <2>2 DEF createReplacementConnection
  <2> HIDE DEF Makes, MakerQuiet
  <2> QED
    BY <1>2, <2>1, <2>2 DEF createReplacementConnection
<1>3. CASE p \in Warmer /\ WarmCreate(p)
  <2>1. ASSUME NEW c \in Fresh, driver' = [driver EXCEPT ![c] = "live"],
               ref' = [ref EXCEPT ![p] = c], Goto(p, "warmadd")
        PROVE  Makes(p, c)
    BY <1>3, <2>1 DEF WarmCreate
  <2>2. CASE Goto(p, "out") /\ UNCHANGED <<driver, ref>>
    BY <1>3, <2>2 DEF WarmCreate
  <2> HIDE DEF Makes, MakerQuiet
  <2> QED
    BY <1>3, <2>1, <2>2 DEF WarmCreate
<1> QED
  BY <1>1, <1>2, <1>3

(* AddNew, InsertNew and WarmAdd publish. *)
LEMMA InsertionPublishes ==
  ASSUME TypeInv, MakerInv, NEW p \in Proc,
         \/ p \in Borrower /\ AddNew(p)
         \/ p \in Rebuilder /\ InsertNew(p)
         \/ p \in Warmer /\ WarmAdd(p)
  PROVE  Made(p) \in Conn /\ Publishes(p, Made(p))
<1> USE ConnPoolConstants DEF TypeInv, TypeOK, ControlOK, Publishes, Unseen, Made, Apart, Goto,
        Proc, connVars, closeVars
<1>1. CASE p \in Borrower /\ AddNew(p)
  <2>1. Made(p) = ref[p] /\ ref[p] \in Conn
    BY <1>1 DEF AddNew
  <2>2. driver[ref[p]] = "live"
    BY <2>1 DEF MakerInv, MadeUnseen
  <2> QED
    BY <1>1, <2>1, <2>2 DEF AddNew
<1>2. CASE p \in Rebuilder /\ InsertNew(p)
  <2>1. Made(p) = repl[p] /\ repl[p] \in Conn
    BY <1>2 DEF InsertNew
  <2>2. driver[repl[p]] = "live"
    BY <2>1 DEF MakerInv, MadeUnseen
  <2> QED
    BY <1>2, <2>1, <2>2 DEF InsertNew
<1>3. CASE p \in Warmer /\ WarmAdd(p)
  <2>1. Made(p) = ref[p] /\ ref[p] \in Conn
    BY <1>3 DEF WarmAdd
  <2>2. driver[ref[p]] = "live"
    BY <2>1 DEF MakerInv, MadeUnseen
  <2> QED
    BY <1>3, <2>1, <2>2 DEF WarmAdd
<1> QED
  BY <1>1, <1>2, <1>3

LEMMA MakerStep == TypeInv /\ MakerInv /\ [Next]_vars => MakerInv'
<1> SUFFICES ASSUME TypeInv, MakerInv, [Next]_vars PROVE MakerInv'
  OBVIOUS
<1>0. Borrower \cup Rebuilder \cup Warmer \subseteq Proc
  BY DEF Proc
<1>1. ASSUME NEW b \in Borrower, BorrowerStep(b) PROVE MakerInv'
  <2>1. CASE Create(b)
    BY <1>0, <2>1, CreationMakes, QuietKeepsMaker, MakesKeepsMaker
  <2>2. CASE AddNew(b)
    BY <1>0, <2>2, InsertionPublishes, PublishesKeepsMaker
  <2> QED
    BY <1>1, <2>1, <2>2, BorrowerMaker, QuietKeepsMaker DEF BorrowerStep
<1>2. ASSUME NEW r \in Rebuilder, findConnectionByID(r) \/ RebuildStep(r) PROVE MakerInv'
  <2>1. CASE createReplacementConnection(r)
    BY <1>0, <2>1, CreationMakes, QuietKeepsMaker, MakesKeepsMaker
  <2>2. CASE InsertNew(r)
    BY <1>0, <2>2, InsertionPublishes, PublishesKeepsMaker
  <2> QED
    BY <1>2, <2>1, <2>2, RebuilderMaker, QuietKeepsMaker DEF RebuildStep
<1>3. ASSUME NEW w \in Warmer, WarmCreate(w) \/ WarmAdd(w) PROVE MakerInv'
  <2>1. CASE WarmCreate(w)
    BY <1>0, <2>1, CreationMakes, QuietKeepsMaker, MakesKeepsMaker
  <2>2. CASE WarmAdd(w)
    BY <1>0, <2>2, InsertionPublishes, PublishesKeepsMaker
  <2> QED
    BY <1>3, <2>1, <2>2
<1>4. CASE UNCHANGED vars
  <2>1. MakerQuiet
    BY <1>4 DEF vars, connVars, closeVars, MakerQuiet, UnseenStays, MadeStays, NoneStays, Unseen, Made
  <2> QED
    BY <2>1, QuietKeepsMaker
<1> QED
  BY <1>1, <1>2, <1>3, <1>4, OthersMaker, QuietKeepsMaker DEF Next

-----------------------------------------------------------------------------
(***************************************************************************)
(* Tearing down.  What performCoreRebuild has taken to Closing stays       *)
(* Closing or Closed, a driver that is nil stays nil, and only such a      *)
(* connection has one: the order of phases 3.1 and 3.2.                    *)
(***************************************************************************)

Gone == {"Closing", "Closed"}
Torn == Owning \ {"close"}

TornGone == \A r \in Rebuilder : pc[r] \in Torn => state[ref[r]] \in Gone
RemovedNil == \A r \in Rebuilder : pc[r] = "remove" => driver[ref[r]] = "nil"
NilGone == \A c \in Conn : driver[c] = "nil" => state[c] \in Gone
WrappedNil == \A b \in nilWrapped : pc[b] \in Holding /\ driver[ref[b]] = "nil"

TearInv == TornGone /\ RemovedNil /\ NilGone /\ WrappedNil

(* What one step may do to connections that are torn down, and when it may *)
(* end in a panic.                                                         *)
TearStep ==
  /\ \A c \in Conn : state[c] \in Gone => state'[c] \in Gone
  /\ \A c \in Conn : driver[c] = "nil" => driver'[c] = "nil"
  /\ \A c \in Conn : driver'[c] = "nil" =>
       driver[c] = "nil" \/ \E r \in Rebuilder : pc[r] = "drop" /\ ref[r] = c
  /\ \A r \in Rebuilder : pc'[r] \in Torn =>
       ref'[r] = ref[r] /\ (pc[r] \in Torn \/ state'[ref[r]] \in Gone)
  /\ \A r \in Rebuilder : pc'[r] = "remove" => pc[r] = "remove" \/ driver'[ref[r]] = "nil"
  /\ \A b \in nilWrapped' : /\ pc'[b] \in Holding /\ ref'[b] = ref[b]
                            /\ b \in nilWrapped \/ driver[ref[b]] = "nil"
  /\ crashed' => \/ shuttingDown'
                 \/ \E b \in Borrower : /\ pc'[b] \in Holding /\ ref'[b] = ref[b]
                                        /\ driver[ref[b]] = "nil"

(* A borrower. *)
LEMMA BorrowerTear ==
  ASSUME TypeInv, MakerInv, WrappedNil, ~crashed, NEW b \in Borrower,
         GetWithContext(b) \/ AbandonGet(b) \/ Lookup(b) \/ tryAcquireForTask(b) \/
         StartCreate(b) \/ Create(b) \/ AddNew(b) \/ activateConnection(b) \/
         acquireUse(b) \/ BeginExecute(b) \/ EndExecute(b) \/
         beginHealthCheck(b) \/ defaultHealthCheck(b) \/ recordHealthCheck(b) \/
         Release(b)
  PROVE  TearStep
<1> USE ConnPoolConstants DEF TypeInv, TypeOK, ControlOK, TearStep, WrappedNil, Gone, Torn, Goto,
        Proc, connVars, closeVars, shuttingDown, ConnectionState, BorrowerLabels, RebuilderLabels,
        Holding, Owning
<1>1. CASE GetWithContext(b)
  BY <1>1 DEF GetWithContext
<1>2. CASE AbandonGet(b)
  BY <1>2 DEF AbandonGet
<1>3. CASE Lookup(b)
  BY <1>3 DEF Lookup
<1>4. CASE tryAcquireForTask(b)
  BY <1>4 DEF tryAcquireForTask, Available
<1>5. CASE StartCreate(b)
  BY <1>5 DEF StartCreate
<1>6. CASE Create(b)
  BY <1>6 DEF Create, Fresh
<1>7. CASE AddNew(b)
  BY <1>7 DEF AddNew, Available, MakerInv, MadeUnseen, Made
<1>8. CASE activateConnection(b)
  BY <1>8 DEF activateConnection
<1>9. CASE acquireUse(b)
  BY <1>9 DEF acquireUse
<1>10. CASE BeginExecute(b)
  BY <1>10 DEF BeginExecute
<1>11. CASE EndExecute(b)
  BY <1>11 DEF EndExecute, Transition, CanTransition
<1>12. CASE beginHealthCheck(b)
  BY <1>12 DEF beginHealthCheck
<1>13. CASE defaultHealthCheck(b)
  BY <1>13 DEF defaultHealthCheck
<1>14. CASE recordHealthCheck(b)
  BY <1>14 DEF recordHealthCheck
<1>15. CASE Release(b)
  BY <1>15 DEF Release, release
<1> QED
  BY <1>1, <1>2, <1>3, <1>4, <1>5, <1>6, <1>7, <1>8, <1>9, <1>10, <1>11, <1>12, <1>13, <1>14, <1>15

(* A rebuild worker. *)
LEMMA RebuilderTear ==
  ASSUME TypeInv, MakerInv, WrappedNil, ~crashed, NEW r \in Rebuilder,
         findConnectionByID(r) \/ canStartRebuild(r) \/ beginRebuild(r) \/
         beginClose(r) \/ DropDriver(r) \/ RemoveOld(r) \/ completeClose(r) \/
         createReplacementConnection(r) \/ InsertNew(r) \/ completeRebuild(r)
  PROVE  TearStep
<1> USE ConnPoolConstants DEF TypeInv, TypeOK, ControlOK, TearStep, WrappedNil, Gone, Torn, Goto,
        Proc, connVars, closeVars, shuttingDown, ConnectionState, BorrowerLabels, RebuilderLabels,
        Holding, Owning
<1>1. CASE findConnectionByID(r)
  BY <1>1 DEF findConnectionByID, getConnectionsForRebuild
<1>2. CASE canStartRebuild(r)
  BY <1>2 DEF canStartRebuild, sendRebuildEvent
<1>3. CASE beginRebuild(r)
  BY <1>3 DEF beginRebuild
<1>4. CASE beginClose(r)
  BY <1>4 DEF beginClose, Transition, CanTransition
<1>5. CASE DropDriver(r)
  BY <1>5 DEF DropDriver
<1>6. CASE RemoveOld(r)
  BY <1>6 DEF RemoveOld
<1>7. CASE completeClose(r)
  BY <1>7 DEF completeClose
<1>8. CASE createReplacementConnection(r)
  BY <1>8 DEF createReplacementConnection, Fresh
<1>9. CASE InsertNew(r)
  BY <1>9 DEF InsertNew, MakerInv, MadeUnseen, Made
<1>10. CASE completeRebuild(r)
  BY <1>10 DEF completeRebuild, sendRebuildEvent
<1> QED
  BY <1>1, <1>2, <1>3, <1>4, <1>5, <1>6, <1>7, <1>8, <1>9, <1>10

(* A warm-up goroutine. *)
LEMMA WarmerTear ==
  ASSUME TypeInv, MakerInv, WrappedNil, ~crashed, NEW w \in Warmer,
         WarmCreate(w) \/ WarmAdd(w)
  PROVE  TearStep
<1> USE ConnPoolConstants DEF TypeInv, TypeOK, ControlOK, TearStep, WrappedNil, Gone, Torn, Goto,
        Proc, connVars, closeVars, shuttingDown, ConnectionState, BorrowerLabels, RebuilderLabels,
        Holding, Owning
<1>1. CASE WarmCreate(w)
  BY <1>1 DEF WarmCreate, Fresh
<1>2. CASE WarmAdd(w)
  BY <1>2 DEF WarmAdd, MakerInv, MadeUnseen, Made
<1> QED
  BY <1>1, <1>2

(* The steps on one connection. *)
LEMMA ConnectionTear ==
  ASSUME TypeInv, MakerInv, WrappedNil, ~crashed, NEW c \in Conn,
         EvaluateAndMark(c) \/ shouldCleanupConnection(c) \/ forceClose(c) \/
         safeClose(c)
  PROVE  TearStep
<1> USE ConnPoolConstants DEF TypeInv, TypeOK, ControlOK, TearStep, WrappedNil, Gone, Torn, Goto,
        Proc, connVars, closeVars, shuttingDown, ConnectionState, BorrowerLabels, RebuilderLabels,
        Holding, Owning
<1>1. CASE EvaluateAndMark(c)
  BY <1>1 DEF EvaluateAndMark, sendRebuildEvent
<1>2. CASE shouldCleanupConnection(c)
  BY <1>2 DEF shouldCleanupConnection
<1>3. CASE forceClose(c)
  BY <1>3 DEF forceClose
<1>4. CASE safeClose(c)
  BY <1>4 DEF safeClose
<1> QED
  BY <1>1, <1>2, <1>3, <1>4

(* The rest of the cleanup and of Close. *)
LEMMA PoolTear ==
  ASSUME TypeInv, MakerInv, WrappedNil, ~crashed,
         Evict \/ CloseBegin \/ CloseDrain
  PROVE  TearStep
<1> USE ConnPoolConstants DEF TypeInv, TypeOK, ControlOK, TearStep, WrappedNil, Gone, Torn, Goto,
        Proc, connVars, closeVars, shuttingDown, ConnectionState, BorrowerLabels, RebuilderLabels,
        Holding, Owning
<1>1. CASE Evict
  BY <1>1 DEF Evict
<1>2. CASE CloseBegin
  BY <1>2 DEF CloseBegin
<1>3. CASE CloseDrain
  BY <1>3 DEF CloseDrain, release
<1> QED
  BY <1>1, <1>2, <1>3

LEMMA TearSteps ==
  ASSUME TypeInv, MakerInv, WrappedNil, Next
  PROVE  TearStep
<1>0. ~crashed
  BY DEF Next
<1>1. ASSUME NEW b \in Borrower, BorrowerStep(b) PROVE TearStep
  BY <1>0, <1>1, BorrowerTear DEF BorrowerStep
<1>2. ASSUME NEW r \in Rebuilder, findConnectionByID(r) \/ RebuildStep(r) PROVE TearStep
  BY <1>0, <1>2, RebuilderTear DEF RebuildStep
<1>3. ASSUME NEW w \in Warmer, WarmCreate(w) \/ WarmAdd(w) PROVE TearStep
  BY <1>0, <1>3, WarmerTear
<1>4. ASSUME NEW c \in Conn,
             EvaluateAndMark(c) \/ shouldCleanupConnection(c) \/ forceClose(c) \/ safeClose(c)
      PROVE  TearStep
  BY <1>0, <1>4, ConnectionTear
<1> QED
  BY <1>0, <1>1, <1>2, <1>3, <1>4, PoolTear DEF Next

LEMMA TearInit == Init => TearInv
<1> SUFFICES ASSUME Init PROVE TearInv
  OBVIOUS
<1>1. \A r \in Rebuilder : pc[r] = "out"
  BY ConnPoolConstants DEF Init, Proc
<1> QED
  BY <1>1 DEF TearInv, TornGone, RemovedNil, NilGone, WrappedNil, Torn, Owning, Init

LEMMA TearStepKeeps ==
  ASSUME TypeInv, TearInv, TearStep, TypeInv'
  PROVE  TearInv'
<1> USE DEF TearInv, TearStep, TypeInv, TypeOK, ControlOK, Torn, Owning
<1>1. TornGone'
  BY DEF TornGone
<1>2. RemovedNil'
  BY DEF RemovedNil
<1>3. NilGone'
  BY DEF NilGone, TornGone
<1>4. WrappedNil'
  BY DEF WrappedNil, Holding
<1> QED
  BY <1>1, <1>2, <1>3, <1>4

LEMMA TearKept == TypeInv /\ MakerInv /\ TearInv /\ TypeInv' /\ [Next]_vars => TearInv'
<1> SUFFICES ASSUME TypeInv, MakerInv, TearInv, TypeInv', [Next]_vars PROVE TearInv'
  OBVIOUS
<1>1. CASE Next
  BY <1>1, TearSteps, TearStepKeeps DEF TearInv
<1>2. CASE UNCHANGED vars
  BY <1>2 DEF TearInv, TornGone, RemovedNil, NilGone, WrappedNil, vars, connVars, closeVars
<1> QED
  BY <1>1, <1>2

(* Where a panic of the pool's own code comes from. *)
CrashSource == crashed => shuttingDown \/ \E b \in Holder : driver[ref[b]] = "nil"

LEMMA CrashStep == TypeInv /\ MakerInv /\ TearInv /\ CrashSource /\ [Next]_vars => CrashSource'
<1> SUFFICES ASSUME TypeInv, MakerInv, TearInv, CrashSource, [Next]_vars PROVE CrashSource'
  OBVIOUS
<1>1. CASE Next
  <2>1. TearStep
    BY <1>1, TearSteps DEF TearInv
  <2>2. ASSUME NEW b \in Borrower, pc'[b] \in Holding, ref'[b] = ref[b], driver[ref[b]] = "nil"
        PROVE  b \in Holder' /\ driver'[ref'[b]] = "nil"
    <3>1. ref[b] \in Conn
      BY <2>2, TypeStep DEF TypeInv, TypeOK, ControlOK
    <3> QED
      BY <2>1, <2>2, <3>1 DEF TearStep, Holder
  <2> QED
    BY <2>1, <2>2 DEF TearStep, CrashSource
<1>2. CASE UNCHANGED vars
  BY <1>2 DEF CrashSource, Holder, shuttingDown, vars, connVars, closeVars
<1> QED
  BY <1>1, <1>2

(* A borrower meets a nil driver only in a connection whose state says     *)
(* Closing or Closed, however rebuilds, evictions, checks and Close        *)
(* interleave (beginClose, then driver = nil, in performCoreRebuild), and  *)
(* the pool's own code panics there or in sendEvent after Close only.      *)
THEOREM NilIsAnnounced == Spec => []NilDriverAnnounced
<1>1. Init => CrashSource
  BY DEF Init, CrashSource
<1>2. TypeInv /\ TearInv /\ CrashSource => NilDriverAnnounced
  <2> SUFFICES ASSUME TypeInv, TearInv, NEW b \in Holder,
                      b \in nilWrapped \/ driver[ref[b]] = "nil"
               PROVE  state[ref[b]] \in {"Closing", "Closed"}
    BY DEF NilDriverAnnounced, CrashSource
  <2>1. b \in Borrower /\ ref[b] \in Conn
    BY DEF Holder, TypeInv, TypeOK, ControlOK
  <2>2. driver[ref[b]] = "nil"
    BY DEF TearInv, WrappedNil
  <2> QED
    BY <2>1, <2>2 DEF TearInv, NilGone, Gone
<1> QED
  BY <1>1, <1>2, TypeInit, TypeStep, MakerInit, MakerStep, TearInit, TearKept, CrashStep, PTL DEF Spec

-----------------------------------------------------------------------------
(***************************************************************************)
(* Sessions.  The map, the connections waiting for forceClose and those    *)
(* waiting for safeClose are disjoint, so closing a driver never touches   *)
(* the map; and while Close has not emptied the map, an open driver is in  *)
(* the map, waits to be closed, or is with its maker.                      *)
(***************************************************************************)

Disjoint == \A c \in pool : c \notin evicted /\ c \notin toClose
LiveKept ==
  phase # "drained" =>
    \A c \in Conn : driver[c] = "live" => \/ c \in pool \/ c \in evicted
                                          \/ \E p \in Proc : Made(p) = c

SessionInv == Disjoint /\ PoolDriversLive /\ LiveKept

(* A borrower. *)
LEMMA BorrowerSession ==
  ASSUME TypeInv, MakerInv, TearInv, UseInv, SessionInv, NEW b \in Borrower,
         GetWithContext(b) \/ AbandonGet(b) \/ Lookup(b) \/ tryAcquireForTask(b) \/
         StartCreate(b) \/ Create(b) \/ AddNew(b) \/ activateConnection(b) \/
         acquireUse(b) \/ BeginExecute(b) \/ EndExecute(b) \/
         beginHealthCheck(b) \/ defaultHealthCheck(b) \/ recordHealthCheck(b) \/
         Release(b)
  PROVE  SessionInv'
<1> USE ConnPoolConstants DEF TypeInv, TypeOK, ControlOK, SessionInv, Disjoint, PoolDriversLive,
        LiveKept, Owner, Made, Unseen, UseInv, TearInv, RemovedNil, Goto, Proc, connVars,
        closeVars, shuttingDown, BorrowerLabels, RebuilderLabels, Holding, Owning
<1>1. CASE GetWithContext(b)
  BY <1>1 DEF GetWithContext
<1>2. CASE AbandonGet(b)
  BY <1>2 DEF AbandonGet
<1>3. CASE Lookup(b)
  BY <1>3 DEF Lookup
<1>4. CASE tryAcquireForTask(b)
  BY <1>4 DEF tryAcquireForTask, Available
<1>5. CASE StartCreate(b)
  BY <1>5 DEF StartCreate
<1>6. CASE Create(b)
  BY <1>6 DEF Create, Fresh
<1>7. CASE AddNew(b)
  BY <1>7 DEF AddNew, Available, MakerInv, MadeUnseen, Made
<1>8. CASE activateConnection(b)
  BY <1>8 DEF activateConnection
<1>9. CASE acquireUse(b)
  BY <1>9 DEF acquireUse
<1>10. CASE BeginExecute(b)
  BY <1>10 DEF BeginExecute
<1>11. CASE EndExecute(b)
  BY <1>11 DEF EndExecute, Transition, CanTransition
<1>12. CASE beginHealthCheck(b)
  BY <1>12 DEF beginHealthCheck
<1>13. CASE defaultHealthCheck(b)
  BY <1>13 DEF defaultHealthCheck
<1>14. CASE recordHealthCheck(b)
  BY <1>14 DEF recordHealthCheck
<1>15. CASE Release(b)
  BY <1>15 DEF Release, release
<1> QED
  BY <1>1, <1>2, <1>3, <1>4, <1>5, <1>6, <1>7, <1>8, <1>9, <1>10, <1>11, <1>12, <1>13, <1>14, <1>15

(* A rebuild worker. *)
LEMMA RebuilderSession ==
  ASSUME TypeInv, MakerInv, TearInv, UseInv, SessionInv, NEW r \in Rebuilder,
         findConnectionByID(r) \/ canStartRebuild(r) \/ beginRebuild(r) \/
         beginClose(r) \/ DropDriver(r) \/ RemoveOld(r) \/ completeClose(r) \/
         createReplacementConnection(r) \/ InsertNew(r) \/ completeRebuild(r)
  PROVE  SessionInv'
<1> USE ConnPoolConstants DEF TypeInv, TypeOK, ControlOK, SessionInv, Disjoint, PoolDriversLive,
        LiveKept, Owner, Made, Unseen, UseInv, TearInv, RemovedNil, Goto, Proc, connVars,
        closeVars, shuttingDown, BorrowerLabels, RebuilderLabels, Holding, Owning
<1>1. CASE findConnectionByID(r)
  BY <1>1 DEF findConnectionByID, getConnectionsForRebuild
<1>2. CASE canStartRebuild(r)
  BY <1>2 DEF canStartRebuild, sendRebuildEvent
<1>3. CASE beginRebuild(r)
  BY <1>3 DEF beginRebuild
<1>4. CASE beginClose(r)
  BY <1>4 DEF beginClose, Transition, CanTransition
<1>5. CASE DropDriver(r)
  BY <1>5 DEF DropDriver
<1>6. CASE RemoveOld(r)
  BY <1>6 DEF RemoveOld
<1>7. CASE completeClose(r)
  BY <1>7 DEF completeClose
<1>8. CASE createReplacementConnection(r)
  BY <1>8 DEF createReplacementConnection, Fresh
<1>9. CASE InsertNew(r)
  BY <1>9 DEF InsertNew, MakerInv, MadeUnseen, Made
<1>10. CASE completeRebuild(r)
  BY <1>10 DEF completeRebuild, sendRebuildEvent
<1> QED
  BY <1>1, <1>2, <1>3, <1>4, <1>5, <1>6, <1>7, <1>8, <1>9, <1>10

(* A warm-up goroutine. *)
LEMMA WarmerSession ==
  ASSUME TypeInv, MakerInv, TearInv, UseInv, SessionInv, NEW w \in Warmer,
         WarmCreate(w) \/ WarmAdd(w)
  PROVE  SessionInv'
<1> USE ConnPoolConstants DEF TypeInv, TypeOK, ControlOK, SessionInv, Disjoint, PoolDriversLive,
        LiveKept, Owner, Made, Unseen, UseInv, TearInv, RemovedNil, Goto, Proc, connVars,
        closeVars, shuttingDown, BorrowerLabels, RebuilderLabels, Holding, Owning
<1>1. CASE WarmCreate(w)
  BY <1>1 DEF WarmCreate, Fresh
<1>2. CASE WarmAdd(w)
  BY <1>2 DEF WarmAdd, MakerInv, MadeUnseen, Made
<1> QED
  BY <1>1, <1>2

(* The steps on one connection. *)
LEMMA ConnectionSession ==
  ASSUME TypeInv, MakerInv, TearInv, UseInv, SessionInv, NEW c \in Conn,
         EvaluateAndMark(c) \/ shouldCleanupConnection(c) \/ forceClose(c) \/
         safeClose(c)
  PROVE  SessionInv'
<1> USE ConnPoolConstants DEF TypeInv, TypeOK, ControlOK, SessionInv, Disjoint, PoolDriversLive,
        LiveKept, Owner, Made, Unseen, UseInv, TearInv, RemovedNil, Goto, Proc, connVars,
        closeVars, shuttingDown, BorrowerLabels, RebuilderLabels, Holding, Owning
<1>1. CASE EvaluateAndMark(c)
  BY <1>1 DEF EvaluateAndMark, sendRebuildEvent
<1>2. CASE shouldCleanupConnection(c)
  BY <1>2 DEF shouldCleanupConnection
<1>3. CASE forceClose(c)
  BY <1>3 DEF forceClose
<1>4. CASE safeClose(c)
  BY <1>4 DEF safeClose
<1> QED
  BY <1>1, <1>2, <1>3, <1>4

(* The rest of the cleanup and of Close. *)
LEMMA PoolSession ==
  ASSUME TypeInv, MakerInv, TearInv, UseInv, SessionInv,
         Evict \/ CloseBegin \/ CloseDrain
  PROVE  SessionInv'
<1> USE ConnPoolConstants DEF TypeInv, TypeOK, ControlOK, SessionInv, Disjoint, PoolDriversLive,
        LiveKept, Owner, Made, Unseen, UseInv, TearInv, RemovedNil, Goto, Proc, connVars,
        closeVars, shuttingDown, BorrowerLabels, RebuilderLabels, Holding, Owning
<1>1. CASE Evict
  BY <1>1 DEF Evict
<1>2. CASE CloseBegin
  BY <1>2 DEF CloseBegin
<1>3. CASE CloseDrain
  BY <1>3 DEF CloseDrain, release
<1> QED
  BY <1>1, <1>2, <1>3

LEMMA SessionStep == TypeInv /\ MakerInv /\ TearInv /\ UseInv /\ SessionInv /\ [Next]_vars => SessionInv'
<1> SUFFICES ASSUME TypeInv, MakerInv, TearInv, UseInv, SessionInv, [Next]_vars PROVE SessionInv'
  OBVIOUS
<1>1. ASSUME NEW b \in Borrower, BorrowerStep(b) PROVE SessionInv'
  BY <1>1, BorrowerSession DEF BorrowerStep
<1>2. ASSUME NEW r \in Rebuilder, findConnectionByID(r) \/ RebuildStep(r) PROVE SessionInv'
  BY <1>2, RebuilderSession DEF RebuildStep
<1>3. ASSUME NEW w \in Warmer, WarmCreate(w) \/ WarmAdd(w) PROVE SessionInv'
  BY <1>3, WarmerSession
<1>4. ASSUME NEW c \in Conn,
             EvaluateAndMark(c) \/ shouldCleanupConnection(c) \/ forceClose(c) \/ safeClose(c)
      PROVE  SessionInv'
  BY <1>4, ConnectionSession
<1>5. CASE Evict \/ CloseBegin \/ CloseDrain
  BY <1>5, PoolSession
<1>6. CASE UNCHANGED vars
  BY <1>6 DEF SessionInv, Disjoint, PoolDriversLive, LiveKept, Made, Owner, vars, connVars, closeVars
<1> QED
  BY <1>1, <1>2, <1>3, <1>4, <1>5, <1>6 DEF Next

LEMMA SessionInit == Init => SessionInv
BY DEF Init, SessionInv, Disjoint, PoolDriversLive, LiveKept

LEMMA SessionHolds == Spec => [](TypeInv /\ SessionInv)
BY TypeInit, TypeStep, UseInit, UseStep, MakerInit, MakerStep, TearInit, TearKept, SessionInit,
   SessionStep, PTL DEF Spec

(* Whatever the cleanup, the rebuild workers and Close are doing, what a   *)
(* borrower finds in the map has an open driver, but for a connection that *)
(* performCoreRebuild is about to remove.                                  *)
THEOREM MapDriversLive == Spec => []PoolDriversLive
<1>1. SessionInv => PoolDriversLive
  BY DEF SessionInv
<1> QED
  BY <1>1, SessionHolds, PTL

(* Until Close has emptied the map no open session is forgotten: not by a   *)
(* lost race for the last slot, a rebuild that fails or one whose           *)
(* connection the cleanup evicts meanwhile.                                 *)
THEOREM NoDriverLeaks == Spec => []NoLeakedDriver
<1>1. TypeInv /\ SessionInv => NoLeakedDriver
  <2> SUFFICES ASSUME TypeInv, SessionInv, phase # "drained", NEW c \in Conn, driver[c] = "live",
                      NEW p \in Proc, Made(p) = c
               PROVE  \/ \E q \in Borrower \cup Warmer : pc[q] \in {"add", "warmadd"} /\ ref[q] = c
                      \/ \E r \in Rebuilder : pc[r] = "insert" /\ repl[r] = c
    BY DEF SessionInv, LiveKept, NoLeakedDriver
  <2>1. pc[p] \in {"add", "warmadd", "insert"}
    BY ConnPoolConstants DEF Made
  <2> QED
    BY <2>1 DEF Made, Proc, TypeInv, ControlOK, BorrowerLabels, RebuilderLabels, Holding, Owning
<1> QED
  BY <1>1, SessionHolds, PTL

-----------------------------------------------------------------------------
(***************************************************************************)
(* Who answers for a connection of the map that is not Idle.  The state of *)
(* a held connection follows its holder's position, or it is torn down;    *)
(* and a connection of the map that is torn down has its rebuild worker.   *)
(* After Close this is still true of what is inserted into the map: nobody *)
(* else has seen it.                                                       *)
(***************************************************************************)

(* The state the holder's position calls for: "running" is reached only on *)
(* a connection that is torn down.                                         *)
StateAt(l) ==
  IF l = "executing" THEN {"Executing"}
  ELSE IF l = "running" THEN {}
  ELSE IF l \in {"checking", "passed", "missed"} THEN {"Checking"} ELSE {"Acquired"}

HeldState == \A b \in Holder : ref[b] \in pool => state[ref[b]] \in StateAt(pc[b]) \cup Gone
OneHolder == \A b1, b2 \in Holder : ref[b1] = ref[b2] /\ ref[b1] \in pool => b1 = b2
GoneOwned ==
  \A c \in pool : state[c] \in Gone =>
    \E r \in Rebuilder : pc[r] \in {"drop", "remove"} /\ ref[r] = c
BusyHeld == \A c \in pool : state[c] \notin Gone \cup {"Idle"} => \E b \in Holder : ref[b] = c

HolderInv == HeldState /\ OneHolder /\ GoneOwned /\ BusyHeld

(* A borrower. *)
LEMMA BorrowerHeld ==
  ASSUME TypeInv, MakerInv, HolderInv, NEW b \in Borrower,
         GetWithContext(b) \/ AbandonGet(b) \/ Lookup(b) \/ tryAcquireForTask(b) \/
         StartCreate(b) \/ Create(b) \/ AddNew(b) \/ activateConnection(b) \/
         acquireUse(b) \/ BeginExecute(b) \/ EndExecute(b) \/
         beginHealthCheck(b) \/ defaultHealthCheck(b) \/ recordHealthCheck(b) \/
         Release(b)
  PROVE  HolderInv'
<1> USE ConnPoolConstants DEF TypeInv, TypeOK, ControlOK, HolderInv, HeldState, OneHolder,
        GoneOwned, BusyHeld, StateAt, Holder, Gone, Made, Unseen, Apart, Goto, Proc, connVars,
        closeVars, ConnectionState, BorrowerLabels, RebuilderLabels, Holding, Owning
<1>1. CASE GetWithContext(b)
  BY <1>1 DEF GetWithContext
<1>2. CASE AbandonGet(b)
  BY <1>2 DEF AbandonGet
<1>3. CASE Lookup(b)
  BY <1>3 DEF Lookup
<1>4. CASE tryAcquireForTask(b)
  BY <1>4 DEF tryAcquireForTask, Available
<1>5. CASE StartCreate(b)
  BY <1>5 DEF StartCreate
<1>6. CASE Create(b)
  BY <1>6 DEF Create, Fresh
<1>7. CASE AddNew(b)
  BY <1>7 DEF AddNew, Available, MakerInv, MadeUnseen, Made
<1>8. CASE activateConnection(b)
  BY <1>8 DEF activateConnection
<1>9. CASE acquireUse(b)
  BY <1>9 DEF acquireUse
<1>10. CASE BeginExecute(b)
  BY <1>10 DEF BeginExecute
<1>11. CASE EndExecute(b)
  BY <1>11 DEF EndExecute, Transition, CanTransition
<1>12. CASE beginHealthCheck(b)
  BY <1>12 DEF beginHealthCheck
<1>13. CASE defaultHealthCheck(b)
  BY <1>13 DEF defaultHealthCheck
<1>14. CASE recordHealthCheck(b)
  BY <1>14 DEF recordHealthCheck
<1>15. CASE Release(b)
  BY <1>15 DEF Release, release
<1> QED
  BY <1>1, <1>2, <1>3, <1>4, <1>5, <1>6, <1>7, <1>8, <1>9, <1>10, <1>11, <1>12, <1>13, <1>14, <1>15

(* A rebuild worker. *)
LEMMA RebuilderHeld ==
  ASSUME TypeInv, MakerInv, HolderInv, NEW r \in Rebuilder,
         findConnectionByID(r) \/ canStartRebuild(r) \/ beginRebuild(r) \/
         beginClose(r) \/ DropDriver(r) \/ RemoveOld(r) \/ completeClose(r) \/
         createReplacementConnection(r) \/ InsertNew(r) \/ completeRebuild(r)
  PROVE  HolderInv'
<1> USE ConnPoolConstants DEF TypeInv, TypeOK, ControlOK, HolderInv, HeldState, OneHolder,
        GoneOwned, BusyHeld, StateAt, Holder, Gone, Made, Unseen, Apart, Goto, Proc, connVars,
        closeVars, ConnectionState, BorrowerLabels, RebuilderLabels, Holding, Owning
<1>1. CASE findConnectionByID(r)
  BY <1>1 DEF findConnectionByID, getConnectionsForRebuild
<1>2. CASE canStartRebuild(r)
  BY <1>2 DEF canStartRebuild, sendRebuildEvent
<1>3. CASE beginRebuild(r)
  BY <1>3 DEF beginRebuild
<1>4. CASE beginClose(r)
  BY <1>4 DEF beginClose, Transition, CanTransition
<1>5. CASE DropDriver(r)
  BY <1>5 DEF DropDriver
<1>6. CASE RemoveOld(r)
  BY <1>6 DEF RemoveOld
<1>7. CASE completeClose(r)
  BY <1>7 DEF completeClose
<1>8. CASE createReplacementConnection(r)
  BY <1>8 DEF createReplacementConnection, Fresh
<1>9. CASE InsertNew(r)
  BY <1>9 DEF InsertNew, MakerInv, MadeUnseen, Made
<1>10. CASE completeRebuild(r)
  BY <1>10 DEF completeRebuild, sendRebuildEvent
<1> QED
  BY <1>1, <1>2, <1>3, <1>4, <1>5, <1>6, <1>7, <1>8, <1>9, <1>10

(* A warm-up goroutine. *)
LEMMA WarmerHeld ==
  ASSUME TypeInv, MakerInv, HolderInv, NEW w \in Warmer,
         WarmCreate(w) \/ WarmAdd(w)
  PROVE  HolderInv'
<1> USE ConnPoolConstants DEF TypeInv, TypeOK, ControlOK, HolderInv, HeldState, OneHolder,
        GoneOwned, BusyHeld, StateAt, Holder, Gone, Made, Unseen, Apart, Goto, Proc, connVars,
        closeVars, ConnectionState, BorrowerLabels, RebuilderLabels, Holding, Owning
<1>1. CASE WarmCreate(w)
  BY <1>1 DEF WarmCreate, Fresh
<1>2. CASE WarmAdd(w)
  BY <1>2 DEF WarmAdd, MakerInv, MadeUnseen, Made
<1> QED
  BY <1>1, <1>2

(* The steps on one connection. *)
LEMMA ConnectionHeld ==
  ASSUME TypeInv, MakerInv, HolderInv, NEW c \in Conn,
         EvaluateAndMark(c) \/ shouldCleanupConnection(c) \/ forceClose(c) \/
         safeClose(c)
  PROVE  HolderInv'
<1> USE ConnPoolConstants DEF TypeInv, TypeOK, ControlOK, HolderInv, HeldState, OneHolder,
        GoneOwned, BusyHeld, StateAt, Holder, Gone, Made, Unseen, Apart, Goto, Proc, connVars,
        closeVars, ConnectionState, BorrowerLabels, RebuilderLabels, Holding, Owning
<1>1. CASE EvaluateAndMark(c)
  BY <1>1 DEF EvaluateAndMark, sendRebuildEvent
<1>2. CASE shouldCleanupConnection(c)
  BY <1>2 DEF shouldCleanupConnection
<1>3. CASE forceClose(c)
  BY <1>3 DEF forceClose
<1>4. CASE safeClose(c)
  BY <1>4 DEF safeClose
<1> QED
  BY <1>1, <1>2, <1>3, <1>4

(* The rest of the cleanup and of Close. *)
LEMMA PoolHeld ==
  ASSUME TypeInv, MakerInv, HolderInv,
         Evict \/ CloseBegin \/ CloseDrain
  PROVE  HolderInv'
<1> USE ConnPoolConstants DEF TypeInv, TypeOK, ControlOK, HolderInv, HeldState, OneHolder,
        GoneOwned, BusyHeld, StateAt, Holder, Gone, Made, Unseen, Apart, Goto, Proc, connVars,
        closeVars, ConnectionState, BorrowerLabels, RebuilderLabels, Holding, Owning
<1>1. CASE Evict
  BY <1>1 DEF Evict
<1>2. CASE CloseBegin
  BY <1>2 DEF CloseBegin
<1>3. CASE CloseDrain
  BY <1>3 DEF CloseDrain, release
<1> QED
  BY <1>1, <1>2, <1>3

LEMMA HolderStep == TypeInv /\ MakerInv /\ HolderInv /\ [Next]_vars => HolderInv'
<1> SUFFICES ASSUME TypeInv, MakerInv, HolderInv, [Next]_vars PROVE HolderInv'
  OBVIOUS
<1>1. ASSUME NEW b \in Borrower, BorrowerStep(b) PROVE HolderInv'
  BY <1>1, BorrowerHeld DEF BorrowerStep
<1>2. ASSUME NEW r \in Rebuilder, findConnectionByID(r) \/ RebuildStep(r) PROVE HolderInv'
  BY <1>2, RebuilderHeld DEF RebuildStep
<1>3. ASSUME NEW w \in Warmer, WarmCreate(w) \/ WarmAdd(w) PROVE HolderInv'
  BY <1>3, WarmerHeld
<1>4. ASSUME NEW c \in Conn,
             EvaluateAndMark(c) \/ shouldCleanupConnection(c) \/ forceClose(c) \/ safeClose(c)
      PROVE  HolderInv'
  BY <1>4, ConnectionHeld
<1>5. CASE Evict \/ CloseBegin \/ CloseDrain
  BY <1>5, PoolHeld
<1>6. CASE UNCHANGED vars
  BY <1>6 DEF HolderInv, HeldState, OneHolder, GoneOwned, BusyHeld, Holder, vars, connVars, closeVars
<1> QED
  BY <1>1, <1>2, <1>3, <1>4, <1>5, <1>6 DEF Next

LEMMA HolderInit == Init => HolderInv
<1> SUFFICES ASSUME Init PROVE HolderInv
  OBVIOUS
<1>1. pool = {}
  BY DEF Init
<1> QED
  BY <1>1 DEF HolderInv, HeldState, OneHolder, GoneOwned, BusyHeld

(* A connection of the map that is not Idle has a borrower that will give  *)
(* it back or a rebuild worker that will take it out: no exit of Execute,  *)
(* of a health check or of performCoreRebuild strands one, for any number  *)
(* of goroutines.                                                          *)
THEOREM NobodyStranded == Spec => []NoStrandedConnection
<1>1. TypeInv /\ HolderInv => NoStrandedConnection
  BY DEF HolderInv, GoneOwned, BusyHeld, NoStrandedConnection, Owner, Owning, Gone
<1> QED
  BY <1>1, TypeInit, TypeStep, MakerInit, MakerStep, HolderInit, HolderStep, PTL DEF Spec

-----------------------------------------------------------------------------
(***************************************************************************)
(* The size of ConnPool's map, for any number of connections and           *)
(* goroutines.  PoolBound is not inductive: what a rebuild worker inserts  *)
(* takes the place of a connection that left the map after the worker had  *)
(* found it there, however it left.  So the places to count are those of   *)
(* the map and of the connections that a worker can still replace (Slots), *)
(* or has closed and can still replace (Places); a borrower finds less     *)
(* than MaxConnections in the map and beside them at most one connection   *)
(* per worker, or only connections that were closed.                       *)
(***************************************************************************)

(* The workers that can still replace a connection, and the places. *)
Pending == {r \in Rebuilder :
              \/ pc[r] \in {"close", "drop", "remove", "complete", "replace", "insert"}
              \/ pc[r] \in {"start", "begin"} /\ state[ref[r]] \notin Gone}
Slots == pool \cup {ref[r] : r \in Pending}

(* The workers that have closed theirs and can still replace it. *)
Replacing == {r \in Rebuilder : pc[r] \in {"drop", "remove", "complete", "replace", "insert"}}
Places == pool \cup {ref[r] : r \in Replacing}

(* The connections a rebuild has closed, and the warm-up goroutines that   *)
(* have returned.                                                          *)
Shut == {c \in Conn : state[c] \in Gone}
Warmed == {w \in Warmer : pc[w] = "out"}

SlotBound ==
  Cardinality(Slots) <= MaxConnections + Cardinality(Rebuilder) + Cardinality(Warmed)

PlaceBound ==
  Cardinality(Places) <= MaxConnections + Cardinality(Shut) + Cardinality(Warmed)

(* A worker past phase 3.3 has its connection out of the map for good. *)
ReplacedOut ==
  \A r \in Rebuilder : pc[r] \in {"complete", "replace", "insert"} => ref[r] \notin pool

(* A worker closes what nobody has closed before. *)
ClosedOnce == \A r \in Rebuilder : pc[r] = "close" => state[ref[r]] \notin Gone

RebuildInv == ReplacedOut /\ ClosedOnce

(* What one step may do to the places: leave them or free some, *)
FewerSlots == Slots' \subseteq Slots /\ Warmed \subseteq Warmed'
FewerPlaces == Places' \subseteq Places /\ Shut \subseteq Shut' /\ Warmed \subseteq Warmed'

(* take one and end a warm-up, *)
WarmedSlot ==
  \E w \in Warmer, c \in Conn : /\ Slots' \subseteq Slots \cup {c}
                                /\ w \notin Warmed /\ Warmed' = Warmed \cup {w}
WarmedPlace ==
  \E w \in Warmer, c \in Conn : /\ Places' \subseteq Places \cup {c} /\ Shut' = Shut
                                /\ w \notin Warmed /\ Warmed' = Warmed \cup {w}

(* take one and close it, *)
ShutPlace ==
  \E c \in Conn : /\ Places' \subseteq Places \cup {c} /\ Warmed' = Warmed
                  /\ c \notin Shut /\ Shut' = Shut \cup {c}

(* exchange one, *)
SwappedSlot ==
  \E c, d \in Conn : c \in Slots /\ Slots' \subseteq (Slots \ {c}) \cup {d} /\ Warmed' = Warmed
SwappedPlace ==
  \E c, d \in Conn : /\ c \in Places /\ Places' \subseteq (Places \ {c}) \cup {d}
                     /\ Shut' = Shut /\ Warmed' = Warmed

(* or take one of a map that is not full. *)
AddedSlot ==
  \E c \in Conn : /\ Cardinality(pool) < MaxConnections
                  /\ Slots' \subseteq (pool \cup {c}) \cup {ref[r] : r \in Pending}
AddedPlace ==
  \E c \in Conn : /\ Cardinality(pool) < MaxConnections
                  /\ Places' \subseteq (pool \cup {c}) \cup Shut /\ Shut' = Shut

SlotStep == FewerSlots \/ WarmedSlot \/ SwappedSlot \/ AddedSlot
PlaceStep == FewerPlaces \/ WarmedPlace \/ ShutPlace \/ SwappedPlace \/ AddedPlace

(* A borrower, but for the insertion. *)
LEMMA BorrowerSlots ==
  ASSUME TypeInv, NEW b \in Borrower,
         GetWithContext(b) \/ AbandonGet(b) \/ Lookup(b) \/ tryAcquireForTask(b) \/
         StartCreate(b) \/ Create(b) \/ activateConnection(b) \/ acquireUse(b) \/
         BeginExecute(b) \/ EndExecute(b) \/ beginHealthCheck(b) \/
         defaultHealthCheck(b) \/ recordHealthCheck(b) \/ Release(b)
  PROVE  FewerSlots /\ FewerPlaces
<1> USE ConnPoolConstants DEF TypeInv, TypeOK, ControlOK, FewerSlots, FewerPlaces, Slots, Places,
        Pending, Replacing, Shut, Warmed, Gone, Goto, Proc, connVars, closeVars, ConnectionState,
        BorrowerLabels, RebuilderLabels, Holding, Owning
<1>1. CASE GetWithContext(b)
  BY <1>1 DEF GetWithContext
<1>2. CASE AbandonGet(b)
  BY <1>2 DEF AbandonGet
<1>3. CASE Lookup(b)
  BY <1>3 DEF Lookup
<1>4. CASE tryAcquireForTask(b)
  BY <1>4 DEF tryAcquireForTask, Available
<1>5. CASE StartCreate(b)
  BY <1>5 DEF StartCreate
<1>6. CASE Create(b)
  BY <1>6 DEF Create, Fresh
<1>7. CASE activateConnection(b)
  BY <1>7 DEF activateConnection
<1>8. CASE acquireUse(b)
  BY <1>8 DEF acquireUse
<1>9. CASE BeginExecute(b)
  BY <1>9 DEF BeginExecute
<1>10. CASE EndExecute(b)
  BY <1>10 DEF EndExecute, Transition, CanTransition
<1>11. CASE beginHealthCheck(b)
  BY <1>11 DEF beginHealthCheck
<1>12. CASE defaultHealthCheck(b)
  BY <1>12 DEF defaultHealthCheck
<1>13. CASE recordHealthCheck(b)
  BY <1>13 DEF recordHealthCheck
<1>14. CASE Release(b)
  BY <1>14 DEF Release, release
<1> QED
  BY <1>1, <1>2, <1>3, <1>4, <1>5, <1>6, <1>7, <1>8, <1>9, <1>10, <1>11, <1>12, <1>13, <1>14

(* A rebuild worker, but for beginClose and the insertion. *)
LEMMA RebuilderSlots ==
  ASSUME TypeInv, NEW r \in Rebuilder,
         findConnectionByID(r) \/ canStartRebuild(r) \/ beginRebuild(r) \/
         DropDriver(r) \/ RemoveOld(r) \/ completeClose(r) \/
         createReplacementConnection(r) \/ completeRebuild(r)
  PROVE  FewerSlots /\ FewerPlaces
<1> USE ConnPoolConstants DEF TypeInv, TypeOK, ControlOK, FewerSlots, FewerPlaces, Slots, Places,
        Pending, Replacing, Shut, Warmed, Gone, Goto, Proc, connVars, closeVars, ConnectionState,
        BorrowerLabels, RebuilderLabels, Holding, Owning
<1>1. CASE findConnectionByID(r)
  BY <1>1 DEF findConnectionByID, getConnectionsForRebuild
<1>2. CASE canStartRebuild(r)
  BY <1>2 DEF canStartRebuild, Startable
<1>3. CASE beginRebuild(r)
  BY <1>3 DEF beginRebuild
<1>4. CASE DropDriver(r)
  BY <1>4 DEF DropDriver
<1>5. CASE RemoveOld(r)
  BY <1>5 DEF RemoveOld
<1>6. CASE completeClose(r)
  BY <1>6 DEF completeClose
<1>7. CASE createReplacementConnection(r)
  BY <1>7 DEF createReplacementConnection, Fresh
<1>8. CASE completeRebuild(r)
  BY <1>8 DEF completeRebuild, sendRebuildEvent
<1> QED
  BY <1>1, <1>2, <1>3, <1>4, <1>5, <1>6, <1>7, <1>8

(* beginClose: the connection becomes one a rebuild has closed. *)
LEMMA BeginCloseSlots ==
  ASSUME TypeInv, ClosedOnce, NEW r \in Rebuilder, beginClose(r)
  PROVE  FewerSlots /\ ShutPlace
<1> USE ConnPoolConstants DEF TypeInv, TypeOK, ControlOK, Slots, Places, Pending, Replacing, Shut,
        Warmed, Gone, Goto, Proc, closeVars, ConnectionState, RebuilderLabels, Owning, beginClose,
        Transition, CanTransition
<1>1. FewerSlots
  BY DEF FewerSlots
<1>2. ref[r] \in Conn /\ ref[r] \notin Shut
  BY DEF ClosedOnce
<1>3. Shut' = Shut \cup {ref[r]} /\ Warmed' = Warmed
  BY <1>2
<1>4. Places' \subseteq Places \cup {ref[r]}
  BY <1>2
<1> QED
  BY <1>1, <1>2, <1>3, <1>4 DEF ShutPlace

(* The steps on one connection. *)
LEMMA ConnectionSlots ==
  ASSUME TypeInv, NEW c \in Conn,
         EvaluateAndMark(c) \/ shouldCleanupConnection(c) \/ forceClose(c) \/
         safeClose(c)
  PROVE  FewerSlots /\ FewerPlaces
<1> USE ConnPoolConstants DEF TypeInv, TypeOK, ControlOK, FewerSlots, FewerPlaces, Slots, Places,
        Pending, Replacing, Shut, Warmed, Gone, Goto, Proc, connVars, closeVars, ConnectionState,
        BorrowerLabels, RebuilderLabels, Holding, Owning
<1>1. CASE EvaluateAndMark(c)
  BY <1>1 DEF EvaluateAndMark, sendRebuildEvent
<1>2. CASE shouldCleanupConnection(c)
  BY <1>2 DEF shouldCleanupConnection
<1>3. CASE forceClose(c)
  BY <1>3 DEF forceClose
<1>4. CASE safeClose(c)
  BY <1>4 DEF safeClose
<1> QED
  BY <1>1, <1>2, <1>3, <1>4

(* The rest of the cleanup and of Close. *)
LEMMA PoolSlots ==
  ASSUME TypeInv,
         Evict \/ CloseBegin \/ CloseDrain
  PROVE  FewerSlots /\ FewerPlaces
<1> USE ConnPoolConstants DEF TypeInv, TypeOK, ControlOK, FewerSlots, FewerPlaces, Slots, Places,
        Pending, Replacing, Shut, Warmed, Gone, Goto, Proc, connVars, closeVars, ConnectionState,
        BorrowerLabels, RebuilderLabels, Holding, Owning
<1>1. CASE Evict
  BY <1>1 DEF Evict
<1>2. CASE CloseBegin
  BY <1>2 DEF CloseBegin
<1>3. CASE CloseDrain
  BY <1>3 DEF CloseDrain, release
<1> QED
  BY <1>1, <1>2, <1>3

LEMMA WarmerSlots ==
  ASSUME TypeInv, NEW w \in Warmer, WarmCreate(w) \/ WarmAdd(w)
  PROVE  (FewerSlots /\ FewerPlaces) \/ (WarmedSlot /\ WarmedPlace)
<1> USE ConnPoolConstants DEF TypeInv, TypeOK, ControlOK, Slots, Places, Pending, Replacing, Shut,
        Warmed, Goto, Proc, connVars, closeVars, RebuilderLabels, Owning
<1>1. CASE WarmCreate(w)
  BY <1>1 DEF WarmCreate, FewerSlots, FewerPlaces
<1>2. CASE WarmAdd(w)
  <2>1. ref[w] \in Conn /\ w \notin Warmed /\ Warmed' = Warmed \cup {w} /\ Shut' = Shut
    BY <1>2 DEF WarmAdd
  <2>2. Slots' \subseteq Slots \cup {ref[w]}
    BY <1>2 DEF WarmAdd
  <2>3. Places' \subseteq Places \cup {ref[w]}
    BY <1>2 DEF WarmAdd
  <2> QED
    BY <2>1, <2>2, <2>3 DEF WarmedSlot, WarmedPlace
<1> QED
  BY <1>1, <1>2

(* AddNew: the second count check, under the lock. *)
LEMMA AddNewSlots ==
  ASSUME TypeInv, TearInv, NEW b \in Borrower, AddNew(b)
  PROVE  (FewerSlots /\ FewerPlaces) \/ (AddedSlot /\ AddedPlace)
<1> USE ConnPoolConstants DEF TypeInv, TypeOK, ControlOK, Slots, Places, Pending, Replacing, Shut,
        Warmed, Gone, Goto, Proc, closeVars, RebuilderLabels, Owning, BorrowerLabels
<1>0. Cardinality(pool) \in Nat /\ MaxConnections \in Nat
  BY FS_Subset, FS_CardinalityType
<1>1. CASE Cardinality(pool) < MaxConnections
  <2>1. ref[b] \in Conn
    BY DEF AddNew
  <2>2. Slots' \subseteq (pool \cup {ref[b]}) \cup {ref[r] : r \in Pending}
    BY <1>0, <1>1 DEF AddNew, Available
  <2>3. Shut' = Shut
    BY <1>0, <1>1, <2>1 DEF AddNew, Available
  <2>4. Places' \subseteq (pool \cup {ref[b]}) \cup Shut
    BY <1>0, <1>1 DEF AddNew, TearInv, TornGone, Torn
  <2> QED
    BY <1>1, <2>1, <2>2, <2>3, <2>4 DEF AddedSlot, AddedPlace
<1>2. CASE ~(Cardinality(pool) < MaxConnections)
  BY <1>0, <1>2 DEF AddNew, FewerSlots, FewerPlaces
<1> QED
  BY <1>1, <1>2

(* InsertNew: no other worker can still replace the same connection. *)
LEMMA InsertSlots ==
  ASSUME TypeInv, MakerInv, TearInv, RebuildOwnership, ReplacedOut, NEW r \in Rebuilder, InsertNew(r)
  PROVE  SwappedSlot /\ SwappedPlace
<1> DEFINE c == ref[r]
           d == repl[r]
<1> USE ConnPoolConstants DEF TypeInv, TypeOK, ControlOK, Goto, Proc, connVars, closeVars,
        InsertNew
<1>1. c \in Conn /\ d \in Conn /\ c # d
  BY DEF MakerInv, MadeUnseen, Made, Unseen, Apart
<1>2. c \in Slots /\ c \in Places
  BY DEF Slots, Pending, Places, Replacing
<1>3. \A q \in Rebuilder : q \in Pending' => q \in Pending /\ ref[q] # c
  BY DEF Pending, RebuildOwnership, Owner, Owning, TearInv, TornGone, Torn, Gone
<1>4. Slots' \subseteq (Slots \ {c}) \cup {d}
  BY <1>3 DEF Slots, ReplacedOut, Pending
<1>5. \A q \in Rebuilder : q \in Replacing' => q \in Replacing /\ ref[q] # c
  BY DEF Replacing, RebuildOwnership, Owner, Owning
<1>6. Places' \subseteq (Places \ {c}) \cup {d}
  BY <1>5 DEF Places, ReplacedOut, Replacing
<1>7. Warmed' = Warmed /\ Shut' = Shut
  BY DEF Warmed, Shut
<1> QED
  BY <1>1, <1>2, <1>4, <1>6, <1>7 DEF SwappedSlot, SwappedPlace

LEMMA SlotSteps ==
  ASSUME TypeInv, MakerInv, TearInv, RebuildOwnership, RebuildInv, [Next]_vars
  PROVE  SlotStep /\ PlaceStep
<1> USE DEF SlotStep, PlaceStep, RebuildInv
<1>1. ASSUME NEW b \in Borrower, BorrowerStep(b) PROVE SlotStep /\ PlaceStep
  BY <1>1, BorrowerSlots, AddNewSlots DEF BorrowerStep
<1>2. ASSUME NEW r \in Rebuilder, findConnectionByID(r) \/ RebuildStep(r)
      PROVE  SlotStep /\ PlaceStep
  BY <1>2, RebuilderSlots, BeginCloseSlots, InsertSlots DEF RebuildStep
<1>3. ASSUME NEW w \in Warmer, WarmCreate(w) \/ WarmAdd(w) PROVE SlotStep /\ PlaceStep
  BY <1>3, WarmerSlots
<1>4. ASSUME NEW c \in Conn,
             EvaluateAndMark(c) \/ shouldCleanupConnection(c) \/ forceClose(c) \/ safeClose(c)
      PROVE  SlotStep /\ PlaceStep
  BY <1>4, ConnectionSlots
<1>5. CASE Evict \/ CloseBegin \/ CloseDrain
  BY <1>5, PoolSlots
<1>6. CASE UNCHANGED vars
  BY <1>6 DEF FewerSlots, FewerPlaces, Slots, Places, Pending, Replacing, Shut, Warmed, vars,
              connVars, closeVars
<1> QED
  BY <1>1, <1>2, <1>3, <1>4, <1>5, <1>6 DEF Next

LEMMA PlacesFinite ==
  ASSUME TypeInv
  PROVE  /\ IsFiniteSet(Conn) /\ IsFiniteSet(Slots) /\ Slots \subseteq Conn
         /\ IsFiniteSet(pool) /\ IsFiniteSet(Warmed)
         /\ IsFiniteSet(Places) /\ Places \subseteq Conn /\ IsFiniteSet(Shut)
         /\ Cardinality(Slots) \in Nat /\ Cardinality(pool) \in Nat /\ Cardinality(Warmed) \in Nat
         /\ Cardinality(Places) \in Nat /\ Cardinality(Shut) \in Nat
         /\ Cardinality(Rebuilder) \in Nat /\ MaxConnections \in Nat
<1>1. /\ Slots \subseteq Conn /\ Places \subseteq Conn /\ pool \subseteq Conn
      /\ Shut \subseteq Conn /\ Warmed \subseteq Warmer
  BY DEF TypeInv, TypeOK, ControlOK, Slots, Pending, Places, Replacing, Owning, Shut, Warmed
<1> QED
  BY <1>1, ConnPoolConstants, FS_Subset, FS_CardinalityType

(* The connections the workers can still replace: one per worker at most. *)
LEMMA PendingBound ==
  ASSUME TypeInv
  PROVE  /\ IsFiniteSet({ref[r] : r \in Pending})
         /\ Cardinality({ref[r] : r \in Pending}) \in Nat
         /\ Cardinality({ref[r] : r \in Pending}) <= Cardinality(Rebuilder)
<1> DEFINE T == {ref[r] : r \in Pending}
           f == [r \in Pending |-> ref[r]]
<1>1. IsFiniteSet(Pending) /\ Cardinality(Pending) <= Cardinality(Rebuilder)
  BY ConnPoolConstants, FS_Subset DEF Pending
<1>2. f \in Surjection(Pending, T)
  BY DEF Surjection
<1>3. IsFiniteSet(T) /\ Cardinality(T) <= Cardinality(Pending)
  BY <1>1, <1>2, FS_Surjection
<1>4. Cardinality(T) \in Nat /\ Cardinality(Pending) \in Nat /\ Cardinality(Rebuilder) \in Nat
  BY <1>1, <1>3, FS_CardinalityType, ConnPoolConstants
<1> QED
  BY <1>1, <1>3, <1>4

LEMMA OneMore ==
  ASSUME NEW S, NEW x, IsFiniteSet(S)
  PROVE  /\ IsFiniteSet(S \cup {x}) /\ Cardinality(S \cup {x}) \in Nat
         /\ Cardinality(S \cup {x}) <= Cardinality(S) + 1
<1>1. Cardinality(S) \in Nat
  BY FS_CardinalityType
<1>2. Cardinality(S \cup {x}) = IF x \in S THEN Cardinality(S) ELSE Cardinality(S) + 1
  BY FS_AddElement
<1>3. IsFiniteSet(S \cup {x})
  BY FS_AddElement
<1>4. Cardinality(S \cup {x}) <= Cardinality(S) + 1
  BY <1>1, <1>2
<1> QED
  BY <1>1, <1>2, <1>3, <1>4

LEMMA AtMostBoth ==
  ASSUME NEW S, NEW T, IsFiniteSet(S), IsFiniteSet(T)
  PROVE  /\ IsFiniteSet(S \cup T)
         /\ Cardinality(S \cup T) <= Cardinality(S) + Cardinality(T)
<1>1. Cardinality(S) \in Nat /\ Cardinality(T) \in Nat
  BY FS_CardinalityType
<1>2. Cardinality(S \cap T) \in Nat
  BY FS_Subset, FS_CardinalityType
<1>3. /\ IsFiniteSet(S \cup T)
      /\ Cardinality(S \cup T) = Cardinality(S) + Cardinality(T) - Cardinality(S \cap T)
  BY FS_Union
<1>4. Cardinality(S \cup T) <= Cardinality(S) + Cardinality(T)
  BY <1>1, <1>2, <1>3
<1> QED
  BY <1>3, <1>4

LEMMA SlotStepKeeps ==
  ASSUME TypeInv, TypeInv', SlotBound, SlotStep
  PROVE  SlotBound'
<1>0. /\ IsFiniteSet(Slots) /\ IsFiniteSet(Slots') /\ IsFiniteSet(pool)
      /\ IsFiniteSet(Warmed) /\ IsFiniteSet(Warmed')
      /\ Cardinality(Slots) \in Nat /\ Cardinality(Slots') \in Nat /\ Cardinality(pool) \in Nat
      /\ Cardinality(Warmed) \in Nat /\ Cardinality(Warmed') \in Nat
      /\ Cardinality(Rebuilder) \in Nat /\ MaxConnections \in Nat
  <2>1. ASSUME TypeInv' PROVE IsFiniteSet(Slots') /\ IsFiniteSet(Warmed')
    <3>1. Slots' \subseteq Conn /\ Warmed' \subseteq Warmer
      BY DEF TypeInv, TypeOK, ControlOK, Slots, Pending, Warmed
    <3> QED
      BY <3>1, ConnPoolConstants, FS_Subset
  <2> QED
    BY <2>1, PlacesFinite, FS_CardinalityType
<1>1. CASE FewerSlots
  <2>1. Cardinality(Slots') <= Cardinality(Slots) /\ Cardinality(Warmed) <= Cardinality(Warmed')
    BY <1>0, <1>1, FS_Subset DEF FewerSlots
  <2> QED
    BY <1>0, <2>1 DEF SlotBound
<1>2. CASE WarmedSlot
  <2> PICK w \in Warmer, c \in Conn : /\ Slots' \subseteq Slots \cup {c}
                                      /\ w \notin Warmed /\ Warmed' = Warmed \cup {w}
    BY <1>2 DEF WarmedSlot
  <2>1. IsFiniteSet(Slots \cup {c}) /\ Cardinality(Slots \cup {c}) <= Cardinality(Slots) + 1
    BY <1>0, OneMore
  <2>2. Cardinality(Slots') <= Cardinality(Slots \cup {c})
    BY <2>1, FS_Subset
  <2>3. Cardinality(Warmed') = Cardinality(Warmed) + 1
    BY <1>0, FS_AddElement
  <2>4. Cardinality(Slots \cup {c}) \in Nat
    BY <2>1, FS_CardinalityType
  <2> QED
    BY <1>0, <2>1, <2>2, <2>3, <2>4 DEF SlotBound
<1>3. CASE SwappedSlot
  <2> PICK c \in Conn, d \in Conn : /\ c \in Slots /\ Slots' \subseteq (Slots \ {c}) \cup {d}
                                    /\ Warmed' = Warmed
    BY <1>3 DEF SwappedSlot
  <2>1. IsFiniteSet(Slots \ {c}) /\ Cardinality(Slots \ {c}) = Cardinality(Slots) - 1
    BY <1>0, FS_RemoveElement
  <2>2. Cardinality(Slots \ {c}) \in Nat
    BY <2>1, FS_CardinalityType
  <2>3. /\ IsFiniteSet((Slots \ {c}) \cup {d})
        /\ Cardinality((Slots \ {c}) \cup {d}) <= Cardinality(Slots \ {c}) + 1
    BY <2>1, OneMore
  <2>4. Cardinality((Slots \ {c}) \cup {d}) \in Nat
    BY <2>3, FS_CardinalityType
  <2>5. Cardinality(Slots') <= Cardinality((Slots \ {c}) \cup {d})
    BY <2>3, FS_Subset
  <2> QED
    BY <1>0, <2>1, <2>2, <2>3, <2>4, <2>5 DEF SlotBound
<1>4. CASE AddedSlot
  <2> DEFINE T == {ref[r] : r \in Pending}
  <2> PICK c \in Conn : /\ Cardinality(pool) < MaxConnections
                        /\ Slots' \subseteq (pool \cup {c}) \cup T
    BY <1>4 DEF AddedSlot
  <2>1. IsFiniteSet(T) /\ Cardinality(T) \in Nat /\ Cardinality(T) <= Cardinality(Rebuilder)
    BY PendingBound
  <2> HIDE DEF T
  <2>2. IsFiniteSet(pool \cup {c}) /\ Cardinality(pool \cup {c}) <= Cardinality(pool) + 1
    BY <1>0, OneMore
  <2>3. Cardinality(pool \cup {c}) \in Nat
    BY <2>2, FS_CardinalityType
  <2>4. /\ IsFiniteSet((pool \cup {c}) \cup T)
        /\ Cardinality((pool \cup {c}) \cup T) <= Cardinality(pool \cup {c}) + Cardinality(T)
    BY <2>1, <2>2, AtMostBoth
  <2>5. Cardinality((pool \cup {c}) \cup T) \in Nat
    BY <2>4, FS_CardinalityType
  <2>6. Cardinality(Slots') <= Cardinality((pool \cup {c}) \cup T)
    BY <2>4, FS_Subset
  <2> QED
    BY <1>0, <2>1, <2>2, <2>3, <2>4, <2>5, <2>6 DEF SlotBound
<1> QED
  BY <1>1, <1>2, <1>3, <1>4 DEF SlotStep

LEMMA PlaceStepKeeps ==
  ASSUME TypeInv, TypeInv', PlaceBound, PlaceStep
  PROVE  PlaceBound'
<1>0. /\ IsFiniteSet(Places) /\ IsFiniteSet(Places') /\ IsFiniteSet(pool)
      /\ IsFiniteSet(Warmed) /\ IsFiniteSet(Warmed') /\ IsFiniteSet(Shut) /\ IsFiniteSet(Shut')
      /\ Cardinality(Places) \in Nat /\ Cardinality(Places') \in Nat /\ Cardinality(pool) \in Nat
      /\ Cardinality(Warmed) \in Nat /\ Cardinality(Warmed') \in Nat
      /\ Cardinality(Shut) \in Nat /\ Cardinality(Shut') \in Nat /\ MaxConnections \in Nat
  <2>1. IsFiniteSet(Places') /\ IsFiniteSet(Warmed') /\ IsFiniteSet(Shut')
    <3>1. Places' \subseteq Conn /\ Warmed' \subseteq Warmer /\ Shut' \subseteq Conn
      BY DEF TypeInv, TypeOK, ControlOK, Places, Replacing, Owning, Warmed, Shut
    <3> QED
      BY <3>1, ConnPoolConstants, FS_Subset
  <2> QED
    BY <2>1, PlacesFinite, FS_CardinalityType
<1>1. CASE FewerPlaces
  <2>1. /\ Cardinality(Places') <= Cardinality(Places)
        /\ Cardinality(Shut) <= Cardinality(Shut')
        /\ Cardinality(Warmed) <= Cardinality(Warmed')
    BY <1>0, <1>1, FS_Subset DEF FewerPlaces
  <2> QED
    BY <1>0, <2>1 DEF PlaceBound
<1>2. ASSUME NEW c \in Conn, Places' \subseteq Places \cup {c}
      PROVE  Cardinality(Places') <= Cardinality(Places) + 1
  <2>1. /\ IsFiniteSet(Places \cup {c}) /\ Cardinality(Places \cup {c}) \in Nat
        /\ Cardinality(Places \cup {c}) <= Cardinality(Places) + 1
    BY <1>0, OneMore
  <2>2. Cardinality(Places') <= Cardinality(Places \cup {c})
    BY <1>2, <2>1, FS_Subset
  <2> QED
    BY <1>0, <2>1, <2>2
<1>3. CASE WarmedPlace
  <2> PICK w \in Warmer, c \in Conn : /\ Places' \subseteq Places \cup {c} /\ Shut' = Shut
                                      /\ w \notin Warmed /\ Warmed' = Warmed \cup {w}
    BY <1>3 DEF WarmedPlace
  <2>1. Cardinality(Warmed') = Cardinality(Warmed) + 1
    BY <1>0, FS_AddElement
  <2> QED
    BY <1>0, <1>2, <2>1 DEF PlaceBound
<1>4. CASE ShutPlace
  <2> PICK c \in Conn : /\ Places' \subseteq Places \cup {c} /\ Warmed' = Warmed
                        /\ c \notin Shut /\ Shut' = Shut \cup {c}
    BY <1>4 DEF ShutPlace
  <2>1. Cardinality(Shut') = Cardinality(Shut) + 1
    BY <1>0, FS_AddElement
  <2> QED
    BY <1>0, <1>2, <2>1 DEF PlaceBound
<1>5. CASE SwappedPlace
  <2> PICK c \in Conn, d \in Conn : /\ c \in Places /\ Places' \subseteq (Places \ {c}) \cup {d}
                                    /\ Shut' = Shut /\ Warmed' = Warmed
    BY <1>5 DEF SwappedPlace
  <2>1. IsFiniteSet(Places \ {c}) /\ Cardinality(Places \ {c}) = Cardinality(Places) - 1
    BY <1>0, FS_RemoveElement
  <2>2. /\ IsFiniteSet((Places \ {c}) \cup {d}) /\ Cardinality((Places \ {c}) \cup {d}) \in Nat
        /\ Cardinality((Places \ {c}) \cup {d}) <= Cardinality(Places \ {c}) + 1
    BY <2>1, OneMore
  <2>3. Cardinality(Places') <= Cardinality((Places \ {c}) \cup {d})
    BY <2>2, FS_Subset
  <2> QED
    BY <1>0, <2>1, <2>2, <2>3 DEF PlaceBound
<1>6. CASE AddedPlace
  <2> PICK c \in Conn : /\ Cardinality(pool) < MaxConnections
                        /\ Places' \subseteq (pool \cup {c}) \cup Shut /\ Shut' = Shut
    BY <1>6 DEF AddedPlace
  <2>1. /\ IsFiniteSet(pool \cup {c}) /\ Cardinality(pool \cup {c}) \in Nat
        /\ Cardinality(pool \cup {c}) <= Cardinality(pool) + 1
    BY <1>0, OneMore
  <2>2. /\ IsFiniteSet((pool \cup {c}) \cup Shut)
        /\ Cardinality((pool \cup {c}) \cup Shut) <= Cardinality(pool \cup {c}) + Cardinality(Shut)
    BY <1>0, <2>1, AtMostBoth
  <2>3. Cardinality((pool \cup {c}) \cup Shut) \in Nat
    BY <2>2, FS_CardinalityType
  <2>4. Cardinality(Places') <= Cardinality((pool \cup {c}) \cup Shut)
    BY <2>2, FS_Subset
  <2> QED
    BY <1>0, <2>1, <2>2, <2>3, <2>4 DEF PlaceBound
<1> QED
  BY <1>1, <1>3, <1>4, <1>5, <1>6 DEF PlaceStep

(* A borrower. *)
LEMMA BorrowerReplaced ==
  ASSUME TypeInv, MakerInv, RebuildOwnership, RebuildInv, NEW b \in Borrower,
         GetWithContext(b) \/ AbandonGet(b) \/ Lookup(b) \/ tryAcquireForTask(b) \/
         StartCreate(b) \/ Create(b) \/ AddNew(b) \/ activateConnection(b) \/
         acquireUse(b) \/ BeginExecute(b) \/ EndExecute(b) \/
         beginHealthCheck(b) \/ defaultHealthCheck(b) \/ recordHealthCheck(b) \/
         Release(b)
  PROVE  RebuildInv'
<1> USE ConnPoolConstants DEF TypeInv, TypeOK, ControlOK, RebuildInv, ReplacedOut, ClosedOnce, Gone,
        ConnectionState, Unseen, Apart, Goto, Proc, connVars, closeVars, BorrowerLabels,
        RebuilderLabels, Holding, Owning
<1>1. CASE GetWithContext(b)
  BY <1>1 DEF GetWithContext
<1>2. CASE AbandonGet(b)
  BY <1>2 DEF AbandonGet
<1>3. CASE Lookup(b)
  BY <1>3 DEF Lookup
<1>4. CASE tryAcquireForTask(b)
  BY <1>4 DEF tryAcquireForTask, Available
<1>5. CASE StartCreate(b)
  BY <1>5 DEF StartCreate
<1>6. CASE Create(b)
  BY <1>6 DEF Create, Fresh
<1>7. CASE AddNew(b)
  BY <1>7 DEF AddNew, Available, MakerInv, MadeUnseen, Made
<1>8. CASE activateConnection(b)
  BY <1>8 DEF activateConnection
<1>9. CASE acquireUse(b)
  BY <1>9 DEF acquireUse
<1>10. CASE BeginExecute(b)
  BY <1>10 DEF BeginExecute
<1>11. CASE EndExecute(b)
  BY <1>11 DEF EndExecute, Transition, CanTransition
<1>12. CASE beginHealthCheck(b)
  BY <1>12 DEF beginHealthCheck
<1>13. CASE defaultHealthCheck(b)
  BY <1>13 DEF defaultHealthCheck
<1>14. CASE recordHealthCheck(b)
  BY <1>14 DEF recordHealthCheck
<1>15. CASE Release(b)
  BY <1>15 DEF Release, release
<1> QED
  BY <1>1, <1>2, <1>3, <1>4, <1>5, <1>6, <1>7, <1>8, <1>9, <1>10, <1>11, <1>12, <1>13, <1>14, <1>15

(* A rebuild worker. *)
LEMMA RebuilderReplaced ==
  ASSUME TypeInv, MakerInv, RebuildOwnership, RebuildInv, NEW r \in Rebuilder,
         findConnectionByID(r) \/ canStartRebuild(r) \/ beginRebuild(r) \/
         beginClose(r) \/ DropDriver(r) \/ RemoveOld(r) \/ completeClose(r) \/
         createReplacementConnection(r) \/ InsertNew(r) \/ completeRebuild(r)
  PROVE  RebuildInv'
<1> USE ConnPoolConstants DEF TypeInv, TypeOK, ControlOK, RebuildInv, ReplacedOut, ClosedOnce, Gone,
        ConnectionState, Unseen, Apart, Goto, Proc, connVars, closeVars, BorrowerLabels,
        RebuilderLabels, Holding, Owning
<1>1. CASE findConnectionByID(r)
  BY <1>1 DEF findConnectionByID, getConnectionsForRebuild
<1>2. CASE canStartRebuild(r)
  BY <1>2 DEF canStartRebuild, sendRebuildEvent
<1>3. CASE beginRebuild(r)
  BY <1>3 DEF beginRebuild
<1>4. CASE beginClose(r)
  BY <1>4 DEF beginClose, Transition, CanTransition, RebuildOwnership, Owner
<1>5. CASE DropDriver(r)
  BY <1>5 DEF DropDriver
<1>6. CASE RemoveOld(r)
  BY <1>6 DEF RemoveOld
<1>7. CASE completeClose(r)
  BY <1>7 DEF completeClose
<1>8. CASE createReplacementConnection(r)
  BY <1>8 DEF createReplacementConnection, Fresh
<1>9. CASE InsertNew(r)
  BY <1>9 DEF InsertNew, MakerInv, MadeUnseen, Made
<1>10. CASE completeRebuild(r)
  BY <1>10 DEF completeRebuild, sendRebuildEvent
<1> QED
  BY <1>1, <1>2, <1>3, <1>4, <1>5, <1>6, <1>7, <1>8, <1>9, <1>10

(* A warm-up goroutine. *)
LEMMA WarmerReplaced ==
  ASSUME TypeInv, MakerInv, RebuildOwnership, RebuildInv, NEW w \in Warmer,
         WarmCreate(w) \/ WarmAdd(w)
  PROVE  RebuildInv'
<1> USE ConnPoolConstants DEF TypeInv, TypeOK, ControlOK, RebuildInv, ReplacedOut, ClosedOnce, Gone,
        ConnectionState, Unseen, Apart, Goto, Proc, connVars, closeVars, BorrowerLabels,
        RebuilderLabels, Holding, Owning
<1>1. CASE WarmCreate(w)
  BY <1>1 DEF WarmCreate, Fresh
<1>2. CASE WarmAdd(w)
  BY <1>2 DEF WarmAdd, MakerInv, MadeUnseen, Made
<1> QED
  BY <1>1, <1>2

(* The steps on one connection. *)
LEMMA ConnectionReplaced ==
  ASSUME TypeInv, MakerInv, RebuildOwnership, RebuildInv, NEW c \in Conn,
         EvaluateAndMark(c) \/ shouldCleanupConnection(c) \/ forceClose(c) \/
         safeClose(c)
  PROVE  RebuildInv'
<1> USE ConnPoolConstants DEF TypeInv, TypeOK, ControlOK, RebuildInv, ReplacedOut, ClosedOnce, Gone,
        ConnectionState, Unseen, Apart, Goto, Proc, connVars, closeVars, BorrowerLabels,
        RebuilderLabels, Holding, Owning
<1>1. CASE EvaluateAndMark(c)
  BY <1>1 DEF EvaluateAndMark, sendRebuildEvent
<1>2. CASE shouldCleanupConnection(c)
  BY <1>2 DEF shouldCleanupConnection
<1>3. CASE forceClose(c)
  BY <1>3 DEF forceClose
<1>4. CASE safeClose(c)
  BY <1>4 DEF safeClose
<1> QED
  BY <1>1, <1>2, <1>3, <1>4

(* The rest of the cleanup and of Close. *)
LEMMA PoolReplaced ==
  ASSUME TypeInv, MakerInv, RebuildOwnership, RebuildInv,
         Evict \/ CloseBegin \/ CloseDrain
  PROVE  RebuildInv'
<1> USE ConnPoolConstants DEF TypeInv, TypeOK, ControlOK, RebuildInv, ReplacedOut, ClosedOnce, Gone,
        ConnectionState, Unseen, Apart, Goto, Proc, connVars, closeVars, BorrowerLabels,
        RebuilderLabels, Holding, Owning
<1>1. CASE Evict
  BY <1>1 DEF Evict
<1>2. CASE CloseBegin
  BY <1>2 DEF CloseBegin
<1>3. CASE CloseDrain
  BY <1>3 DEF CloseDrain, release
<1> QED
  BY <1>1, <1>2, <1>3

LEMMA ReplacedStep ==
  TypeInv /\ MakerInv /\ RebuildOwnership /\ RebuildInv /\ [Next]_vars => RebuildInv'
<1> SUFFICES ASSUME TypeInv, MakerInv, RebuildOwnership, RebuildInv, [Next]_vars PROVE RebuildInv'
  OBVIOUS
<1>1. ASSUME NEW b \in Borrower, BorrowerStep(b) PROVE RebuildInv'
  BY <1>1, BorrowerReplaced DEF BorrowerStep
<1>2. ASSUME NEW r \in Rebuilder, findConnectionByID(r) \/ RebuildStep(r) PROVE RebuildInv'
  BY <1>2, RebuilderReplaced DEF RebuildStep
<1>3. ASSUME NEW w \in Warmer, WarmCreate(w) \/ WarmAdd(w) PROVE RebuildInv'
  BY <1>3, WarmerReplaced
<1>4. ASSUME NEW c \in Conn,
             EvaluateAndMark(c) \/ shouldCleanupConnection(c) \/ forceClose(c) \/ safeClose(c)
      PROVE  RebuildInv'
  BY <1>4, ConnectionReplaced
<1>5. CASE Evict \/ CloseBegin \/ CloseDrain
  BY <1>5, PoolReplaced
<1>6. CASE UNCHANGED vars
  BY <1>6 DEF RebuildInv, ReplacedOut, ClosedOnce, vars, connVars, closeVars
<1> QED
  BY <1>1, <1>2, <1>3, <1>4, <1>5, <1>6 DEF Next

LEMMA SlotBoundStep ==
  TypeInv /\ MakerInv /\ TearInv /\ RebuildOwnership /\ RebuildInv /\ SlotBound /\ PlaceBound
    /\ [Next]_vars => SlotBound' /\ PlaceBound'
BY TypeStep, SlotSteps, SlotStepKeeps, PlaceStepKeeps

LEMMA SlotInit == Init => RebuildInv /\ SlotBound /\ PlaceBound
<1> SUFFICES ASSUME Init PROVE RebuildInv /\ SlotBound /\ PlaceBound
  OBVIOUS
<1>1. TypeInv
  BY TypeInit
<1>2. \A r \in Rebuilder : pc[r] = "out"
  BY ConnPoolConstants DEF Init, Proc
<1>3. Slots = {} /\ Places = {}
  BY <1>2 DEF Init, Slots, Pending, Places, Replacing
<1>4. Cardinality(Slots) = 0 /\ Cardinality(Places) = 0
  BY <1>3, FS_EmptySet
<1> QED
  BY <1>1, <1>2, <1>4, PlacesFinite DEF RebuildInv, ReplacedOut, ClosedOnce, SlotBound, PlaceBound

(* The map exceeds MaxConnections by at most one connection per rebuild    *)
(* worker and per warm-up goroutine that has returned, and by no more than *)
(* one per connection a rebuild has closed, though performCoreRebuild and  *)
(* WarmUp never look at its size and a rebuilt connection may have been    *)
(* evicted and its place taken before its replacement arrives.             *)
THEOREM BoundedPool == Spec => []PoolBound
<1>1. TypeInv /\ SlotBound /\ PlaceBound => PoolBound
  <2> SUFFICES ASSUME TypeInv, SlotBound, PlaceBound PROVE PoolBound
    OBVIOUS
  <2>1. Cardinality(pool) <= Cardinality(Slots) /\ Cardinality(pool) <= Cardinality(Places)
    BY PlacesFinite, FS_Subset DEF Slots, Places
  <2>2. /\ Cardinality(pool) <= MaxConnections + Cardinality(Warmed) + Cardinality(Rebuilder)
        /\ Cardinality(pool) <= MaxConnections + Cardinality(Warmed) + Cardinality(Shut)
    BY <2>1, PlacesFinite DEF SlotBound, PlaceBound
  <2> QED
    BY <2>2 DEF PoolBound, Warmed, Shut, Gone
<1> QED
  BY <1>1, TypeInit, TypeStep, MakerInit, MakerStep, TearInit, TearKept, OwnershipInit, OwnershipStep,
     SlotInit, ReplacedStep, SlotBoundStep, PTL DEF Spec

=============================================================================
