------------------------- MODULE TaskPipelineProofs -------------------------
(***************************************************************************)
(* Theorems about TaskPipeline, for any number of queues, executor workers *)
(* and lines, and any size of the semaphore not above the channel's.       *)
(***************************************************************************)
EXTENDS TaskPipeline, FiniteSetTheorems, TLAPS

-----------------------------------------------------------------------------
(* How many of P are at a label of L, when f says where each one is. *)
Count(f, P, L) == Cardinality({x \in P : f[x] \in L})

(* Moving one element of P changes its count by what that element adds.    *)
LEMMA CountMoves ==
  ASSUME NEW P, IsFiniteSet(P), NEW L, NEW f, NEW g, NEW p \in P,
         \A x \in P \ {p} : g[x] = f[x]
  PROVE  /\ Count(f, P, L) \in Nat
         /\ f[p] \in L /\ g[p] \in L => Count(g, P, L) = Count(f, P, L)
         /\ f[p] \notin L /\ g[p] \notin L => Count(g, P, L) = Count(f, P, L)
         /\ f[p] \notin L /\ g[p] \in L => Count(g, P, L) = Count(f, P, L) + 1
         /\ f[p] \in L /\ g[p] \notin L => Count(f, P, L) > 0 /\ Count(g, P, L) = Count(f, P, L) - 1
<1> DEFINE F == {x \in P : f[x] \in L}
           G == {x \in P : g[x] \in L}
<1>1. IsFiniteSet(F) /\ Cardinality(F) \in Nat
  BY FS_Subset, FS_CardinalityType
<1>2. f[p] \in L /\ g[p] \in L => G = F
  OBVIOUS
<1>3. f[p] \notin L /\ g[p] \notin L => G = F
  OBVIOUS
<1>4. ASSUME f[p] \notin L, g[p] \in L PROVE Cardinality(G) = Cardinality(F) + 1
  <2>1. G = F \cup {p} /\ p \notin F
    BY <1>4
  <2> HIDE DEF F, G
  <2> QED
    BY <1>1, <2>1, FS_AddElement
<1>5. ASSUME f[p] \in L, g[p] \notin L
      PROVE  Cardinality(F) > 0 /\ Cardinality(G) = Cardinality(F) - 1
  <2>1. G = F \ {p} /\ p \in F
    BY <1>5
  <2> HIDE DEF F, G
  <2>2. Cardinality(G) = Cardinality(F) - 1 /\ IsFiniteSet(G)
    BY <1>1, <2>1, FS_RemoveElement
  <2>3. Cardinality(G) \in Nat
    BY <2>2, FS_CardinalityType
  <2> QED
    BY <1>1, <2>2, <2>3
<1> QED
  BY <1>1, <1>2, <1>3, <1>4, <1>5 DEF Count

-----------------------------------------------------------------------------
(***************************************************************************)
(* The inductive invariant: types (sem and leased never go below zero or   *)
(* above the capacity), labels, and who owns the slots and connections.    *)
(***************************************************************************)

ControlOK ==
  /\ \A q \in QueueWorker : pc[q] \in {"new", "idle", "next", "wait", "get", "submit", "done"}
  /\ \A w \in Worker : pc[w] \in {"new", "idle", "running", "callback", "done"}

Asking == Count(pc, QueueWorker, {"get"})
Feeding == Count(pc, QueueWorker, {"get", "submit"})
Serving == Count(pc, Worker, {"running", "callback"})

Owned == sem = Feeding + taskChan + Serving /\ leased + Asking = sem

Inv == TypeOK /\ ControlOK /\ Owned

LEMMA CountTypes == Asking \in Nat /\ Feeding \in Nat /\ Serving \in Nat
<1> DEFINE A == {x \in QueueWorker : pc[x] \in {"get"}}
           F == {x \in QueueWorker : pc[x] \in {"get", "submit"}}
           S == {x \in Worker : pc[x] \in {"running", "callback"}}
<1>1. A \subseteq QueueWorker /\ F \subseteq QueueWorker /\ S \subseteq Worker
  OBVIOUS
<1>2. IsFiniteSet(A) /\ IsFiniteSet(F) /\ IsFiniteSet(S)
  BY <1>1, FS_Subset, TaskPipelineConstants
<1> QED
  BY <1>2, FS_CardinalityType DEF Asking, Feeding, Serving, Count

(* A queue worker that is asking is feeding. *)
LEMMA AskingIsFeeding == Asking <= Feeding
<1> DEFINE A == {x \in QueueWorker : pc[x] \in {"get"}}
           F == {x \in QueueWorker : pc[x] \in {"get", "submit"}}
<1>1. A \subseteq F /\ F \subseteq QueueWorker
  OBVIOUS
<1>2. IsFiniteSet(F)
  BY <1>1, FS_Subset, TaskPipelineConstants
<1> QED
  BY <1>1, <1>2, FS_Subset DEF Asking, Feeding, Count

(* One that is submitting is feeding but no longer asking. *)
LEMMA SubmitterFeeds ==
  ASSUME NEW q \in QueueWorker, pc[q] = "submit"
  PROVE  Asking + 1 <= Feeding
<1> DEFINE A == {x \in QueueWorker : pc[x] \in {"get"}}
           F == {x \in QueueWorker : pc[x] \in {"get", "submit"}}
<1>1. A \subseteq F \ {q} /\ F \subseteq QueueWorker /\ q \in F
  OBVIOUS
<1>2. IsFiniteSet(F)
  BY <1>1, FS_Subset, TaskPipelineConstants
<1> HIDE DEF A, F
<1>3. IsFiniteSet(F \ {q}) /\ Cardinality(F \ {q}) = Cardinality(F) - 1
  BY <1>1, <1>2, FS_RemoveElement
<1>4. Cardinality(A) <= Cardinality(F \ {q})
  BY <1>1, <1>3, FS_Subset
<1>5. Cardinality(A) \in Nat /\ Cardinality(F) \in Nat
  BY CountTypes DEF Asking, Feeding, Count, A, F
<1>6. Cardinality(A) + 1 <= Cardinality(F)
  BY <1>3, <1>4, <1>5
<1> QED
  BY <1>6 DEF Asking, Feeding, Count, A, F

LEMMA InvInit == Init => Inv
<1> SUFFICES ASSUME Init PROVE Inv
  OBVIOUS
<1>1. TypeOK /\ ControlOK
  <2>1. 0 \in 0..MaxConnections /\ 0 \in 0..QueueCap /\ 0 \in 0..NotifyCap /\ 0 \in 0..MaxLines
    BY TaskPipelineConstants
  <2>2. /\ signals \in [QueueWorker -> 0..NotifyCap] /\ todo \in [QueueWorker -> 0..MaxLines]
        /\ sem \in 0..MaxConnections /\ leased \in 0..MaxConnections /\ taskChan \in 0..QueueCap
    BY <2>1, Zenon DEF Init
  <2>3. pc \in [QueueWorker \cup Worker ->
                 {"new", "idle", "next", "wait", "get", "submit", "running", "callback", "done"}]
    BY DEF Init
  <2>4. closed \in BOOLEAN /\ ctxDone \in BOOLEAN /\ crashed \in BOOLEAN
        /\ stage \in {"up", "executor", "queues", "down"}
    BY DEF Init
  <2>5. ControlOK
    BY DEF Init, ControlOK
  <2> QED
    BY <2>2, <2>3, <2>4, <2>5 DEF TypeOK
<1>2. /\ {x \in QueueWorker : pc[x] \in {"get"}} = {}
      /\ {x \in QueueWorker : pc[x] \in {"get", "submit"}} = {}
      /\ {x \in Worker : pc[x] \in {"running", "callback"}} = {}
  BY DEF Init
<1>3. Asking = 0 /\ Feeding = 0 /\ Serving = 0
  BY <1>2, FS_EmptySet DEF Asking, Feeding, Serving, Count
<1> QED
  BY <1>1, <1>3 DEF Init, Inv, Owned

(* A step of a queue worker: its own move, and nothing of the executor's. *)
LEMMA QueueWorkerInv ==
  ASSUME Inv, NEW q \in QueueWorker, QueueWorkerStep(q)
  PROVE  Inv'
<1>1. \A x \in QueueWorker \ {q} : pc'[x] = pc[x]
  BY DEF Inv, TypeOK, QueueWorkerStep, Goto, executeTasksAsync, NextLine, AcquireSlot, GetConnection, Submit, QueueWorkerStop
<1>2. \A x \in Worker : pc'[x] = pc[x]
  BY TaskPipelineConstants DEF Inv, TypeOK, QueueWorkerStep, Goto, executeTasksAsync, NextLine, AcquireSlot, GetConnection, Submit, QueueWorkerStop
<1>3. Serving' = Serving
  <2>1. {x \in Worker : pc'[x] \in {"running", "callback"}} = {x \in Worker : pc[x] \in {"running", "callback"}}
    BY <1>2
  <2> QED
    BY <2>1 DEF Serving, Count
<1>4. /\ pc[q] = "get" /\ pc'[q] = "get" => Asking' = Asking
      /\ pc[q] # "get" /\ pc'[q] # "get" => Asking' = Asking
      /\ pc[q] # "get" /\ pc'[q] = "get" => Asking' = Asking + 1
      /\ pc[q] = "get" /\ pc'[q] # "get" => Asking > 0 /\ Asking' = Asking - 1
  <2>1. IsFiniteSet(QueueWorker)
    BY TaskPipelineConstants
  <2> QED
    BY <1>1, <2>1, CountMoves DEF Asking
<1>5. /\ pc[q] \in {"get", "submit"} /\ pc'[q] \in {"get", "submit"} => Feeding' = Feeding
      /\ pc[q] \notin {"get", "submit"} /\ pc'[q] \notin {"get", "submit"} => Feeding' = Feeding
      /\ pc[q] \notin {"get", "submit"} /\ pc'[q] \in {"get", "submit"} => Feeding' = Feeding + 1
      /\ pc[q] \in {"get", "submit"} /\ pc'[q] \notin {"get", "submit"}
           => Feeding > 0 /\ Feeding' = Feeding - 1
  <2>1. IsFiniteSet(QueueWorker)
    BY TaskPipelineConstants
  <2> QED
    BY <1>1, <2>1, CountMoves DEF Feeding
<1>6. Asking \in Nat /\ Feeding \in Nat /\ Serving \in Nat /\ Asking <= Feeding
  BY CountTypes, AskingIsFeeding
<1> USE TaskPipelineConstants, <1>3, <1>4, <1>5, <1>6 DEF Inv, TypeOK, ControlOK, Owned, Goto
<1>7. CASE executeTasksAsync(q)
  BY <1>7 DEF executeTasksAsync
<1>8. CASE NextLine(q)
  BY <1>8 DEF NextLine
<1>9. CASE AcquireSlot(q)
  BY <1>9 DEF AcquireSlot
<1>10. CASE GetConnection(q)
  BY <1>10 DEF GetConnection
<1>11. CASE Submit(q)
  <2>1. PICK x \in SubmitResults :
          /\ taskChan' = IF x = "sent" THEN taskChan + 1 ELSE taskChan
          /\ leased' = IF x \in {"full", "cancelled"} THEN leased - 1 ELSE leased
          /\ sem' = IF x \in {"full", "cancelled"} THEN sem - 1 ELSE sem
          /\ crashed' = (x = "panic")
          /\ pc' = [pc EXCEPT ![q] = IF x = "panic" THEN "submit" ELSE "next"]
    BY <1>11 DEF Submit
  <2>2. pc[q] = "submit" /\ UNCHANGED <<closed, signals, todo, stage, ctxDone>>
    BY <1>11 DEF Submit
  <2>3. x \in {"sent", "panic", "full", "cancelled"} /\ (x = "sent" => taskChan < QueueCap)
    BY DEF SubmitResults
  <2>4. crashed' \in BOOLEAN
    BY <2>1
  <2>5. CASE x = "sent"
    BY <2>1, <2>2, <2>3, <2>4, <2>5
  <2>6. CASE x = "panic"
    BY <2>1, <2>2, <2>4, <2>6
  <2>7. CASE x \in {"full", "cancelled"}
    <3>1. Asking + 1 <= Feeding
      BY <2>2, SubmitterFeeds
    <3>2. leased \in 1..MaxConnections /\ sem \in 1..MaxConnections
      BY <3>1
    <3> QED
      BY <2>1, <2>2, <2>4, <2>7, <3>2
  <2> QED
    BY <2>3, <2>5, <2>6, <2>7
<1>12. CASE QueueWorkerStop(q)
  BY <1>12 DEF QueueWorkerStop
<1> QED
  BY <1>7, <1>8, <1>9, <1>10, <1>11, <1>12 DEF QueueWorkerStep

(* A step of an executor worker. *)
LEMMA WorkerInv ==
  ASSUME Inv, NEW w \in Worker, WorkerStep(w)
  PROVE  Inv'
<1>1. \A x \in Worker \ {w} : pc'[x] = pc[x]
  BY DEF Inv, TypeOK, WorkerStep, Goto, Receive, processTask, Callback, WorkerStop
<1>2. \A x \in QueueWorker : pc'[x] = pc[x]
  BY TaskPipelineConstants DEF Inv, TypeOK, WorkerStep, Goto, Receive, processTask, Callback, WorkerStop
<1>3. Asking' = Asking /\ Feeding' = Feeding
  <2>1. /\ {x \in QueueWorker : pc'[x] \in {"get"}} = {x \in QueueWorker : pc[x] \in {"get"}}
        /\ {x \in QueueWorker : pc'[x] \in {"get", "submit"}} = {x \in QueueWorker : pc[x] \in {"get", "submit"}}
    BY <1>2
  <2> QED
    BY <2>1 DEF Asking, Feeding, Count
<1>4. /\ pc[w] \in {"running", "callback"} /\ pc'[w] \in {"running", "callback"} => Serving' = Serving
      /\ pc[w] \notin {"running", "callback"} /\ pc'[w] \notin {"running", "callback"} => Serving' = Serving
      /\ pc[w] \notin {"running", "callback"} /\ pc'[w] \in {"running", "callback"} => Serving' = Serving + 1
      /\ pc[w] \in {"running", "callback"} /\ pc'[w] \notin {"running", "callback"}
           => Serving > 0 /\ Serving' = Serving - 1
  <2>1. IsFiniteSet(Worker)
    BY TaskPipelineConstants
  <2> QED
    BY <1>1, <2>1, CountMoves DEF Serving
<1>5. Asking \in Nat /\ Feeding \in Nat /\ Serving \in Nat /\ Asking <= Feeding
  BY CountTypes, AskingIsFeeding
<1> USE TaskPipelineConstants, <1>3, <1>4, <1>5 DEF Inv, TypeOK, ControlOK, Owned, Goto
<1>6. CASE Receive(w)
  BY <1>6 DEF Receive
<1>7. CASE processTask(w)
  BY <1>7 DEF processTask
<1>8. CASE Callback(w)
  BY <1>8 DEF Callback
<1>9. CASE WorkerStop(w)
  BY <1>9 DEF WorkerStop
<1> QED
  BY <1>6, <1>7, <1>8, <1>9 DEF WorkerStep

(* Start moves everybody from "new" to "idle", which own nothing. *)
LEMMA StartInv ==
  ASSUME Inv, Start
  PROVE  Inv'
<1>1. /\ {x \in QueueWorker : pc'[x] \in {"get"}} = {x \in QueueWorker : pc[x] \in {"get"}}
      /\ {x \in QueueWorker : pc'[x] \in {"get", "submit"}} = {x \in QueueWorker : pc[x] \in {"get", "submit"}}
      /\ {x \in Worker : pc'[x] \in {"running", "callback"}} = {x \in Worker : pc[x] \in {"running", "callback"}}
  BY DEF Start
<1>2. Asking' = Asking /\ Feeding' = Feeding /\ Serving' = Serving
  BY <1>1 DEF Asking, Feeding, Serving, Count
<1> QED
  BY <1>2 DEF Inv, TypeOK, ControlOK, Owned, Start

(* The steps that move no goroutine. *)
LEMMA QuietInv ==
  ASSUME Inv,
         \/ \E q \in QueueWorker : Tick(q)
         \/ Cancel \/ StopBegin \/ StopExecutor \/ StopEnd \/ UNCHANGED vars
  PROVE  Inv'
<1>1. UNCHANGED <<pc, sem, leased, taskChan, todo>>
  BY DEF Tick, Cancel, StopBegin, StopExecutor, StopEnd, vars
<1>2. signals' \in [QueueWorker -> 0..NotifyCap]
  BY TaskPipelineConstants DEF Inv, TypeOK, Tick, Cancel, StopBegin, StopExecutor, StopEnd, vars
<1>3. closed' \in BOOLEAN /\ ctxDone' \in BOOLEAN /\ crashed' \in BOOLEAN
      /\ stage' \in {"up", "executor", "queues", "down"}
  BY DEF Inv, TypeOK, Tick, Cancel, StopBegin, StopExecutor, StopEnd, vars
<1>4. Asking' = Asking /\ Feeding' = Feeding /\ Serving' = Serving
  BY <1>1 DEF Asking, Feeding, Serving, Count
<1> QED
  BY <1>1, <1>2, <1>3, <1>4 DEF Inv, TypeOK, ControlOK, Owned

LEMMA InvStep == Inv /\ [Next]_vars => Inv'
<1> SUFFICES ASSUME Inv, [Next]_vars PROVE Inv'
  OBVIOUS
<1>1. ASSUME NEW q \in QueueWorker, QueueWorkerStep(q) PROVE Inv'
  BY <1>1, QueueWorkerInv
<1>2. ASSUME NEW w \in Worker, WorkerStep(w) PROVE Inv'
  BY <1>2, WorkerInv
<1>3. CASE Start
  BY <1>3, StartInv
<1>4. CASE \/ \E q \in QueueWorker : Tick(q)
           \/ Cancel \/ StopBegin \/ StopExecutor \/ StopEnd \/ UNCHANGED vars
  BY <1>4, QuietInv
<1> QED
  BY <1>1, <1>2, <1>3, <1>4 DEF Next

-----------------------------------------------------------------------------
(* The types of all variables: in particular connSemaphore never holds     *)
(* more than its capacity and no goroutine receives from it when it is     *)
(* empty.                                                                  *)
THEOREM PipelineTypeCorrect == Spec => []TypeOK
<1>1. Inv => TypeOK
  BY DEF Inv
<1> QED
  BY InvInit, InvStep, <1>1, PTL DEF Spec

(* No path through executeIndividualPing, Submit, a worker and the         *)
(* callback loses a slot or a connection, or returns one twice, Stop       *)
(* included (it leaves them with the tasks it abandons).                   *)
THEOREM SlotsAndConnectionsOwned == Spec => []ResourcesOwned
<1>1. Inv => ResourcesOwned
  BY DEF Inv, Owned, ResourcesOwned, At, Asking, Feeding, Serving, Count
<1> QED
  BY InvInit, InvStep, <1>1, PTL DEF Spec

(* Submit never answers ErrQueueFull: the task that asks holds one of the  *)
(* MaxConnections slots itself, so fewer than MaxConnections are queued.   *)
THEOREM SubmitNeverFull == Spec => []RoomForEveryTask
<1>1. Inv => RoomForEveryTask
  <2> SUFFICES ASSUME Inv, NEW q \in QueueWorker, pc[q] = "submit" PROVE taskChan < QueueCap
    BY DEF RoomForEveryTask
  <2>1. Feeding > 0
    <3> DEFINE F == {x \in QueueWorker : pc[x] \in {"get", "submit"}}
    <3>1. IsFiniteSet(F) /\ q \in F
      BY FS_Subset, TaskPipelineConstants
    <3>2. Cardinality(F) # 0
      BY <3>1, FS_EmptySet
    <3> QED
      BY <3>2, CountTypes DEF Feeding, Count
  <2> QED
    BY <2>1, CountTypes, TaskPipelineConstants DEF Inv, TypeOK, Owned
<1> QED
  BY InvInit, InvStep, <1>1, PTL DEF Spec

=============================================================================
