---------------------------- MODULE TaskPipeline ----------------------------
(***************************************************************************)
(* The tasks of one router: the queue workers of RouterScheduler           *)
(* (manager/router_scheduler.go), fed by the tickers of their interval     *)
(* queues (manager/interval_queue.go), hand ping tasks to the workers of   *)
(* AsyncExecutor (task/async_executor.go).  A task needs a slot of         *)
(* connSemaphore and a connection of the pool; both travel with it and are *)
(* given back by its callback.                                             *)
(*                                                                         *)
(* Tasks are interchangeable: the channel is the number of tasks in it,    *)
(* the pool the number of connections leased to tasks.  Go's select takes  *)
(* any ready case, its default only if none is ready.                      *)
(***************************************************************************)
EXTENDS Naturals, FiniteSets

CONSTANTS
  QueueWorker,      \* one goroutine per interval queue
  Worker,           \* the goroutines of AsyncExecutor
  MaxConnections,   \* capacity of connSemaphore
  QueueCap,         \* capacity of taskChan (ten times the workers)
  NotifyCap,        \* capacity of execNotify
  MaxLines          \* bound: lines of one interval queue

ASSUME TaskPipelineConstants ==
  /\ IsFiniteSet(QueueWorker) /\ IsFiniteSet(Worker)
  /\ QueueWorker \cap Worker = {}
  /\ MaxConnections \in Nat \ {0}
  /\ QueueCap \in Nat /\ QueueCap >= MaxConnections
  /\ NotifyCap \in Nat \ {0}
  /\ MaxLines \in Nat

VARIABLES
  sem,        \* slots taken in connSemaphore
  leased,     \* connections of the pool that tasks have
  taskChan,   \* tasks waiting in the executor's channel
  closed,     \* taskChan is closed
  signals,    \* signals buffered in each queue's execNotify
  todo,       \* lines of its snapshot a queue worker has still to ping
  pc,         \* where each goroutine is
  stage,      \* "up", "executor" and "queues" (what Stop waits for), "down"
  ctxDone,    \* routerCtx is cancelled
  crashed     \* an unrecovered panic has ended the process

vars == <<sem, leased, taskChan, closed, signals, todo, pc, stage, ctxDone, crashed>>

Goto(p, l) == pc' = [pc EXCEPT ![p] = l]

TypeOK ==
  /\ sem \in 0..MaxConnections
  /\ leased \in 0..MaxConnections
  /\ taskChan \in 0..QueueCap
  /\ closed \in BOOLEAN
  /\ signals \in [QueueWorker -> 0..NotifyCap]
  /\ todo \in [QueueWorker -> 0..MaxLines]
  /\ pc \in [QueueWorker \cup Worker ->
               {"new", "idle", "next", "wait", "get", "submit", "running", "callback", "done"}]
  /\ stage \in {"up", "executor", "queues", "down"}
  /\ ctxDone \in BOOLEAN
  /\ crashed \in BOOLEAN

Init ==
  /\ sem = 0 /\ leased = 0 /\ taskChan = 0
  /\ closed = FALSE
  /\ signals = [q \in QueueWorker |-> 0]
  /\ todo = [q \in QueueWorker |-> 0]
  /\ pc = [p \in QueueWorker \cup Worker |-> "new"]
  /\ stage = "up"
  /\ ctxDone = FALSE
  /\ crashed = FALSE

stopping == stage # "up"   \* both stopChans closed, the executor's context cancelled

-----------------------------------------------------------------------------
(* Start, run by a goroutine of its own: Stop may come first. *)
Start ==
  /\ \A p \in QueueWorker \cup Worker : pc[p] = "new"
  /\ QueueWorker \cup Worker # {}
  /\ pc' = [p \in QueueWorker \cup Worker |-> "idle"]
  /\ UNCHANGED <<sem, leased, taskChan, closed, signals, todo, stage, ctxDone, crashed>>

(* schedule: a tick is a signal, or lost when the buffer is full. *)
Tick(q) ==
  /\ stage \in {"up", "executor"}
  /\ signals[q] < NotifyCap
  /\ signals' = [signals EXCEPT ![q] = @ + 1]
  /\ UNCHANGED <<sem, leased, taskChan, closed, todo, pc, stage, ctxDone, crashed>>

(* executeTasksAsync: the snapshot of the queue's lines, once a task type  *)
(* has been found for the router.                                          *)
executeTasksAsync(q) ==
  /\ pc[q] = "idle"
  /\ signals[q] > 0
  /\ signals' = [signals EXCEPT ![q] = @ - 1]
  /\ \E n \in 0..MaxLines : todo' = [todo EXCEPT ![q] = n]
  /\ Goto(q, "next")
  /\ UNCHANGED <<sem, leased, taskChan, closed, stage, ctxDone, crashed>>

(* The loop over the snapshot; it does not look at stopChan. *)
NextLine(q) ==
  /\ pc[q] = "next"
  /\ Goto(q, IF todo[q] = 0 THEN "idle" ELSE "wait")
  /\ todo' = [todo EXCEPT ![q] = IF @ = 0 THEN 0 ELSE @ - 1]
  /\ UNCHANGED <<sem, leased, taskChan, closed, signals, stage, ctxDone, crashed>>

(* Fault: the wait for a slot does not watch the context. *)
AcquireSlotBlindly(q) ==
  /\ pc[q] = "wait"
  /\ sem < MaxConnections
  /\ sem' = sem + 1
  /\ Goto(q, "get")
  /\ UNCHANGED <<leased, taskChan, closed, signals, todo, stage, ctxDone, crashed>>

(* Fault: one slot too many. *)
AcquireSlotPlusOne(q) ==
  /\ pc[q] = "wait"
  /\ \/ sem <= MaxConnections /\ sem' = sem + 1 /\ Goto(q, "get")
     \/ ctxDone /\ UNCHANGED sem /\ Goto(q, "next")
  /\ UNCHANGED <<leased, taskChan, closed, signals, todo, stage, ctxDone, crashed>>

(* executeIndividualPing 1: take a slot, or give up when the context ends. *)
AcquireSlot(q) ==
  /\ pc[q] = "wait"
  /\ \/ sem < MaxConnections /\ sem' = sem + 1 /\ Goto(q, "get")
     \/ ctxDone /\ UNCHANGED sem /\ Goto(q, "next")
  /\ UNCHANGED <<leased, taskChan, closed, signals, todo, stage, ctxDone, crashed>>

(* executeIndividualPing 2: the pool gives a connection, or an error (it   *)
(* is busy, closed or its context is cancelled) that returns the slot.     *)
GetConnection(q) ==
  /\ pc[q] = "get"
  /\ \/ ~ctxDone /\ stage # "down" /\ leased' = leased + 1 /\ UNCHANGED sem /\ Goto(q, "submit")
     \/ sem' = sem - 1 /\ UNCHANGED leased /\ Goto(q, "next")
  /\ UNCHANGED <<taskChan, closed, signals, todo, stage, ctxDone, crashed>>

(* AsyncExecutor.Submit: what its select may do. *)
SubmitResults ==
  LET ready == {x \in {"sent", "panic", "cancelled"} :
                  \/ x = "sent"      /\ ~closed /\ taskChan < QueueCap
                  \/ x = "panic"     /\ closed
                  \/ x = "cancelled" /\ stopping}
  IN IF ready = {} THEN {"full"} ELSE ready

(* Fault: the error path releases the connection and keeps the slot. *)
SubmitKeepingSlot(q) ==
  /\ pc[q] = "submit"
  /\ \E x \in SubmitResults :
       /\ taskChan' = IF x = "sent" THEN taskChan + 1 ELSE taskChan
       /\ leased' = IF x \in {"full", "cancelled"} THEN leased - 1 ELSE leased
       /\ crashed' = (x = "panic")
       /\ Goto(q, IF x = "panic" THEN "submit" ELSE "next")
  /\ UNCHANGED <<sem, closed, signals, todo, stage, ctxDone>>

(* executeIndividualPing 4: submit; an error gives both resources back. *)
Submit(q) ==
  /\ pc[q] = "submit"
  /\ \E x \in SubmitResults :
       /\ taskChan' = IF x = "sent" THEN taskChan + 1 ELSE taskChan
       /\ leased' = IF x \in {"full", "cancelled"} THEN leased - 1 ELSE leased
       /\ sem' = IF x \in {"full", "cancelled"} THEN sem - 1 ELSE sem
       /\ crashed' = (x = "panic")
       /\ Goto(q, IF x = "panic" THEN "submit" ELSE "next")
  /\ UNCHANGED <<closed, signals, todo, stage, ctxDone>>

(* A queue worker sees stopChan between two rounds. *)
QueueWorkerStop(q) ==
  /\ pc[q] = "idle"
  /\ stopping
  /\ Goto(q, "done")
  /\ UNCHANGED <<sem, leased, taskChan, closed, signals, todo, stage, ctxDone, crashed>>

-----------------------------------------------------------------------------
(* worker: take a task. *)
Receive(w) ==
  /\ pc[w] = "idle"
  /\ taskChan > 0
  /\ taskChan' = taskChan - 1
  /\ Goto(w, "running")
  /\ UNCHANGED <<sem, leased, closed, signals, todo, stage, ctxDone, crashed>>

(* Executor.Execute returns: a result, an error or its timeout. *)
processTask(w) ==
  /\ pc[w] = "running"
  /\ Goto(w, "callback")
  /\ UNCHANGED <<sem, leased, taskChan, closed, signals, todo, stage, ctxDone, crashed>>

(* Fault: the callback releases the connection only. *)
CallbackKeepingSlot(w) ==
  /\ pc[w] = "callback"
  /\ leased' = leased - 1
  /\ Goto(w, "idle")
  /\ UNCHANGED <<sem, taskChan, closed, signals, todo, stage, ctxDone, crashed>>

(* The callback gives back the connection, then the slot, and hands the    *)
(* result to the aggregator.                                               *)
Callback(w) ==
  /\ pc[w] = "callback"
  /\ leased' = leased - 1
  /\ sem' = sem - 1
  /\ Goto(w, "idle")
  /\ UNCHANGED <<taskChan, closed, signals, todo, stage, ctxDone, crashed>>

(* worker: stopChan (taskChan is closed only after it). *)
WorkerStop(w) ==
  /\ pc[w] = "idle"
  /\ stopping
  /\ Goto(w, "done")
  /\ UNCHANGED <<sem, leased, taskChan, closed, signals, todo, stage, ctxDone, crashed>>

-----------------------------------------------------------------------------
(* Manager.Stop cancels the context of its schedulers before it stops      *)
(* them; a scheduler removed for want of lines is stopped without.         *)
Cancel ==
  /\ ~ctxDone
  /\ ctxDone' = TRUE
  /\ UNCHANGED <<sem, leased, taskChan, closed, signals, todo, pc, stage, crashed>>

(* Stop: close both stopChans and cancel the executor's context. *)
StopBegin ==
  /\ stage = "up"
  /\ stage' = "executor"
  /\ UNCHANGED <<sem, leased, taskChan, closed, signals, todo, pc, ctxDone, crashed>>

(* asyncExecutor.Stop: its workers are gone; close taskChan with whatever  *)
(* is in it, then stop the tickers.                                        *)
StopExecutor ==
  /\ stage = "executor"
  /\ \A w \in Worker : pc[w] \in {"new", "done"}
  /\ closed' = TRUE
  /\ stage' = "queues"
  /\ UNCHANGED <<sem, leased, taskChan, signals, todo, pc, ctxDone, crashed>>

(* The queue workers are gone; close the pool. *)
StopEnd ==
  /\ stage = "queues"
  /\ \A q \in QueueWorker : pc[q] \in {"new", "done"}
  /\ stage' = "down"
  /\ UNCHANGED <<sem, leased, taskChan, closed, signals, todo, pc, ctxDone, crashed>>

QueueWorkerStep(q) ==
  \/ executeTasksAsync(q) \/ NextLine(q) \/ AcquireSlot(q) \/ GetConnection(q)
  \/ Submit(q) \/ QueueWorkerStop(q)

WorkerStep(w) == Receive(w) \/ processTask(w) \/ Callback(w) \/ WorkerStop(w)

Next ==
  /\ ~crashed
  /\ \/ Start
     \/ \E q \in QueueWorker : Tick(q) \/ QueueWorkerStep(q)
     \/ \E w \in Worker : WorkerStep(w)
     \/ Cancel
     \/ StopBegin
     \/ StopExecutor
     \/ StopEnd

Spec == Init /\ [][Next]_vars

(***************************************************************************)
(* Fairness.  Goroutines run; Execute has a timeout (WithSmartTimeout); a  *)
(* blocked send on connSemaphore is served first in, first out; select     *)
(* chooses among ready cases at random, so that a closed stopChan is not   *)
(* passed over for ever.  Nothing obliges a ticker to tick or Stop to be   *)
(* called.                                                                 *)
(***************************************************************************)
Fairness ==
  /\ \A q \in QueueWorker : /\ WF_vars(~crashed /\ QueueWorkerStep(q))
                            /\ SF_vars(~crashed /\ AcquireSlot(q))
                            /\ SF_vars(~crashed /\ QueueWorkerStop(q))
  /\ \A w \in Worker : /\ WF_vars(~crashed /\ WorkerStep(w))
                       /\ SF_vars(~crashed /\ WorkerStop(w))
  /\ WF_vars(~crashed /\ StopExecutor)
  /\ WF_vars(~crashed /\ StopEnd)

FairSpec == Spec /\ Fairness

-----------------------------------------------------------------------------
At(P, labels) == {p \in P : pc[p] \in labels}

(* Every taken slot belongs to one goroutine or one queued task, and every *)
(* leased connection to one that also has a slot: no path of               *)
(* executeIndividualPing or of the callback loses one or returns it twice  *)
(* (a second receive from connSemaphore would block its goroutine).        *)
ResourcesOwned ==
  /\ sem = Cardinality(At(QueueWorker, {"get", "submit"})) + taskChan
           + Cardinality(At(Worker, {"running", "callback"}))
  /\ leased + Cardinality(At(QueueWorker, {"get"})) = sem

(* A task that has its slot and its connection finds room in the channel:  *)
(* ErrQueueFull cannot happen, because connSemaphore is the narrower       *)
(* bound.                                                                  *)
RoomForEveryTask == \A q \in QueueWorker : pc[q] = "submit" => taskChan < QueueCap

(* When all slots are taken one is given back, until Stop: the monitoring  *)
(* of a router does not seize up.                                          *)
SlotsComeBack ==
  sem = MaxConnections ~> (sem < MaxConnections \/ stopping \/ crashed)

(* Stop returns, provided that the context of the router is cancelled, as  *)
(* Manager.Stop does first: then no queue worker waits for a slot that a   *)
(* task left in taskChan keeps for ever.                                   *)
StopReturns == (stopping /\ ctxDone) ~> (stage = "down" \/ crashed)

=============================================================================
