----------------------------- MODULE Aggregator -----------------------------
(***************************************************************************)
(* The way of a result to Zabbix (task/aggregator.go,                      *)
(* task/zabbixSenderHandler.go).  Callbacks submit results to eventChan;   *)
(* workers move them to a buffer; the worker that fills the buffer, the    *)
(* bufferManager on its timer, and Stop at the end flush it: they swap the *)
(* buffer for an empty one under the lock and hand the batch to the        *)
(* handlers.  Of the handlers main installs, two only log, and the third   *)
(* turns the batch into metrics and sends them.  What is in a result is    *)
(* what PingTask makes of the exchange with the router.                    *)
(*                                                                         *)
(* flush first looks at len(buffer) without the lock.  A stale answer is   *)
(* the answer of an earlier look, so the look is a step of its own that    *)
(* reads the current buffer.                                               *)
(***************************************************************************)
EXTENDS PingTask, Sequences, FiniteSets

CONSTANTS
  Result,          \* the results the callbacks have to report, each once
  Exchange,        \* Exchange[r]: the exchange with the router it comes from
  Worker,          \* the worker goroutines
  BufferManager,   \* the goroutine that flushes on a timer
  Stopper,         \* the goroutine of main that runs Stop
  ChanCap,         \* capacity of eventChan
  BufferSize       \* length at which the buffer is flushed

Background == Worker \cup {BufferManager}
Goroutine == Background \cup {Stopper}

(* What goes to Zabbix instead of a percentage. *)
ErrorDetail ==
  (Status \ {"CheckFinished"})
    \cup {"MissingStatusField", "PacketLossOutOfRange", "InvalidPacketLossData"}

ASSUME AggregatorConstants ==
  /\ Exchange \in [Result -> ExchangeType]
  /\ IsFiniteSet(Worker)
  /\ BufferManager \notin Worker /\ Stopper \notin Background
  /\ Goroutine \cap {"eventChan", "buffer", "handled"} = {}
  /\ ChanCap \in Nat
  /\ BufferSize \in Nat \ {0}

VARIABLES
  eventChan,   \* submitted results, in order
  closed,      \* eventChan is closed
  buffer,      \* results waiting for a flush
  local,       \* the results in a goroutine's hands: an event, or a batch
  pc,          \* where each goroutine is
  stage,       \* "up"; "wait", "flush" (what Stop does); "down"
  submitted,   \* results whose callback has called Submit
  accepted,    \* those for which Submit returned nil
  handled,     \* results handed to the handlers, in order
  zabbix       \* metrics Zabbix has stored

vars == <<eventChan, closed, buffer, local, pc, stage, submitted, accepted, handled, zabbix>>

Metric ==
  [result : Result, key : {"dedicatedLinePing"}, value : 0..100]
    \cup [result : Result, key : {"dedicatedLineErrorDetail"}, value : ErrorDetail]

(* The type invariant.  A ping item carries a percentage. *)
TypeOK ==
  /\ eventChan \in Seq(Result) /\ Len(eventChan) <= ChanCap
  /\ closed \in BOOLEAN
  /\ buffer \in Seq(Result)
  /\ local \in [Goroutine -> Seq(Result)]
  /\ pc \in [Goroutine -> {"idle", "append", "check", "swap", "handle", "done"}]
  /\ stage \in {"up", "wait", "flush", "down"}
  /\ submitted \subseteq Result
  /\ accepted \subseteq submitted
  /\ handled \in Seq(Result)
  /\ zabbix \subseteq Metric

Goto(p, l) == pc' = [pc EXCEPT ![p] = l]

(* After Start. *)
Init ==
  /\ eventChan = <<>> /\ closed = FALSE
  /\ buffer = <<>>
  /\ local = [p \in Goroutine |-> <<>>]
  /\ pc = [p \in Goroutine |-> "idle"]
  /\ stage = "up"
  /\ submitted = {} /\ accepted = {}
  /\ handled = <<>> /\ zabbix = {}

-----------------------------------------------------------------------------
(* Fault: no room is no obstacle. *)
SubmitUnbounded(r) ==
  /\ r \notin submitted
  /\ submitted' = submitted \cup {r}
  /\ \/ /\ ~closed
        /\ eventChan' = Append(eventChan, r)
        /\ accepted' = accepted \cup {r}
     \/ stage # "up" /\ UNCHANGED <<eventChan, accepted>>
  /\ UNCHANGED <<closed, buffer, local, pc, stage, handled, zabbix>>

(* Submit takes a ready case of its select: the send, or the cancelled     *)
(* context; it fails when neither is ready because the channel is full.  A *)
(* send on the closed channel panics, which processTask recovers.          *)
Submit(r) ==
  /\ r \notin submitted
  /\ submitted' = submitted \cup {r}
  /\ \/ /\ ~closed /\ Len(eventChan) < ChanCap
        /\ eventChan' = Append(eventChan, r)
        /\ accepted' = accepted \cup {r}
     \/ /\ stage # "up" \/ Len(eventChan) = ChanCap
        /\ UNCHANGED <<eventChan, accepted>>
  /\ UNCHANGED <<closed, buffer, local, pc, stage, handled, zabbix>>

(* worker: an event. *)
Receive(w) ==
  /\ pc[w] = "idle"
  /\ eventChan # <<>>
  /\ local' = [local EXCEPT ![w] = <<Head(eventChan)>>]
  /\ eventChan' = Tail(eventChan)
  /\ Goto(w, "append")
  /\ UNCHANGED <<closed, buffer, stage, submitted, accepted, handled, zabbix>>

(* Fault: workers wait for the channel to be closed, not for stopChan. *)
LeaveOnClose(p) ==
  /\ pc[p] = "idle"
  /\ IF p = BufferManager THEN stage # "up" ELSE closed
  /\ Goto(p, "done")
  /\ UNCHANGED <<eventChan, closed, buffer, local, stage, submitted, accepted, handled, zabbix>>

(* worker, bufferManager: stopChan is closed.  select may take this case   *)
(* although events are waiting.                                            *)
LeaveOnStop(p) ==
  /\ pc[p] = "idle"
  /\ stage # "up"
  /\ Goto(p, "done")
  /\ UNCHANGED <<eventChan, closed, buffer, local, stage, submitted, accepted, handled, zabbix>>

(* Fault: only the append that reaches the size exactly flushes. *)
processEventExactly(w) ==
  /\ pc[w] = "append"
  /\ buffer' = buffer \o local[w]
  /\ local' = [local EXCEPT ![w] = <<>>]
  /\ Goto(w, IF Len(buffer') = BufferSize THEN "check" ELSE "idle")
  /\ UNCHANGED <<eventChan, closed, stage, submitted, accepted, handled, zabbix>>

(* processEvent: append under the lock; flush if the buffer is full. *)
processEvent(w) ==
  /\ pc[w] = "append"
  /\ buffer' = buffer \o local[w]
  /\ local' = [local EXCEPT ![w] = <<>>]
  /\ Goto(w, IF Len(buffer') >= BufferSize THEN "check" ELSE "idle")
  /\ UNCHANGED <<eventChan, closed, stage, submitted, accepted, handled, zabbix>>

(* bufferManager: the timer has expired. *)
TimerFlush ==
  /\ pc[BufferManager] = "idle"
  /\ Goto(BufferManager, "check")
  /\ UNCHANGED <<eventChan, closed, buffer, local, stage, submitted, accepted, handled, zabbix>>

-----------------------------------------------------------------------------
(* flush.  Its callers go on: a worker and the bufferManager with their    *)
(* loop (the timer is set again), Stop with closing the channel.           *)
AfterFlush(p) == IF p = Stopper THEN "done" ELSE "idle"

(* Fault: an empty buffer ends the bufferManager. *)
FlushCheckOnce(p) ==
  /\ pc[p] = "check"
  /\ Goto(p, IF buffer # <<>> THEN "swap"
             ELSE IF p = BufferManager THEN "done" ELSE AfterFlush(p))
  /\ UNCHANGED <<eventChan, closed, buffer, local, stage, submitted, accepted, handled, zabbix>>

(* Look without the lock. *)
FlushCheck(p) ==
  /\ pc[p] = "check"
  /\ Goto(p, IF buffer = <<>> THEN AfterFlush(p) ELSE "swap")
  /\ UNCHANGED <<eventChan, closed, buffer, local, stage, submitted, accepted, handled, zabbix>>

(* Fault: the batch is taken and the buffer kept. *)
FlushSwapKeeping(p) ==
  /\ pc[p] = "swap"
  /\ IF buffer = <<>>
       THEN UNCHANGED local /\ Goto(p, AfterFlush(p))
       ELSE local' = [local EXCEPT ![p] = buffer] /\ Goto(p, "handle")
  /\ UNCHANGED <<eventChan, closed, buffer, stage, submitted, accepted, handled, zabbix>>

(* Under the lock: look again, and swap the buffers. *)
FlushSwap(p) ==
  /\ pc[p] = "swap"
  /\ IF buffer = <<>>
       THEN UNCHANGED <<buffer, local>> /\ Goto(p, AfterFlush(p))
       ELSE /\ local' = [local EXCEPT ![p] = buffer]
            /\ buffer' = <<>>
            /\ Goto(p, "handle")
  /\ UNCHANGED <<eventChan, closed, stage, submitted, accepted, handled, zabbix>>

PingItem(r, v) == [result |-> r, key |-> "dedicatedLinePing", value |-> v]
ErrorItem(r, v) == [result |-> r, key |-> "dedicatedLineErrorDetail", value |-> v]

(* HandleResult: the one metric of an event. *)
MetricOf(r) ==
  LET data == Execute(Exchange[r])
      finished == data.hasStatus /\ data.status = "CheckFinished"
  IN CASE ~data.hasStatus                                    -> ErrorItem(r, "MissingStatusField")
       [] data.hasStatus /\ ~finished                        -> ErrorItem(r, data.status)
       [] finished /\ ~data.hasLoss                          -> ErrorItem(r, "InvalidPacketLossData")
       [] finished /\ data.hasLoss /\ data.packetLoss \in 0..100
                                                             -> PingItem(r, data.packetLoss)
       [] OTHER                                              -> ErrorItem(r, "PacketLossOutOfRange")

(* SendMetrics, external: Zabbix stores all the metrics, or some, or none. *)
SendMetrics(metrics) ==
  \E stored \in SUBSET metrics : zabbix' = zabbix \cup stored

(* HandleResult of the Zabbix handler: what it returns is only logged. *)
HandleResult(events) ==
  SendMetrics({MetricOf(events[i]) : i \in DOMAIN events})

(* handleEvents: the batch goes to every handler. *)
handleEvents(p) ==
  /\ pc[p] = "handle"
  /\ HandleResult(local[p])
  /\ handled' = handled \o local[p]
  /\ local' = [local EXCEPT ![p] = <<>>]
  /\ Goto(p, AfterFlush(p))
  /\ UNCHANGED <<eventChan, closed, buffer, stage, submitted, accepted>>

-----------------------------------------------------------------------------
(* Stop: close stopChan, cancel the context, and wait ... *)
StopBegin ==
  /\ stage = "up"
  /\ stage' = "wait"
  /\ UNCHANGED <<eventChan, closed, buffer, local, pc, submitted, accepted, handled, zabbix>>

(* Fault: the last flush does not wait for the workers. *)
StopWaitForManager ==
  /\ stage = "wait"
  /\ pc[BufferManager] = "done"
  /\ stage' = "flush"
  /\ Goto(Stopper, "check")
  /\ UNCHANGED <<eventChan, closed, buffer, local, submitted, accepted, handled, zabbix>>

(* ... until the goroutines have left; then flush ... *)
StopWait ==
  /\ stage = "wait"
  /\ \A p \in Background : pc[p] = "done"
  /\ stage' = "flush"
  /\ Goto(Stopper, "check")
  /\ UNCHANGED <<eventChan, closed, buffer, local, submitted, accepted, handled, zabbix>>

(* ... and close eventChan. *)
StopEnd ==
  /\ stage = "flush"
  /\ pc[Stopper] = "done"
  /\ stage' = "down"
  /\ closed' = TRUE
  /\ UNCHANGED <<eventChan, buffer, local, pc, submitted, accepted, handled, zabbix>>

Next ==
  \/ \E r \in Result : Submit(r)
  \/ \E w \in Worker : Receive(w) \/ processEvent(w)
  \/ \E p \in Background : LeaveOnStop(p)
  \/ TimerFlush
  \/ \E p \in Goroutine : FlushCheck(p) \/ FlushSwap(p) \/ handleEvents(p)
  \/ StopBegin
  \/ StopWait
  \/ StopEnd

Spec == Init /\ [][Next]_vars

(* The goroutines run, the timer expires and is set again, a send to       *)
(* Zabbix has time limits; nobody has to submit or to stop.  A select that *)
(* keeps finding stopChan closed takes that case in the end, as it chooses *)
(* at random: strong fairness.                                             *)
Fairness ==
  /\ \A w \in Worker : WF_vars(Receive(w)) /\ WF_vars(processEvent(w))
  /\ \A p \in Background : SF_vars(LeaveOnStop(p))
  /\ WF_vars(TimerFlush)
  /\ \A p \in Goroutine :
       WF_vars(FlushCheck(p)) /\ WF_vars(FlushSwap(p)) /\ WF_vars(handleEvents(p))
  /\ WF_vars(StopWait)
  /\ WF_vars(StopEnd)

FairSpec == Spec /\ Fairness

-----------------------------------------------------------------------------
(* The places a result can be in, and what is there. *)
Place == Goroutine \cup {"eventChan", "buffer", "handled"}

Content(l) ==
  CASE l = "eventChan" -> eventChan
    [] l = "buffer"    -> buffer
    [] l = "handled"   -> handled
    [] OTHER           -> local[l]

(* No result is lost or doubled inside the aggregator, whoever flushes and *)
(* whenever Stop comes: an accepted result is at one position of one       *)
(* place, another result is nowhere.                                       *)
HandledOnce ==
  /\ \A r \in Result :
       r \in accepted <=> \E l \in Place : \E i \in DOMAIN Content(l) : Content(l)[i] = r
  /\ \A k, l \in Place : \A i \in DOMAIN Content(k), j \in DOMAIN Content(l) :
       Content(k)[i] = Content(l)[j] => k = l /\ i = j

Flushing == {w \in Worker : pc[w] \in {"check", "swap"}}

(* The buffer outgrows its size only by as many results as there are       *)
(* workers about to flush it: the flush that processEvent asks for is      *)
(* never lost to the unlocked look, and a full buffer never waits for the  *)
(* timer.                                                                  *)
BufferBounded == Len(buffer) < BufferSize + Cardinality(Flushing)

(* When Stop has returned, the buffer is empty and no goroutine has a      *)
(* result in its hands.                                                    *)
StopDrains ==
  stage = "down" => buffer = <<>> /\ \A p \in Goroutine : local[p] = <<>>

(* An accepted result reaches the handlers, unless Stop is called. *)
AcceptedHandled ==
  \A r \in Result :
    r \in accepted ~> ((\E i \in DOMAIN handled : handled[i] = r) \/ stage # "up")

(* Stop returns. *)
StopReturns == (stage = "wait") ~> (stage = "down")

-----------------------------------------------------------------------------
(* A percentage in Zabbix comes from a router's answer, and one above 0    *)
(* from a router that lost requests: a failed check, a cut output or a     *)
(* line without loss never raises a packet loss alarm, on any platform and *)
(* though the parsers look for parts of words.                             *)
NoFalseAlarm ==
  \A m \in zabbix : m.key = "dedicatedLinePing" =>
    LET x == Exchange[m.result]
    IN x.error = "none" /\ (x.summary \/ x.timeouts) /\ (m.value > 0 => x.loss > 0)

(* A line that is down never looks better than it is: if Zabbix gets a     *)
(* percentage for it, it is 100.  The parser for NX-OS does not keep this. *)
DeadLineSeen ==
  \A m \in zabbix : m.key = "dedicatedLinePing" =>
    LET x == Exchange[m.result]
    IN x.loss = 100 /\ x.platform # "cisco_nxos" => m.value = 100

(* The comments of the parsers: the loss is taken from the output ("compute *)
(* the success rate and the loss", "extract the loss").                    *)
LossAsMeasured ==
  \A m \in zabbix :
    m.key = "dedicatedLinePing" => m.value = Exchange[m.result].loss

=============================================================================
