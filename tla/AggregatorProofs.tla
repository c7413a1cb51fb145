-------------------------- MODULE AggregatorProofs --------------------------
(***************************************************************************)
(* Theorems about Aggregator, for any results and reports, any number of   *)
(* workers and any capacities.                                             *)
(***************************************************************************)
EXTENDS Aggregator, FiniteSetTheorems, TLAPS

(* A goroutine has results in its hands only where it must. *)
HandsOK ==
  /\ \A p \in Goroutine : pc[p] = "append" => p \in Worker /\ Len(local[p]) = 1
  /\ \A p \in Goroutine : pc[p] \notin {"append", "handle"} => local[p] = <<>>

(* How far Stop is, and what that says of the others and of the buffer. *)
StopOrder ==
  /\ stage \in {"up", "wait"} <=> pc[Stopper] = "idle"
  /\ stage \in {"flush", "down"} => \A p \in Background : pc[p] = "done"
  /\ stage = "down" => pc[Stopper] = "done"
  /\ pc[Stopper] \in {"handle", "done"} => buffer = <<>>

Inv == TypeOK /\ HandsOK /\ StopOrder

-----------------------------------------------------------------------------
(* What the parsers and the executor make of an exchange is a report. *)
LEMMA ReportOK == \A r \in Result : Execute(Exchange[r]) \in ReportType
<1> SUFFICES ASSUME NEW x \in ExchangeType PROVE Execute(x) \in ReportType
  BY AggregatorConstants
<1>1. x.platform \in Platform /\ x.loss \in 0..100
      /\ x.error \in {"none", "deadline", "connection", "other"}
  BY DEF ExchangeType
<1>2. \A l \in Int : Finished(l) \in ReportType
  BY DEF Finished, ReportType, Status
<1>3. FinishedWithoutLoss \in ReportType
  BY DEF FinishedWithoutLoss, ReportType, Status
<1>4. \A s \in Status : Unfinished(s) \in ReportType
  BY DEF Unfinished, ReportType
<1>5. "ParseResultFailed" \in Status /\ "CheckTimeout" \in Status
      /\ "ConnectionError" \in Status /\ "ExecutionError" \in Status
  BY DEF Status
<1> HIDE DEF Finished, FinishedWithoutLoss, Unfinished, ReportType, Status
<1>6. ParseOutput(x) \in ReportType
  BY <1>1, <1>2, <1>3, <1>4, <1>5 DEF ParseOutput, parseCiscoOutput, parseCiscoNxosOutput,
     parseHuaweiOutput, parseH3COutput, Platform
<1> QED
  BY <1>1, <1>4, <1>5, <1>6 DEF Execute

(* Every report becomes a metric. *)
LEMMA MetricType == \A r \in Result : MetricOf(r) \in Metric
<1> SUFFICES ASSUME NEW r \in Result PROVE MetricOf(r) \in Metric
  OBVIOUS
<1> DEFINE d == Execute(Exchange[r])
<1>1. d \in ReportType
  BY ReportOK
<1>2. d.packetLoss \in Int /\ d.status \in Status
      /\ d.hasStatus \in BOOLEAN /\ d.hasLoss \in BOOLEAN
  BY <1>1 DEF ReportType
<1>3. \A v \in 0..100 : PingItem(r, v) \in Metric
  BY DEF PingItem, Metric
<1>4. \A v \in ErrorDetail : ErrorItem(r, v) \in Metric
  BY DEF ErrorItem, Metric
<1>5. d.status # "CheckFinished" => d.status \in ErrorDetail
  BY <1>2 DEF Status, ErrorDetail
<1>6. "MissingStatusField" \in ErrorDetail /\ "PacketLossOutOfRange" \in ErrorDetail
      /\ "InvalidPacketLossData" \in ErrorDetail
  BY DEF ErrorDetail
<1> HIDE DEF d, PingItem, ErrorItem, Metric, ErrorDetail
<1>7. MetricOf(r) =
        LET finished == d.hasStatus /\ d.status = "CheckFinished"
        IN CASE ~d.hasStatus                    -> ErrorItem(r, "MissingStatusField")
             [] d.hasStatus /\ ~finished        -> ErrorItem(r, d.status)
             [] finished /\ ~d.hasLoss          -> ErrorItem(r, "InvalidPacketLossData")
             [] finished /\ d.hasLoss /\ d.packetLoss \in 0..100
                                                -> PingItem(r, d.packetLoss)
             [] OTHER                           -> ErrorItem(r, "PacketLossOutOfRange")
  BY DEF MetricOf, d
<1> QED
  BY <1>2, <1>3, <1>4, <1>5, <1>6, <1>7

LEMMA InitInv == Init => Inv
<1> SUFFICES ASSUME Init PROVE Inv
  OBVIOUS
<1>1. TypeOK
  <2>1. local \in [Goroutine -> Seq(Result)] /\ eventChan \in Seq(Result)
        /\ buffer \in Seq(Result) /\ handled \in Seq(Result)
    BY DEF Init
  <2>2. Len(eventChan) <= ChanCap
    BY AggregatorConstants DEF Init
  <2>3. pc \in [Goroutine -> {"idle", "append", "check", "swap", "handle", "done"}]
    BY DEF Init
  <2>4. closed \in BOOLEAN /\ stage \in {"up", "wait", "flush", "down"}
    BY DEF Init
  <2>5. submitted \subseteq Result /\ accepted \subseteq submitted /\ zabbix \subseteq Metric
    BY DEF Init
  <2> QED
    BY <2>1, <2>2, <2>3, <2>4, <2>5 DEF TypeOK
<1>2. HandsOK
  BY DEF Init, HandsOK
<1>3. StopOrder
  BY DEF Init, StopOrder, Goroutine
<1> QED
  BY <1>1, <1>2, <1>3 DEF Inv

LEMMA NextInv == Inv /\ [Next]_vars => Inv'
<1> SUFFICES ASSUME Inv, [Next]_vars PROVE Inv'
  OBVIOUS
<1> USE AggregatorConstants DEF Inv, TypeOK, HandsOK, StopOrder, Goroutine, Background
<1>1. ASSUME NEW r \in Result, Submit(r) PROVE Inv'
  <2>1. eventChan' \in Seq(Result) /\ Len(eventChan') <= ChanCap
    <3>1. CASE eventChan' = eventChan
      BY <3>1
    <3>2. CASE Len(eventChan) < ChanCap /\ eventChan' = Append(eventChan, r)
      BY <3>2
    <3> QED
      BY <1>1, <3>1, <3>2 DEF Submit
  <2>2. submitted' \subseteq Result /\ accepted' \subseteq submitted'
    BY <1>1 DEF Submit
  <2> QED
    BY <1>1, <2>1, <2>2 DEF Submit
<1>2. ASSUME NEW w \in Worker, Receive(w) PROVE Inv'
  BY <1>2 DEF Receive, Goto
<1>3. ASSUME NEW w \in Worker, processEvent(w) PROVE Inv'
  BY <1>3 DEF processEvent, Goto
<1>4. ASSUME NEW p \in Background, LeaveOnStop(p) PROVE Inv'
  BY <1>4 DEF LeaveOnStop, Goto
<1>5. ASSUME TimerFlush PROVE Inv'
  BY <1>5 DEF TimerFlush, Goto
<1>6. ASSUME NEW p \in Goroutine, FlushCheck(p) PROVE Inv'
  BY <1>6 DEF FlushCheck, Goto, AfterFlush
<1>7. ASSUME NEW p \in Goroutine, FlushSwap(p) PROVE Inv'
  BY <1>7 DEF FlushSwap, Goto, AfterFlush
<1>8. ASSUME NEW p \in Goroutine, handleEvents(p) PROVE Inv'
  <2>1. zabbix' \subseteq Metric
    BY <1>8, MetricType DEF handleEvents, HandleResult, SendMetrics
  <2> HIDE DEF Metric
  <2> QED
    BY <1>8, <2>1 DEF handleEvents, Goto, AfterFlush
<1>9. ASSUME StopBegin PROVE Inv'
  BY <1>9 DEF StopBegin
<1>10. ASSUME StopWait PROVE Inv'
  BY <1>10 DEF StopWait, Goto
<1>11. ASSUME StopEnd PROVE Inv'
  BY <1>11 DEF StopEnd
<1>12. ASSUME UNCHANGED vars PROVE Inv'
  BY <1>12 DEF vars
<1> QED
  BY <1>1, <1>2, <1>3, <1>4, <1>5, <1>6, <1>7, <1>8, <1>9, <1>10, <1>11, <1>12 DEF Next

(***************************************************************************)
(* Type correctness: in particular eventChan stays within its capacity and *)
(* Zabbix is only sent percentages and known errors, whatever the reports. *)
(***************************************************************************)
THEOREM AggregatorTypeCorrect == Spec => []TypeOK
<1>1. Inv => TypeOK
  BY DEF Inv
<1> QED
  BY InitInv, NextInv, <1>1, PTL DEF Spec

(* When Stop has returned, the buffer and every goroutine's hands are      *)
(* empty: no append follows the last flush.                                *)
THEOREM StoppedDrained == Spec => []StopDrains
<1>1. Inv => StopDrains
  BY AggregatorConstants DEF Inv, StopDrains, HandsOK, StopOrder, Goroutine, Background
<1> QED
  BY InitInv, NextInv, <1>1, PTL DEF Spec

-----------------------------------------------------------------------------
(***************************************************************************)
(* Where the results are.  Every action but Submit moves results from the  *)
(* front of one place to the end of another, or leaves them alone.         *)
(***************************************************************************)
Contents == [l \in Place |-> Content(l)]

Once(C, a) ==
  /\ \A r \in Result :
       r \in a <=> \E l \in Place : \E i \in DOMAIN C[l] : C[l][i] = r
  /\ \A k, l \in Place : \A i \in DOMAIN C[k], j \in DOMAIN C[l] :
       C[k][i] = C[l][j] => k = l /\ i = j

(* n results move from the front of s to the end of t. *)
Moves(C, D, s, t, n) ==
  /\ \A l \in Place \ {s, t} : D[l] = C[l]
  /\ n \in 0..Len(C[s])
  /\ Len(D[s]) = Len(C[s]) - n
  /\ \A i \in 1..Len(D[s]) : D[s][i] = C[s][i + n]
  /\ Len(D[t]) = Len(C[t]) + n
  /\ \A i \in 1..Len(C[t]) : D[t][i] = C[t][i]
  /\ \A i \in 1..n : D[t][Len(C[t]) + i] = C[s][i]

LEMMA MovesKeepOnce ==
  ASSUME NEW C \in [Place -> Seq(Result)], NEW D \in [Place -> Seq(Result)],
         NEW s \in Place, NEW t \in Place, s # t, NEW n \in Nat, NEW a,
         Moves(C, D, s, t, n), Once(C, a)
  PROVE  Once(D, a)
<1> DEFINE from(l, i) == IF l = t /\ i > Len(C[t]) THEN s ELSE l
           pos(l, i) == IF l = t /\ i > Len(C[t]) THEN i - Len(C[t])
                        ELSE IF l = s THEN i + n ELSE i
<1>1. \A l \in Place : DOMAIN C[l] = 1..Len(C[l]) /\ DOMAIN D[l] = 1..Len(D[l])
                       /\ Len(C[l]) \in Nat /\ Len(D[l]) \in Nat
  OBVIOUS
<1>2. ASSUME NEW l \in Place, NEW i \in DOMAIN D[l]
      PROVE  /\ from(l, i) \in Place /\ pos(l, i) \in DOMAIN C[from(l, i)]
             /\ D[l][i] = C[from(l, i)][pos(l, i)]
  <2>1. CASE l = t /\ i > Len(C[t])
    <3>1. from(l, i) = s /\ pos(l, i) = i - Len(C[t])
      BY <2>1
    <3>2. i \in 1..Len(D[t])
      BY <1>1, <2>1
    <3>3. i - Len(C[t]) \in 1..n /\ i - Len(C[t]) \in 1..Len(C[s])
      BY <1>1, <2>1, <3>2 DEF Moves
    <3>4. D[t][Len(C[t]) + (i - Len(C[t]))] = C[s][i - Len(C[t])]
      BY <3>3 DEF Moves
    <3>5. Len(C[t]) + (i - Len(C[t])) = i
      BY <1>1, <3>2
    <3> QED
      BY <1>1, <2>1, <3>1, <3>3, <3>4, <3>5
  <2>2. CASE l = t /\ ~(i > Len(C[t]))
    <3>1. from(l, i) = t /\ pos(l, i) = i
      BY <2>2
    <3>2. i \in 1..Len(C[t])
      BY <1>1, <2>2
    <3>3. D[t][i] = C[t][i]
      BY <3>2 DEF Moves
    <3> QED
      BY <1>1, <2>2, <3>1, <3>2, <3>3
  <2>3. CASE l = s
    <3>1. from(l, i) = s /\ pos(l, i) = i + n
      BY <2>3
    <3>2. i \in 1..Len(D[s])
      BY <1>1, <2>3
    <3>3. D[s][i] = C[s][i + n]
      BY <3>2 DEF Moves
    <3>4. i + n \in 1..Len(C[s])
      <4>1. Len(D[s]) = Len(C[s]) - n
        BY DEF Moves
      <4> QED
        BY <1>1, <3>2, <4>1
    <3> QED
      BY <1>1, <2>3, <3>1, <3>3, <3>4
  <2>4. CASE l \notin {s, t}
    <3>1. from(l, i) = l /\ pos(l, i) = i /\ D[l] = C[l]
      BY <2>4 DEF Moves
    <3> QED
      BY <3>1
  <2> QED
    BY <2>1, <2>2, <2>3, <2>4
<1>3. ASSUME NEW k \in Place, NEW l \in Place, NEW i \in DOMAIN D[k], NEW j \in DOMAIN D[l],
             from(k, i) = from(l, j), pos(k, i) = pos(l, j)
      PROVE  k = l /\ i = j
  BY <1>1, <1>3 DEF Moves
<1>4. ASSUME NEW k \in Place, NEW i \in DOMAIN C[k]
      PROVE  \E l \in Place : \E j \in DOMAIN D[l] : D[l][j] = C[k][i]
  <2>1. CASE k \notin {s, t}
    BY <2>1 DEF Moves
  <2>2. CASE k = t
    <3>1. i \in 1..Len(C[t])
      BY <1>1, <2>2
    <3>2. D[t][i] = C[t][i] /\ i \in 1..Len(D[t])
      BY <1>1, <3>1 DEF Moves
    <3> QED
      BY <1>1, <2>2, <3>2
  <2>3. CASE k = s /\ i <= n
    <3>1. Len(C[t]) + i \in DOMAIN D[t] /\ D[t][Len(C[t]) + i] = C[s][i]
      BY <1>1, <2>3 DEF Moves
    <3> QED
      BY <2>3, <3>1
  <2>4. CASE k = s /\ i > n
    <3>1. i - n \in DOMAIN D[s] /\ (i - n) + n = i
      BY <1>1, <2>4 DEF Moves
    <3>2. D[s][i - n] = C[s][i]
      BY <1>1, <3>1 DEF Moves
    <3> QED
      BY <2>4, <3>1, <3>2
  <2> QED
    BY <1>1, <2>1, <2>2, <2>3, <2>4
<1> HIDE DEF from, pos
<1>5. ASSUME NEW r \in Result
      PROVE  r \in a <=> \E l \in Place : \E i \in DOMAIN D[l] : D[l][i] = r
  BY <1>2, <1>4 DEF Once
<1>6. ASSUME NEW k \in Place, NEW l \in Place, NEW i \in DOMAIN D[k], NEW j \in DOMAIN D[l],
             D[k][i] = D[l][j]
      PROVE  k = l /\ i = j
  <2>1. C[from(k, i)][pos(k, i)] = C[from(l, j)][pos(l, j)]
    BY <1>2, <1>6
  <2>2. from(k, i) = from(l, j) /\ pos(k, i) = pos(l, j)
    BY <1>2, <2>1 DEF Once
  <2> QED
    BY <1>3, <2>2
<1> QED
  BY <1>5, <1>6 DEF Once

(* All that is in s moves. *)
LEMMA AllMove ==
  ASSUME NEW C \in [Place -> Seq(Result)], NEW D \in [Place -> Seq(Result)],
         NEW s \in Place, NEW t \in Place, s # t,
         \A l \in Place \ {s, t} : D[l] = C[l],
         D[s] = <<>>, D[t] = C[t] \o C[s]
  PROVE  Len(C[s]) \in Nat /\ Moves(C, D, s, t, Len(C[s]))
<1>1. C[s] \in Seq(Result) /\ C[t] \in Seq(Result) /\ Len(C[s]) \in Nat /\ Len(C[t]) \in Nat
  OBVIOUS
<1>2. Len(D[s]) = Len(C[s]) - Len(C[s]) /\ Len(D[s]) = 0
  BY <1>1
<1>3. Len(D[t]) = Len(C[t]) + Len(C[s])
  BY <1>1
<1>4. \A i \in 1..Len(C[t]) : D[t][i] = C[t][i]
  BY <1>1
<1>5. \A i \in 1..Len(C[s]) : D[t][Len(C[t]) + i] = C[s][i]
  BY <1>1
<1> QED
  BY <1>1, <1>2, <1>3, <1>4, <1>5 DEF Moves

(* What Contents says of the variables. *)
ContentsRead ==
  /\ Contents \in [Place -> Seq(Result)]
  /\ Contents["eventChan"] = eventChan
  /\ Contents["buffer"] = buffer
  /\ Contents["handled"] = handled
  /\ \A p \in Goroutine : Contents[p] = local[p]

LEMMA ContentsType == TypeOK => ContentsRead
<1> SUFFICES ASSUME TypeOK PROVE ContentsRead
  OBVIOUS
<1>1. \A p \in Goroutine : p # "eventChan" /\ p # "buffer" /\ p # "handled"
  BY AggregatorConstants
<1>2. \A p \in Goroutine : Content(p) = local[p]
  BY <1>1 DEF Content
<1>3. Content("eventChan") = eventChan /\ Content("buffer") = buffer
      /\ Content("handled") = handled
  BY DEF Content
<1>4. \A l \in Place : Content(l) \in Seq(Result)
  BY <1>2, <1>3 DEF Place, TypeOK
<1> QED
  BY <1>2, <1>3, <1>4 DEF ContentsRead, Contents, Place

LEMMA OnceIsHandledOnce == HandledOnce <=> Once(Contents, accepted)
<1>1. \A l \in Place : Contents[l] = Content(l)
  BY DEF Contents
<1> HIDE DEF Contents
<1> QED
  BY <1>1 DEF HandledOnce, Once

(* A step that leaves every place alone. *)
LEMMA SameContents ==
  ASSUME UNCHANGED <<eventChan, buffer, handled, local, accepted>>, Once(Contents, accepted)
  PROVE  Once(Contents, accepted)'
<1>1. Contents' = Contents
  BY DEF Contents, Content
<1> QED
  BY <1>1

LEMMA NextOnce ==
  ASSUME Inv, Inv', Once(Contents, accepted), [Next]_vars
  PROVE  Once(Contents, accepted)'
<1> DEFINE C == Contents
           D == Contents'
<1>1. TypeOK /\ TypeOK'
  BY DEF Inv
<1>2. /\ C \in [Place -> Seq(Result)]
      /\ C["eventChan"] = eventChan /\ C["buffer"] = buffer /\ C["handled"] = handled
      /\ \A p \in Goroutine : C[p] = local[p]
  BY <1>1, ContentsType DEF ContentsRead
<1>3. /\ D \in [Place -> Seq(Result)]
      /\ D["eventChan"] = eventChan' /\ D["buffer"] = buffer' /\ D["handled"] = handled'
      /\ \A p \in Goroutine : D[p] = local'[p]
  <2>1. (TypeOK => ContentsRead)'
    BY ContentsType, PTL
  <2> QED
    BY <1>1, <2>1 DEF ContentsRead
<1>4. /\ Goroutine \subseteq Place
      /\ "eventChan" \in Place /\ "buffer" \in Place /\ "handled" \in Place
      /\ \A l \in Place : l \in Goroutine \/ l = "eventChan" \/ l = "buffer" \/ l = "handled"
      /\ \A p \in Goroutine : p # "eventChan" /\ p # "buffer" /\ p # "handled"
      /\ Worker \subseteq Goroutine
  BY AggregatorConstants DEF Place, Goroutine, Background
<1>5. local \in [Goroutine -> Seq(Result)] /\ eventChan \in Seq(Result)
      /\ buffer \in Seq(Result) /\ handled \in Seq(Result)
      /\ accepted \subseteq submitted
  BY <1>1 DEF TypeOK
<1> HIDE DEF C, D
<1>6. SUFFICES Once(C, accepted) => Once(D, accepted')
  BY DEF C, D
<1>7. Once(C, accepted)
  BY DEF C
<1>8. ASSUME NEW s \in Place, NEW t \in Place, s # t, NEW n \in Nat, Moves(C, D, s, t, n),
             accepted' = accepted
      PROVE  Once(D, accepted')
  BY <1>2, <1>3, <1>7, <1>8, MovesKeepOnce
<1>9. ASSUME UNCHANGED <<eventChan, buffer, handled, local, accepted>>
      PROVE  Once(D, accepted')
  BY <1>9, SameContents DEF C, D
<1>10. ASSUME NEW r \in Result, Submit(r) PROVE Once(D, accepted')
  <2>1. CASE UNCHANGED <<eventChan, accepted>>
    BY <1>9, <1>10, <2>1 DEF Submit
  <2>2. CASE eventChan' = Append(eventChan, r) /\ accepted' = accepted \cup {r}
    <3>1. r \notin accepted
      BY <1>5, <1>10 DEF Submit
    <3>2. \A l \in Place \ {"eventChan"} : D[l] = C[l]
      BY <1>2, <1>3, <1>4, <1>10 DEF Submit
    <3>3. /\ Len(D["eventChan"]) = Len(C["eventChan"]) + 1
          /\ \A i \in 1..Len(C["eventChan"]) : D["eventChan"][i] = C["eventChan"][i]
          /\ D["eventChan"][Len(C["eventChan"]) + 1] = r
      BY <1>2, <1>3, <1>5, <2>2
    <3>4. \A l \in Place : \A i \in DOMAIN C[l] : C[l][i] # r
      BY <1>7, <3>1 DEF Once
    <3>5. \A l \in Place : /\ DOMAIN C[l] = 1..Len(C[l]) /\ DOMAIN D[l] = 1..Len(D[l])
                           /\ Len(C[l]) \in Nat
      BY <1>2, <1>3
    <3>6. ASSUME NEW l \in Place, NEW i \in DOMAIN D[l]
          PROVE  \/ i \in DOMAIN C[l] /\ D[l][i] = C[l][i]
                 \/ l = "eventChan" /\ i = Len(C["eventChan"]) + 1 /\ D[l][i] = r
      <4>1. CASE l = "eventChan"
        <5>1. i \in 1..(Len(C["eventChan"]) + 1)
          BY <3>3, <3>5, <4>1
        <5>2. i \in 1..Len(C["eventChan"]) \/ i = Len(C["eventChan"]) + 1
          BY <1>4, <3>5, <5>1
        <5> QED
          BY <1>4, <3>3, <3>5, <4>1, <5>2
      <4>2. CASE l # "eventChan"
        BY <3>2, <4>2
      <4> QED
        BY <4>1, <4>2
    <3>7. ASSUME NEW l \in Place, NEW i \in DOMAIN C[l]
          PROVE  i \in DOMAIN D[l] /\ D[l][i] = C[l][i]
      <4>1. CASE l = "eventChan"
        <5>1. i \in 1..Len(C["eventChan"])
          BY <3>5, <4>1
        <5>2. i \in 1..Len(D["eventChan"])
          BY <1>4, <3>3, <3>5, <5>1
        <5> QED
          BY <3>3, <3>5, <4>1, <5>1, <5>2
      <4>2. CASE l # "eventChan"
        BY <3>2, <4>2
      <4> QED
        BY <4>1, <4>2
    <3>8. Len(C["eventChan"]) + 1 \in DOMAIN D["eventChan"]
      BY <1>4, <3>3, <3>5
    <3>9. ASSUME NEW x \in Result
          PROVE  x \in accepted' <=> \E l \in Place : \E i \in DOMAIN D[l] : D[l][i] = x
      BY <1>4, <1>7, <2>2, <3>3, <3>6, <3>7, <3>8 DEF Once
    <3>10. ASSUME NEW k \in Place, NEW l \in Place, NEW i \in DOMAIN D[k],
                  NEW j \in DOMAIN D[l], D[k][i] = D[l][j]
           PROVE  k = l /\ i = j
      BY <1>7, <3>4, <3>6, <3>10 DEF Once
    <3> QED
      BY <3>9, <3>10 DEF Once
  <2> QED
    BY <1>10, <2>1, <2>2 DEF Submit
<1>11. ASSUME NEW w \in Worker, Receive(w) PROVE Once(D, accepted')
  <2>1. local[w] = <<>> /\ eventChan # <<>>
    BY <1>4, <1>11 DEF Receive, Inv, HandsOK
  <2>2. \A l \in Place \ {"eventChan", w} : D[l] = C[l]
    BY <1>2, <1>3, <1>4, <1>5, <1>11 DEF Receive
  <2>3. D["eventChan"] = Tail(C["eventChan"]) /\ D[w] = <<Head(C["eventChan"])>> /\ C[w] = <<>>
    BY <1>2, <1>3, <1>4, <1>5, <1>11, <2>1 DEF Receive
  <2>4. Moves(C, D, "eventChan", w, 1)
    <3>1. /\ 1 \in 0..Len(C["eventChan"])
          /\ Len(D["eventChan"]) = Len(C["eventChan"]) - 1
          /\ \A i \in 1..Len(D["eventChan"]) : D["eventChan"][i] = C["eventChan"][i + 1]
      BY <1>2, <1>5, <2>1, <2>3
    <3>2. Len(C[w]) = 0 /\ Len(D[w]) = 1 /\ D[w][1] = C["eventChan"][1]
      BY <1>2, <1>5, <2>1, <2>3
    <3> QED
      BY <2>2, <3>1, <3>2 DEF Moves
  <2> QED
    BY <1>4, <1>8, <1>11, <2>4 DEF Receive
<1>12. ASSUME NEW w \in Worker, processEvent(w) PROVE Once(D, accepted')
  <2>1. local' = [local EXCEPT ![w] = <<>>] /\ buffer' = buffer \o local[w]
        /\ UNCHANGED <<eventChan, handled, accepted>>
    BY <1>12 DEF processEvent
  <2>2. /\ \A l \in Place \ {w, "buffer"} : D[l] = C[l]
        /\ D[w] = <<>> /\ D["buffer"] = C["buffer"] \o C[w]
    BY <1>2, <1>3, <1>4, <1>5, <2>1
  <2>3. Len(C[w]) \in Nat /\ Moves(C, D, w, "buffer", Len(C[w]))
    BY <1>2, <1>3, <1>4, <2>2, AllMove
  <2> QED
    BY <1>4, <1>8, <2>1, <2>3
<1>13. ASSUME NEW p \in Goroutine, FlushSwap(p) PROVE Once(D, accepted')
  <2>1. CASE buffer = <<>>
    BY <1>9, <1>13, <2>1 DEF FlushSwap
  <2>2. CASE buffer # <<>>
    <3>1. local[p] = <<>> /\ local' = [local EXCEPT ![p] = buffer] /\ buffer' = <<>>
          /\ UNCHANGED <<eventChan, handled, accepted>>
      BY <1>13, <2>2 DEF FlushSwap, Inv, HandsOK
    <3>2. /\ \A l \in Place \ {"buffer", p} : D[l] = C[l]
          /\ D["buffer"] = <<>> /\ D[p] = buffer /\ C[p] = <<>> /\ C["buffer"] = buffer
      BY <1>2, <1>3, <1>4, <1>5, <3>1
    <3>3. D[p] = C[p] \o C["buffer"]
      BY <1>5, <3>2
    <3>4. Len(C["buffer"]) \in Nat /\ Moves(C, D, "buffer", p, Len(C["buffer"]))
      BY <1>2, <1>3, <1>4, <3>2, <3>3, AllMove
    <3> QED
      BY <1>4, <1>8, <3>1, <3>4
  <2> QED
    BY <2>1, <2>2
<1>14. ASSUME NEW p \in Goroutine, handleEvents(p) PROVE Once(D, accepted')
  <2>1. local' = [local EXCEPT ![p] = <<>>] /\ handled' = handled \o local[p]
        /\ UNCHANGED <<eventChan, buffer, accepted>>
    BY <1>14 DEF handleEvents
  <2>2. /\ \A l \in Place \ {p, "handled"} : D[l] = C[l]
        /\ D[p] = <<>> /\ D["handled"] = C["handled"] \o C[p]
    BY <1>2, <1>3, <1>4, <1>5, <2>1
  <2>3. Len(C[p]) \in Nat /\ Moves(C, D, p, "handled", Len(C[p]))
    BY <1>2, <1>3, <1>4, <2>2, AllMove
  <2> QED
    BY <1>4, <1>8, <2>1, <2>3
<1>15. CASE \/ \E p \in Background : LeaveOnStop(p)
            \/ TimerFlush \/ StopBegin \/ StopWait \/ StopEnd
            \/ \E p \in Goroutine : FlushCheck(p)
            \/ UNCHANGED vars
  BY <1>9, <1>15 DEF LeaveOnStop, TimerFlush, StopBegin, StopWait, StopEnd, FlushCheck, vars
<1> QED
  BY <1>10, <1>11, <1>12, <1>13, <1>14, <1>15 DEF Next

(***************************************************************************)
(* However the flushes of the workers, the bufferManager and Stop overlap, *)
(* an accepted result is at exactly one position: it is not lost between   *)
(* the channel and the handlers, and no handler gets it twice.             *)
(***************************************************************************)
THEOREM ResultsHandledOnce == Spec => []HandledOnce
<1> DEFINE J == Inv /\ Once(Contents, accepted)
<1>1. Init => J
  <2> SUFFICES ASSUME Init PROVE J
    OBVIOUS
  <2>1. Inv
    BY InitInv
  <2>2. \A l \in Place : Contents[l] = <<>>
    BY DEF Init, Contents, Content, Place
  <2>3. Once(Contents, accepted)
    <3> HIDE DEF Contents
    <3> QED
      BY <2>2 DEF Init, Once
  <2> QED
    BY <2>1, <2>3
<1>2. J /\ [Next]_vars => J'
  BY NextInv, NextOnce
<1>3. J => HandledOnce
  BY OnceIsHandledOnce
<1> QED
  BY <1>1, <1>2, <1>3, PTL DEF Spec

-----------------------------------------------------------------------------
(* A step that moves one goroutine changes the number of flushing workers  *)
(* by at most that one.                                                    *)
LEMMA FlushingMoves ==
  ASSUME TypeOK, NEW p \in Goroutine, NEW m, pc' = [pc EXCEPT ![p] = m]
  PROVE  /\ IsFiniteSet(Flushing) /\ Cardinality(Flushing) \in Nat
         /\ Cardinality(Flushing') \in Nat
         /\ p \in Worker /\ pc[p] \notin {"check", "swap"} /\ m \in {"check", "swap"}
              => Cardinality(Flushing') = Cardinality(Flushing) + 1
         /\ p \notin Worker \/ (pc[p] \in {"check", "swap"} <=> m \in {"check", "swap"})
              => Cardinality(Flushing') = Cardinality(Flushing)
<1>1. /\ \A x \in Worker : x \in Goroutine
      /\ \A x \in Goroutine : x # p => pc'[x] = pc[x]
      /\ pc'[p] = m
  BY DEF TypeOK, Goroutine, Background
<1>2. Flushing \subseteq Worker /\ Flushing' \subseteq Worker
  BY DEF Flushing
<1>3. IsFiniteSet(Flushing) /\ IsFiniteSet(Flushing')
  BY <1>2, FS_Subset, AggregatorConstants
<1>4. Cardinality(Flushing) \in Nat /\ Cardinality(Flushing') \in Nat
  BY <1>3, FS_CardinalityType
<1>5. ASSUME p \in Worker, pc[p] \notin {"check", "swap"}, m \in {"check", "swap"}
      PROVE  Cardinality(Flushing') = Cardinality(Flushing) + 1
  <2>1. Flushing' = Flushing \cup {p} /\ p \notin Flushing
    BY <1>1, <1>5 DEF Flushing
  <2> QED
    BY <1>3, <2>1, FS_AddElement
<1>6. ASSUME p \notin Worker \/ (pc[p] \in {"check", "swap"} <=> m \in {"check", "swap"})
      PROVE  Flushing' = Flushing
  BY <1>1, <1>6 DEF Flushing
<1> QED
  BY <1>3, <1>4, <1>5, <1>6

LEMMA LenOfConcat ==
  ASSUME NEW S, NEW a \in Seq(S), NEW b \in Seq(S)
  PROVE  Len(a \o b) = Len(a) + Len(b)
OBVIOUS

LEMMA NextBounded ==
  ASSUME Inv, BufferBounded, [Next]_vars
  PROVE  BufferBounded'
<1>1. /\ TypeOK /\ buffer \in Seq(Result) /\ Len(buffer) \in Nat
      /\ BufferSize \in Nat \ {0} /\ Len(buffer) < BufferSize + Cardinality(Flushing)
      /\ Worker \subseteq Goroutine
  BY AggregatorConstants DEF Inv, TypeOK, BufferBounded, Goroutine, Background
<1>2. ASSUME UNCHANGED <<buffer, pc>> PROVE BufferBounded'
  BY <1>2, BufferBounded DEF BufferBounded, Flushing
<1>3. ASSUME buffer' = <<>>, NEW p \in Goroutine, NEW m, Goto(p, m) PROVE BufferBounded'
  <2>1. Cardinality(Flushing') \in Nat
    BY <1>1, <1>3, FlushingMoves DEF Goto
  <2>2. Len(buffer') = 0
    BY <1>3
  <2> QED
    BY <1>1, <2>1, <2>2 DEF BufferBounded
<1>4. ASSUME buffer' = buffer, NEW p \in Goroutine, NEW m, Goto(p, m),
             p \notin Worker \/ (pc[p] \in {"check", "swap"} <=> m \in {"check", "swap"})
      PROVE  BufferBounded'
  <2>1. Cardinality(Flushing') = Cardinality(Flushing)
    BY <1>1, <1>4, FlushingMoves DEF Goto
  <2> QED
    BY <1>1, <1>4, <2>1 DEF BufferBounded
<1>5. CASE \E r \in Result : Submit(r)
  BY <1>2, <1>5 DEF Submit
<1>6. ASSUME NEW w \in Worker, Receive(w) PROVE BufferBounded'
  BY <1>1, <1>4, <1>6 DEF Receive
<1>7. ASSUME NEW w \in Worker, processEvent(w) PROVE BufferBounded'
  <2>1. Len(local[w]) = 1 /\ local[w] \in Seq(Result)
    BY <1>1, <1>7 DEF processEvent, Inv, HandsOK, TypeOK
  <2>2. Len(buffer') = Len(buffer) + 1
    <3>1. buffer' = buffer \o local[w]
      BY <1>7 DEF processEvent
    <3>2. Len(buffer \o local[w]) = Len(buffer) + Len(local[w])
      BY <1>1, <2>1, LenOfConcat
    <3> QED
      BY <2>1, <3>1, <3>2
  <2>3. CASE Len(buffer') >= BufferSize
    <3>1. pc' = [pc EXCEPT ![w] = "check"] /\ pc[w] = "append"
      BY <1>7, <2>3 DEF processEvent, Goto
    <3>2. Cardinality(Flushing') = Cardinality(Flushing) + 1 /\ Cardinality(Flushing) \in Nat
      BY <1>1, <3>1, FlushingMoves
    <3> QED
      BY <1>1, <2>2, <3>2 DEF BufferBounded
  <2>4. CASE ~(Len(buffer') >= BufferSize)
    <3>1. pc' = [pc EXCEPT ![w] = "idle"]
      BY <1>7, <2>4 DEF processEvent, Goto
    <3>2. Cardinality(Flushing') \in Nat
      BY <1>1, <3>1, FlushingMoves
    <3> QED
      BY <1>1, <2>2, <2>4, <3>2 DEF BufferBounded
  <2> QED
    BY <2>3, <2>4
<1>8. ASSUME NEW p \in Background, LeaveOnStop(p) PROVE BufferBounded'
  BY <1>4, <1>8 DEF LeaveOnStop, Goroutine
<1>9. ASSUME TimerFlush PROVE BufferBounded'
  BY <1>4, <1>9, AggregatorConstants DEF TimerFlush, Goroutine, Background
<1>10. ASSUME NEW p \in Goroutine, FlushCheck(p) PROVE BufferBounded'
  <2>1. CASE buffer = <<>>
    BY <1>3, <1>10, <2>1 DEF FlushCheck
  <2>2. CASE buffer # <<>>
    BY <1>4, <1>10, <2>2 DEF FlushCheck
  <2> QED
    BY <2>1, <2>2
<1>11. ASSUME NEW p \in Goroutine, FlushSwap(p) PROVE BufferBounded'
  <2>1. buffer' = <<>> /\ \E m \in {"handle", AfterFlush(p)} : Goto(p, m)
    BY <1>11 DEF FlushSwap
  <2> QED
    BY <1>3, <2>1
<1>12. ASSUME NEW p \in Goroutine, handleEvents(p) PROVE BufferBounded'
  BY <1>4, <1>12 DEF handleEvents, AfterFlush
<1>13. CASE StopBegin \/ StopEnd \/ UNCHANGED vars
  BY <1>2, <1>13 DEF StopBegin, StopEnd, vars
<1>14. CASE StopWait
  BY <1>4, <1>14, AggregatorConstants DEF StopWait, Goroutine, Background
<1> QED
  BY <1>5, <1>6, <1>7, <1>8, <1>9, <1>10, <1>11, <1>12, <1>13, <1>14 DEF Next

(***************************************************************************)
(* The buffer holds less than BufferSize results and one per worker that   *)
(* is about to flush it.                                                   *)
(***************************************************************************)
THEOREM BufferIsBounded == Spec => []BufferBounded
<1> DEFINE J == Inv /\ BufferBounded
<1>1. Init => J
  <2> SUFFICES ASSUME Init PROVE J
    OBVIOUS
  <2>1. Flushing = {} /\ Len(buffer) = 0
    BY DEF Init, Flushing, Goroutine, Background
  <2>2. Cardinality(Flushing) = 0
    BY <2>1, FS_EmptySet
  <2> QED
    BY <2>1, <2>2, InitInv, AggregatorConstants DEF BufferBounded
<1>2. J /\ [Next]_vars => J'
  BY NextInv, NextBounded
<1> QED
  BY <1>1, <1>2, PTL DEF Spec

-----------------------------------------------------------------------------
(***************************************************************************)
(* What Zabbix is told.                                                    *)
(***************************************************************************)

(* A percentage comes from a finished check with a loss. *)
LEMMA PercentageOf ==
  ASSUME NEW r \in Result, MetricOf(r).key = "dedicatedLinePing"
  PROVE  /\ MetricOf(r) = PingItem(r, Execute(Exchange[r]).packetLoss)
         /\ Execute(Exchange[r]).hasLoss
<1> DEFINE d == Execute(Exchange[r])
<1>1. \A v : ErrorItem(r, v).key # "dedicatedLinePing"
  BY DEF ErrorItem
<1> HIDE DEF d, PingItem, ErrorItem
<1>2. \/ \E v : MetricOf(r) = ErrorItem(r, v)
      \/ MetricOf(r) = PingItem(r, d.packetLoss) /\ d.hasLoss
  BY DEF MetricOf, d
<1> QED
  BY <1>1, <1>2 DEF d

(* The loss a platform's parser finds, against the one measured. *)
LEMMA LossFound ==
  ASSUME NEW x \in ExchangeType, Execute(x).hasLoss
  PROVE  /\ x.error = "none"
         /\ x.summary \/ x.timeouts
         /\ Execute(x).packetLoss > 0 => x.loss > 0
         /\ x.loss = 100 /\ x.platform # "cisco_nxos" => Execute(x).packetLoss = 100
         /\ \/ Execute(x).packetLoss = x.loss
            \/ x.platform # "h3c_comware" /\ EndsInZero(x.loss)
            \/ x.platform = "huawei_vrp" /\ x.timeouts
<1>1. x.platform \in Platform /\ x.loss \in 0..100 /\ (x.timeouts => x.loss > 0)
      /\ x.error \in {"none", "deadline", "connection", "other"}
  BY DEF ExchangeType
<1>2. \A s : Unfinished(s).hasLoss = FALSE
  BY DEF Unfinished
<1>3. FinishedWithoutLoss.hasLoss = FALSE
  BY DEF FinishedWithoutLoss
<1>4. \A l : Finished(l).packetLoss = l
  BY DEF Finished
<1> HIDE DEF Unfinished, FinishedWithoutLoss, Finished
<1>5. x.error = "none" /\ Execute(x) = ParseOutput(x)
  BY <1>1, <1>2 DEF Execute
<1>6. ParseOutput(x).hasLoss
  BY <1>5
<1>7. CASE x.platform \in {"cisco_iosxe", "cisco_iosxr"}
  <2>1. ParseOutput(x) = parseCiscoOutput(x)
    BY <1>7 DEF ParseOutput
  <2> QED
    BY <1>1, <1>2, <1>4, <1>5, <1>6, <1>7, <2>1 DEF parseCiscoOutput, EndsInZero
<1>8. CASE x.platform = "cisco_nxos"
  <2>1. ParseOutput(x) = parseCiscoNxosOutput(x)
    BY <1>8 DEF ParseOutput
  <2> QED
    BY <1>1, <1>2, <1>3, <1>4, <1>5, <1>6, <1>8, <2>1 DEF parseCiscoNxosOutput
<1>9. CASE x.platform = "huawei_vrp"
  <2>1. ParseOutput(x) = parseHuaweiOutput(x)
    BY <1>9 DEF ParseOutput
  <2> QED
    BY <1>1, <1>2, <1>4, <1>5, <1>6, <1>9, <2>1 DEF parseHuaweiOutput
<1>10. CASE x.platform = "h3c_comware"
  <2>1. ParseOutput(x) = parseH3COutput(x)
    BY <1>10 DEF ParseOutput
  <2> QED
    BY <1>1, <1>2, <1>4, <1>5, <1>6, <2>1 DEF parseH3COutput
<1> QED
  BY <1>1, <1>7, <1>8, <1>9, <1>10 DEF Platform

(* Zabbix stores nothing but the metrics of results. *)
Sent == zabbix \subseteq {MetricOf(r) : r \in Result}

LEMMA SentInv == Spec => []Sent
<1>1. Init => Sent
  BY DEF Init, Sent
<1>2. Inv /\ Sent /\ [Next]_vars => Sent'
  <2> SUFFICES ASSUME Inv, Sent, [Next]_vars PROVE Sent'
    OBVIOUS
  <2>1. CASE zabbix' = zabbix
    BY <2>1 DEF Sent
  <2>2. ASSUME NEW p \in Goroutine, handleEvents(p) PROVE Sent'
    <3>1. local[p] \in Seq(Result)
      BY DEF Inv, TypeOK
    <3>2. \A i \in DOMAIN local[p] : local[p][i] \in Result
      BY <3>1
    <3> HIDE DEF MetricOf
    <3> QED
      BY <2>2, <3>2 DEF handleEvents, HandleResult, SendMetrics, Sent
  <2> QED
    BY <2>1, <2>2 DEF Next, vars, Submit, Receive, processEvent, LeaveOnStop, TimerFlush,
       FlushCheck, FlushSwap, StopBegin, StopWait, StopEnd
<1> QED
  BY InitInv, NextInv, <1>1, <1>2, PTL DEF Spec

(* What Zabbix stores of a result. *)
LEMMA StoredPercentage ==
  ASSUME Sent, NEW m \in zabbix, m.key = "dedicatedLinePing"
  PROVE  /\ m.result \in Result
         /\ Execute(Exchange[m.result]).hasLoss
         /\ m.value = Execute(Exchange[m.result]).packetLoss
<1>1. PICK r \in Result : m = MetricOf(r)
  BY DEF Sent
<1>2. m = PingItem(r, Execute(Exchange[r]).packetLoss) /\ Execute(Exchange[r]).hasLoss
  BY <1>1, PercentageOf
<1>3. m.result = r /\ m.value = Execute(Exchange[r]).packetLoss
  BY <1>2 DEF PingItem
<1> QED
  BY <1>2, <1>3

(***************************************************************************)
(* No false alarm, whatever the platforms and the exchanges: a percentage  *)
(* above 0 is stored only for a line that lost requests.                   *)
(***************************************************************************)
THEOREM AlarmsAreReal == Spec => []NoFalseAlarm
<1>1. Sent => NoFalseAlarm
  <2> SUFFICES ASSUME Sent, NEW m \in zabbix, m.key = "dedicatedLinePing"
               PROVE  /\ Exchange[m.result].error = "none"
                      /\ Exchange[m.result].summary \/ Exchange[m.result].timeouts
                      /\ m.value > 0 => Exchange[m.result].loss > 0
    BY DEF NoFalseAlarm
  <2>1. Exchange[m.result] \in ExchangeType
    BY StoredPercentage, AggregatorConstants
  <2> QED
    BY StoredPercentage, LossFound, <2>1
<1> QED
  BY SentInv, <1>1, PTL

(***************************************************************************)
(* A dead line is stored as dead, for every exchange on every platform but *)
(* NX-OS.                                                                  *)
(***************************************************************************)
THEOREM DeadLinesAreSeen == Spec => []DeadLineSeen
<1>1. Sent => DeadLineSeen
  <2> SUFFICES ASSUME Sent, NEW m \in zabbix, m.key = "dedicatedLinePing",
                      Exchange[m.result].loss = 100,
                      Exchange[m.result].platform # "cisco_nxos"
               PROVE  m.value = 100
    BY DEF DeadLineSeen
  <2>1. Exchange[m.result] \in ExchangeType
    BY StoredPercentage, AggregatorConstants
  <2> QED
    BY StoredPercentage, LossFound, <2>1
<1> QED
  BY SentInv, <1>1, PTL

(* A percentage is the one measured, unless it is a multiple of ten on a   *)
(* platform whose parser looks for a "0" before the percent sign, or a VRP *)
(* router listed a request that timed out.                                 *)
MeasuredUnlessRound ==
  \A m \in zabbix : m.key = "dedicatedLinePing" =>
    LET x == Exchange[m.result]
    IN  \/ m.value = x.loss
        \/ x.platform # "h3c_comware" /\ EndsInZero(x.loss)
        \/ x.platform = "huawei_vrp" /\ x.timeouts

(***************************************************************************)
(* How far the finding of the run ping_loss reaches: for every exchange    *)
(* and every platform, what Zabbix stores differs from the loss measured   *)
(* in those cases only (the parsers of ping.go).                           *)
(***************************************************************************)
THEOREM OnlyRoundLossesWrong == Spec => []MeasuredUnlessRound
<1>1. Sent => MeasuredUnlessRound
  <2> SUFFICES ASSUME Sent, NEW m \in zabbix, m.key = "dedicatedLinePing"
               PROVE  \/ m.value = Exchange[m.result].loss
                      \/ /\ Exchange[m.result].platform # "h3c_comware"
                         /\ EndsInZero(Exchange[m.result].loss)
                      \/ /\ Exchange[m.result].platform = "huawei_vrp"
                         /\ Exchange[m.result].timeouts
    BY DEF MeasuredUnlessRound
  <2>1. Exchange[m.result] \in ExchangeType
    BY StoredPercentage, AggregatorConstants
  <2> QED
    BY StoredPercentage, LossFound, <2>1
<1> QED
  BY SentInv, <1>1, PTL

=============================================================================
