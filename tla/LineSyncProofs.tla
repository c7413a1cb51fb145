---------------------------- MODULE LineSyncProofs ----------------------------
(***************************************************************************)
(* Proofs about LineSync, for any lines, routers, intervals, templates and  *)
(* any number of syncs: a router with lines has a running scheduler, a      *)
(* scheduler without lines has a timer that holds it, the lines have the    *)
(* settings of the nearest level, every variable keeps its type, no line is *)
(* listed twice, and a full sync repairs what lost events have spoilt.      *)
(***************************************************************************)
EXTENDS LineSync, LineConfigProofs

\* The part of the type invariant the arguments below need.
Types ==
  /\ lines \in LineMap
  /\ batch \in [1..MaxSyncs -> SUBSET Event]
  /\ inbox \in Seq(Event)
  /\ snap \in SUBSET LineMap
  /\ rl \in [Router -> Seq(Entry)]
  /\ timers \in [Router -> Seq(Nat)]
  /\ cur \in [Router -> Nat]
  /\ \A r \in Router : cur[r] <= Len(timers[r])
  /\ running \in [Router -> SUBSET Nat]

\* The scheduler in the map, if any, is one that was not stopped.
MapRuns == \A r \in Router : HasScheduler(r) => cur[r] \in running[r]

\* A router with lines has a scheduler in the map.
MapHasLines ==
  \A r \in Router \ InvalidRouter : rl[r] # << >> => HasScheduler(r)

IInv == Types /\ MapRuns /\ MapHasLines /\ EmptySchedulerTimed

\* EntriesOf, as fullSync groups the lines, gives finitely many list entries.
LEMMA EntriesFinite ==
  ASSUME NEW m \in LineMap, NEW r \in Router
  PROVE  EntriesOf(m, r) \subseteq Entry /\ IsFiniteSet(EntriesOf(m, r))
<1> DEFINE D == {k \in DOMAIN m : m[k].router = r}
           f == [l \in D |-> [line |-> l, interval |-> m[l].interval]]
<1>1. PICK S \in SUBSET Line : m \in [S -> Setting]
  BY DEF LineMap
<1>2. IsFiniteSet(D)
  BY <1>1, LineConfigAssumption, FS_Subset
<1>3. EntriesOf(m, r) = {f[l] : l \in D}
  BY DEF EntriesOf
<1>4. IsFiniteSet({f[l] : l \in D})
  <2>1. {f[l] : l \in D} = {f[l] : l \in DOMAIN f}
    OBVIOUS
  <2>2. f \in Surjection(D, {f[l] : l \in D})
    BY DEF Surjection
  <2> QED
    BY <1>2, <2>2, FS_Surjection
<1>5. EntriesOf(m, r) \subseteq Entry
  BY <1>1 DEF EntriesOf, Entry, Setting
<1> QED
  BY <1>3, <1>4, <1>5

\* Whatever order the loop over the map takes, the result is a list of entries.
LEMMA OrdersAreLists ==
  ASSUME NEW m \in LineMap, NEW r \in Router,
         NEW q \in Orders(EntriesOf(m, r))
  PROVE  q \in Seq(Entry)
<1> DEFINE S == EntriesOf(m, r)
<1>1. S \subseteq Entry /\ Cardinality(S) \in Nat
  BY EntriesFinite, FS_CardinalityType
<1>2. PICK n \in 0..Cardinality(S) : q \in [1..n -> S]
  BY DEF Orders
<1>3. n \in Nat /\ q \in [1..n -> Entry]
  BY <1>1, <1>2
<1> QED
  BY <1>3

LEMMA InitInv == Init => IInv
<1> SUFFICES ASSUME Init PROVE IInv
  OBVIOUS
<1> USE DEF Init
<1>1. lines \in LineMap
  <2>1. NoLines \in [{} -> Setting]
    BY DEF NoLines
  <2> QED
    BY <2>1 DEF LineMap
<1>2. Types
  BY <1>1 DEF Types
<1>3. MapRuns /\ MapHasLines /\ EmptySchedulerTimed
  BY DEF MapRuns, MapHasLines, EmptySchedulerTimed, HasScheduler
<1> QED
  BY <1>2, <1>3 DEF IInv

\* A step that leaves the manager's lists, map and timers alone keeps the
\* invariant if it keeps the types of the rest.
LEMMA ManagerUntouched ==
  ASSUME IInv, UNCHANGED <<rl, cur, timers, running>>,
         (lines \in LineMap)', (batch \in [1..MaxSyncs -> SUBSET Event])',
         (inbox \in Seq(Event))', (snap \in SUBSET LineMap)'
  PROVE  IInv'
<1>1. Types'
  BY DEF IInv, Types
<1>2. MapRuns' /\ MapHasLines' /\ EmptySchedulerTimed'
  BY DEF IInv, MapRuns, MapHasLines, EmptySchedulerTimed, HasScheduler
<1> QED
  BY <1>1, <1>2 DEF IInv

\* sync sends well-formed events (detectChanges).
LEMMA ChangesAreEvents ==
  ASSUME NEW old \in LineMap, NEW new \in LineMap
  PROVE  DetectChanges(old, new) \subseteq Event
<1>1. PICK S \in SUBSET Line : old \in [S -> Setting]
  BY DEF LineMap
<1>2. PICK T \in SUBSET Line : new \in [T -> Setting]
  BY DEF LineMap
<1>3. ASSUME NEW t \in {"create", "update", "delete"}, NEW l \in Line,
             NEW c \in Setting
      PROVE  EventFor(t, l, c) \in Event
  BY <1>3 DEF EventFor, Event, Setting
<1>4. \A l \in DOMAIN old : l \in Line /\ old[l] \in Setting
  BY <1>1
<1>5. \A l \in DOMAIN new : l \in Line /\ new[l] \in Setting
  BY <1>2
<1> QED
  BY <1>3, <1>4, <1>5 DEF DetectChanges

\* fetchLines returns a map of lines whatever the macros hold: a missing
\* router is the empty one and a bad interval the default.
LEMMA FetchedLines ==
  ASSUME NEW z \in Configuration
  PROVE  fetchLines(z) \in LineMap
<1>1. Readable(z) \in SUBSET Line
  BY DEF Readable, Configuration
<1>2. \A v : routerOf(v) \in Router /\ parseDurationFromMacro(v) \in Interval
  BY LineConfigAssumption DEF routerOf, parseDurationFromMacro
<1>3. fetchLines(z) \in [Readable(z) -> Setting]
  BY <1>2 DEF fetchLines, Setting
<1> QED
  BY <1>1, <1>3 DEF LineMap

LEMMA SyncInv == ASSUME IInv, Sync PROVE IInv'
<1> USE LineSyncAssumption
<1>1. PICK new \in LineMap :
        /\ lines' = new
        /\ batch' = [batch EXCEPT ![syncs + 1] =
                       IF DOMAIN lines = {} THEN {} ELSE DetectChanges(lines, new)]
  BY FetchedLines DEF Sync
<1>2. (batch \in [1..MaxSyncs -> SUBSET Event])'
  BY <1>1, ChangesAreEvents DEF IInv, Types
<1>3. (lines \in LineMap)' /\ UNCHANGED <<inbox, snap, rl, cur, timers, running>>
  BY <1>1 DEF Sync, managerVars
<1> QED
  BY <1>2, <1>3, ManagerUntouched DEF IInv, Types

LEMMA NotifyInv ==
  ASSUME IInv, NEW k \in 1..MaxSyncs, Notify(k) PROVE IInv'
<1>1. PICK e \in batch[k] :
        /\ batch' = [batch EXCEPT ![k] = @ \ {e}]
        /\ inbox' = IF phase = "subscribed" /\ Len(inbox) < InboxCap
                      THEN Append(inbox, e) ELSE inbox
  BY DEF Notify
<1>2. e \in Event
  BY <1>1 DEF IInv, Types
<1>3. (batch \in [1..MaxSyncs -> SUBSET Event])'
  BY <1>1 DEF IInv, Types
<1>4. (inbox \in Seq(Event))'
  BY <1>1, <1>2 DEF IInv, Types
<1>5. UNCHANGED <<lines, snap, rl, cur, timers, running>>
  BY DEF Notify, managerVars
<1> QED
  BY <1>3, <1>4, <1>5, ManagerUntouched DEF IInv, Types

\* The steps of Start and of the schedulers' own goroutines.
LEMMA QuietStepsInv ==
  ASSUME IInv,
         \/ FullSyncGiveUp \/ FullSyncRead \/ Subscribe
         \/ \E r \in Router : SchedulerStart(r)
         \/ \E r \in Router, i \in Interval : QueueExpire(r, i)
  PROVE  IInv'
<1>1. UNCHANGED <<lines, batch, inbox, rl, cur, timers, running>>
  BY DEF FullSyncGiveUp, FullSyncRead, Subscribe, SchedulerStart, QueueExpire,
         syncerVars, managerVars
<1>2. (snap \in SUBSET LineMap)'
  BY DEF IInv, Types, FullSyncGiveUp, FullSyncRead, Subscribe, SchedulerStart,
         QueueExpire
<1> QED
  BY <1>1, <1>2, ManagerUntouched DEF IInv, Types

LEMMA FullSyncInv == ASSUME IInv, FullSyncApply PROVE IInv'
<1>1. PICK m \in snap :
      \E q \in [Router -> UNION {Orders(EntriesOf(m, r)) : r \in Router}] :
        /\ \A r \in Router : q[r] \in Orders(EntriesOf(m, r))
        /\ rl' = q
        /\ timers' = [r \in Router |->
                        IF GetsScheduler(q, r) THEN Append(timers[r], 0) ELSE timers[r]]
        /\ cur' = [r \in Router |-> CASE GetsScheduler(q, r) -> Len(timers[r]) + 1
                                       [] LosesScheduler(q, r) -> 0
                                       [] OTHER -> cur[r]]
        /\ running' = [r \in Router |->
                         CASE GetsScheduler(q, r) -> running[r] \cup {Len(timers[r]) + 1}
                           [] LosesScheduler(q, r) -> running[r] \ {cur[r]}
                           [] OTHER -> running[r]]
        /\ snap' = {}
        /\ UNCHANGED <<lines, batch, inbox>>
  BY DEF FullSyncApply, syncerVars
<1>2. PICK q \in [Router -> UNION {Orders(EntriesOf(m, r)) : r \in Router}] :
        /\ \A r \in Router : q[r] \in Orders(EntriesOf(m, r))
        /\ rl' = q
        /\ timers' = [r \in Router |->
                        IF GetsScheduler(q, r) THEN Append(timers[r], 0) ELSE timers[r]]
        /\ cur' = [r \in Router |-> CASE GetsScheduler(q, r) -> Len(timers[r]) + 1
                                       [] LosesScheduler(q, r) -> 0
                                       [] OTHER -> cur[r]]
        /\ running' = [r \in Router |->
                         CASE GetsScheduler(q, r) -> running[r] \cup {Len(timers[r]) + 1}
                           [] LosesScheduler(q, r) -> running[r] \ {cur[r]}
                           [] OTHER -> running[r]]
        /\ snap' = {}
        /\ UNCHANGED <<lines, batch, inbox>>
  BY <1>1
<1>3. m \in LineMap
  BY DEF IInv, Types
<1>4. \A r \in Router : q[r] \in Seq(Entry)
  BY <1>2, <1>3, OrdersAreLists
<1>5. (rl \in [Router -> Seq(Entry)])'
  BY <1>2, <1>4
<1>6. \A r \in Router :
        /\ rl'[r] = q[r]
        /\ GetsScheduler(q, r) => /\ timers'[r] = Append(timers[r], 0)
                        /\ cur'[r] = Len(timers[r]) + 1
                        /\ running'[r] = running[r] \cup {Len(timers[r]) + 1}
        /\ LosesScheduler(q, r) => /\ timers'[r] = timers[r] /\ cur'[r] = 0
                         /\ running'[r] = running[r] \ {cur[r]}
        /\ ~ GetsScheduler(q, r) /\ ~ LosesScheduler(q, r) =>
             timers'[r] = timers[r] /\ cur'[r] = cur[r] /\ running'[r] = running[r]
  BY <1>2 DEF GetsScheduler, LosesScheduler
<1>7. \A r \in Router : /\ timers[r] \in Seq(Nat) /\ Len(timers[r]) \in Nat
                         /\ cur[r] \in Nat /\ cur[r] <= Len(timers[r])
                         /\ running[r] \in SUBSET Nat
  <2> TAKE r \in Router
  <2>1. timers[r] \in Seq(Nat) /\ cur[r] \in Nat /\ cur[r] <= Len(timers[r])
    BY DEF IInv, Types
  <2>2. running[r] \in SUBSET Nat
    BY DEF IInv, Types
  <2> QED
    BY <2>1, <2>2
<1>8. \A r \in Router : /\ timers'[r] \in Seq(Nat) /\ cur'[r] \in Nat
                         /\ cur'[r] <= Len(timers'[r])
                         /\ running'[r] \in SUBSET Nat
  <2> TAKE r \in Router
  <2>1. CASE GetsScheduler(q, r)
    <3>1. /\ timers'[r] = Append(timers[r], 0) /\ cur'[r] = Len(timers[r]) + 1
          /\ running'[r] = running[r] \cup {Len(timers[r]) + 1}
      BY <1>6, <2>1
    <3>2. timers[r] \in Seq(Nat) /\ running[r] \in SUBSET Nat
      BY <1>7
    <3>3. timers'[r] \in Seq(Nat) /\ Len(timers'[r]) = Len(timers[r]) + 1
      BY <3>1, <3>2
    <3>4. Len(timers[r]) + 1 \in Nat
      BY <1>7
    <3> QED
      BY <3>1, <3>2, <3>3, <3>4
  <2>2. CASE LosesScheduler(q, r)
    BY <1>6, <1>7, <2>2
  <2>3. CASE ~ GetsScheduler(q, r) /\ ~ LosesScheduler(q, r)
    BY <1>6, <1>7, <2>3
  <2> QED
    BY <2>1, <2>2, <2>3
<1>9. Types'
  <2>1. (timers \in [Router -> Seq(Nat)])'
    BY <1>2, <1>8
  <2>2. (cur \in [Router -> Nat])'
    BY <1>2, <1>8
  <2>3. (running \in [Router -> SUBSET Nat])'
    BY <1>2, <1>8
  <2> QED
    BY <1>2, <1>5, <1>8, <2>1, <2>2, <2>3 DEF IInv, Types
<1>10. MapRuns'
  <2> SUFFICES ASSUME NEW r \in Router, cur'[r] # 0 PROVE cur'[r] \in running'[r]
    BY DEF MapRuns, HasScheduler
  <2> QED
    BY <1>6, <1>7 DEF IInv, MapRuns, HasScheduler
<1>11. MapHasLines'
  <2> SUFFICES ASSUME NEW r \in Router \ InvalidRouter, rl'[r] # << >>
               PROVE  cur'[r] # 0
    BY DEF MapHasLines, HasScheduler
  <2>1. GetsScheduler(q, r) \/ (HasScheduler(r) /\ ~ LosesScheduler(q, r) /\ ~ GetsScheduler(q, r))
    BY <1>6 DEF GetsScheduler, LosesScheduler
  <2> QED
    BY <1>6, <1>7, <2>1 DEF HasScheduler
<1>12. EmptySchedulerTimed'
  <2> SUFFICES ASSUME NEW r \in Router, rl'[r] = << >> PROVE cur'[r] = 0
    BY DEF EmptySchedulerTimed, HasScheduler
  <2>1. ~ GetsScheduler(q, r) /\ (LosesScheduler(q, r) \/ ~ HasScheduler(r))
    BY <1>6 DEF GetsScheduler, LosesScheduler
  <2> QED
    BY <1>6, <2>1 DEF HasScheduler
<1> QED
  BY <1>9, <1>10, <1>11, <1>12 DEF IInv

\* What processLineEvent starts from, whatever the event.
LEMMA Received ==
  ASSUME IInv, NEW t, Receive(t)
  PROVE  /\ Head(inbox) \in Event
         /\ (lines \in LineMap)' /\ (batch \in [1..MaxSyncs -> SUBSET Event])'
         /\ (inbox \in Seq(Event))' /\ (snap \in SUBSET LineMap)'
<1>1. inbox \in Seq(Event) /\ inbox # << >> /\ inbox' = Tail(inbox)
  BY DEF IInv, Types, Receive
<1>2. Head(inbox) \in Event /\ inbox' \in Seq(Event)
  BY <1>1
<1> QED
  BY <1>2 DEF IInv, Types, Receive, syncerVars

\* The invariant after a step that changes what the manager has of one router.
LEMMA OneRouter ==
  ASSUME IInv, NEW r \in Router,
         (lines \in LineMap)', (batch \in [1..MaxSyncs -> SUBSET Event])',
         (inbox \in Seq(Event))', (snap \in SUBSET LineMap)',
         NEW q \in Seq(Entry), NEW t \in Seq(Nat), NEW c \in 0..Len(t),
         NEW u \in SUBSET Nat,
         rl' = [rl EXCEPT ![r] = q], timers' = [timers EXCEPT ![r] = t],
         cur' = [cur EXCEPT ![r] = c], running' = [running EXCEPT ![r] = u],
         c # 0 => c \in u,
         q # << >> /\ r \notin InvalidRouter => c # 0,
         q = << >> /\ c # 0 => t[c] > 0
  PROVE  IInv'
<1>0. \A o \in Router :
        /\ o = r => rl'[o] = q /\ timers'[o] = t /\ cur'[o] = c /\ running'[o] = u
        /\ o # r => /\ rl'[o] = rl[o] /\ timers'[o] = timers[o]
                    /\ cur'[o] = cur[o] /\ running'[o] = running[o]
  BY DEF IInv, Types
<1>1. Types'
  <2>1. (rl \in [Router -> Seq(Entry)])' /\ (timers \in [Router -> Seq(Nat)])'
    BY DEF IInv, Types
  <2>2. (cur \in [Router -> Nat])' /\ (running \in [Router -> SUBSET Nat])'
    <3>1. c \in Nat
      OBVIOUS
    <3> QED
      BY <3>1 DEF IInv, Types
  <2>3. \A o \in Router : cur'[o] <= Len(timers'[o])
    <3> TAKE o \in Router
    <3>1. CASE o = r
      BY <1>0, <3>1
    <3>2. CASE o # r
      BY <1>0, <3>2 DEF IInv, Types
    <3> QED
      BY <3>1, <3>2
  <2> QED
    BY <2>1, <2>2, <2>3 DEF Types
<1>2. MapRuns'
  BY <1>0 DEF IInv, MapRuns, HasScheduler
<1>3. MapHasLines'
  BY <1>0 DEF IInv, MapHasLines, HasScheduler
<1>4. EmptySchedulerTimed'
  BY <1>0 DEF IInv, EmptySchedulerTimed, HasScheduler
<1> QED
  BY <1>1, <1>2, <1>3, <1>4 DEF IInv

LEMMA LineCreateInv == ASSUME IInv, LineCreate PROVE IInv'
<1> DEFINE e == Head(inbox)
           r == e.router
           q == Append(rl[r], [line |-> e.line, interval |-> e.interval])
           g == Len(timers[r]) + 1
<1>1. Receive("create")
  BY DEF LineCreate
<1>2. /\ e \in Event
      /\ (lines \in LineMap)' /\ (batch \in [1..MaxSyncs -> SUBSET Event])'
      /\ (inbox \in Seq(Event))' /\ (snap \in SUBSET LineMap)'
  BY <1>1, Received
<1>3. r \in Router /\ [line |-> e.line, interval |-> e.interval] \in Entry
  BY <1>2 DEF Event, Entry
<1>4. /\ rl[r] \in Seq(Entry) /\ timers[r] \in Seq(Nat) /\ running[r] \in SUBSET Nat
      /\ cur[r] \in Nat /\ cur[r] <= Len(timers[r])
  BY <1>3 DEF IInv, Types
<1>5. q \in Seq(Entry) /\ q # << >>
  BY <1>3, <1>4
<1>6. CASE UNCHANGED managerVars
  BY <1>2, <1>6, ManagerUntouched DEF managerVars
<1>7. CASE /\ rl' = [rl EXCEPT ![r] = q]
           /\ HasScheduler(r) \/ r \in InvalidRouter
           /\ UNCHANGED <<cur, timers, running>>
  <2>1. timers' = [timers EXCEPT ![r] = timers[r]]
    BY <1>7 DEF IInv, Types
  <2>2. cur' = [cur EXCEPT ![r] = cur[r]]
    BY <1>7 DEF IInv, Types
  <2>3. running' = [running EXCEPT ![r] = running[r]]
    BY <1>7 DEF IInv, Types
  <2>4. cur[r] \in 0..Len(timers[r])
    BY <1>4
  <2>5. cur[r] # 0 => cur[r] \in running[r]
    BY <1>3 DEF IInv, MapRuns, HasScheduler
  <2>6. r \notin InvalidRouter => cur[r] # 0
    BY <1>7 DEF HasScheduler
  <2> HIDE DEF e, r, q, g
  <2> QED
    BY <1>2, <1>3, <1>4, <1>5, <1>7, <2>1, <2>2, <2>3, <2>4, <2>5, <2>6, OneRouter
<1>8. CASE /\ rl' = [rl EXCEPT ![r] = q]
           /\ timers' = [timers EXCEPT ![r] = Append(@, 0)]
           /\ cur' = [cur EXCEPT ![r] = g]
           /\ running' = [running EXCEPT ![r] = @ \cup {g}]
  <2>1. Append(timers[r], 0) \in Seq(Nat) /\ Len(Append(timers[r], 0)) = g
    BY <1>4
  <2>2. g \in Nat /\ g # 0 /\ g \in 0..Len(Append(timers[r], 0))
    BY <1>4, <2>1
  <2>3. running[r] \cup {g} \in SUBSET Nat /\ g \in running[r] \cup {g}
    BY <1>4, <2>2
  <2>4. /\ timers' = [timers EXCEPT ![r] = Append(timers[r], 0)]
        /\ running' = [running EXCEPT ![r] = running[r] \cup {g}]
    BY <1>8
  <2> HIDE DEF e, r, q, g
  <2> QED
    BY <1>2, <1>3, <1>5, <1>8, <2>1, <2>2, <2>3, <2>4, OneRouter
<1> QED
  BY <1>6, <1>7, <1>8 DEF LineCreate

LEMMA LineUpdateInv == ASSUME IInv, LineUpdate PROVE IInv'
<1> DEFINE e == Head(inbox)
           r == e.router
<1>1. Receive("update")
  BY DEF LineUpdate
<1>2. /\ e \in Event
      /\ (lines \in LineMap)' /\ (batch \in [1..MaxSyncs -> SUBSET Event])'
      /\ (inbox \in Seq(Event))' /\ (snap \in SUBSET LineMap)'
  BY <1>1, Received
<1>3. r \in Router /\ e.interval \in Interval
  BY <1>2 DEF Event
<1>4. UNCHANGED <<cur, timers, running>>
  BY DEF LineUpdate
<1>5. CASE UNCHANGED rl
  BY <1>2, <1>4, <1>5, ManagerUntouched
<1>6. ASSUME NEW k \in PositionsIn(r, e.line),
             rl' = [rl EXCEPT ![r][k].interval = e.interval]
      PROVE  IInv'
  <2> DEFINE q == [rl[r] EXCEPT ![k].interval = e.interval]
  <2>1. rl[r] \in Seq(Entry) /\ k \in 1..Len(rl[r])
    BY <1>3, <1>6 DEF IInv, Types, PositionsIn
  <2>2. rl[r][k] \in Entry
    BY <2>1
  <2>3. [rl[r][k] EXCEPT !.interval = e.interval] \in Entry
    BY <1>3, <2>2 DEF Entry
  <2>4. q = [rl[r] EXCEPT ![k] = [rl[r][k] EXCEPT !.interval = e.interval]]
    BY <2>1
  <2>5. q \in Seq(Entry) /\ q # << >>
    <3>1. Len(q) = Len(rl[r]) /\ q \in Seq(Entry)
      BY <2>1, <2>3, <2>4
    <3> QED
      BY <2>1, <3>1
  <2>6. rl' = [rl EXCEPT ![r] = q]
    BY <1>6
  <2>7. rl[r] # << >>
    BY <2>1
  <2>8. /\ timers' = [timers EXCEPT ![r] = timers[r]]
        /\ cur' = [cur EXCEPT ![r] = cur[r]]
    BY <1>4 DEF IInv, Types
  <2>9. running' = [running EXCEPT ![r] = running[r]]
    BY <1>4 DEF IInv, Types
  <2>10. /\ timers[r] \in Seq(Nat) /\ running[r] \in SUBSET Nat
         /\ cur[r] \in 0..Len(timers[r])
    BY <1>3 DEF IInv, Types
  <2>11. /\ cur[r] # 0 => cur[r] \in running[r]
         /\ r \notin InvalidRouter => cur[r] # 0
    BY <1>3, <2>7 DEF IInv, MapRuns, MapHasLines, HasScheduler
  <2> HIDE DEF e, r, q
  <2> QED
    BY <1>2, <1>3, <2>5, <2>6, <2>8, <2>9, <2>10, <2>11, OneRouter
<1> QED
  BY <1>5, <1>6 DEF LineUpdate

\* Deleting an entry of a list leaves a list, one shorter.
LEMMA WithoutIsList ==
  ASSUME NEW l \in Seq(Entry), NEW k \in 1..Len(l)
  PROVE  Without(l, k) \in Seq(Entry) /\ Len(Without(l, k)) = Len(l) - 1
<1> DEFINE n == Len(l) - 1
<1>1. n \in Nat
  OBVIOUS
<1>2. \A j \in 1..n : (IF j < k THEN l[j] ELSE l[j + 1]) \in Entry
  OBVIOUS
<1>3. Without(l, k) \in [1..n -> Entry]
  BY <1>2 DEF Without
<1> HIDE DEF n
<1>4. Without(l, k) \in Seq(Entry) /\ Len(Without(l, k)) = n
  BY <1>1, <1>3
<1> QED
  BY <1>4 DEF n

LEMMA LineDeleteInv == ASSUME IInv, LineDelete PROVE IInv'
<1> DEFINE e == Head(inbox)
           r == e.router
           P == PositionsIn(r, e.line)
           q == IF P = {} THEN rl[r] ELSE Without(rl[r], CHOOSE k \in P : TRUE)
           t == IF HasScheduler(r) /\ q = << >>
                  THEN [timers[r] EXCEPT ![cur[r]] = @ + 1] ELSE timers[r]
<1>1. Receive("delete")
  BY DEF LineDelete
<1>2. /\ e \in Event
      /\ (lines \in LineMap)' /\ (batch \in [1..MaxSyncs -> SUBSET Event])'
      /\ (inbox \in Seq(Event))' /\ (snap \in SUBSET LineMap)'
  BY <1>1, Received
<1>3. r \in Router
  BY <1>2 DEF Event
<1>4. /\ rl[r] \in Seq(Entry) /\ timers[r] \in Seq(Nat) /\ running[r] \in SUBSET Nat
      /\ cur[r] \in Nat /\ cur[r] <= Len(timers[r])
  BY <1>3 DEF IInv, Types
<1>5. q \in Seq(Entry) /\ (q # << >> => rl[r] # << >>)
  <2>1. CASE P = {}
    BY <1>4, <2>1
  <2>2. CASE P # {}
    <3>1. (CHOOSE k \in P : TRUE) \in P
      BY <2>2
    <3>2. (CHOOSE k \in P : TRUE) \in 1..Len(rl[r])
      BY <1>4, <3>1 DEF PositionsIn
    <3>3. q \in Seq(Entry)
      BY <1>4, <2>2, <3>2, WithoutIsList
    <3> QED
      BY <1>4, <3>2, <3>3
  <2> QED
    BY <2>1, <2>2
<1>6. rl' = [rl EXCEPT ![r] = q] /\ UNCHANGED <<cur, running>>
  BY DEF LineDelete
<1>7. timers' = IF HasScheduler(r) /\ q = << >>
                  THEN [timers EXCEPT ![r][cur[r]] = @ + 1] ELSE timers
  BY DEF LineDelete
<1> HIDE DEF q, P
<1>8. timers' = [timers EXCEPT ![r] = t]
  BY <1>3, <1>7 DEF IInv, Types
<1>9. /\ t \in Seq(Nat) /\ Len(t) = Len(timers[r])
      /\ HasScheduler(r) /\ q = << >> => t[cur[r]] > 0
  <2>1. CASE HasScheduler(r) /\ q = << >>
    <3>1. cur[r] \in 1..Len(timers[r])
      BY <1>4, <2>1 DEF HasScheduler
    <3>2. timers[r][cur[r]] \in Nat
      BY <1>4, <3>1
    <3>3. t = [timers[r] EXCEPT ![cur[r]] = timers[r][cur[r]] + 1]
      BY <2>1
    <3> HIDE DEF t
    <3>4. timers[r][cur[r]] + 1 \in Nat /\ timers[r][cur[r]] + 1 > 0
      BY <3>2
    <3>5. t \in Seq(Nat) /\ Len(t) = Len(timers[r])
      BY <1>4, <3>1, <3>3, <3>4
    <3>6. t[cur[r]] = timers[r][cur[r]] + 1
      BY <1>4, <3>1, <3>3
    <3> QED
      BY <3>4, <3>5, <3>6
  <2>2. CASE ~ (HasScheduler(r) /\ q = << >>)
    BY <1>4, <2>2
  <2> QED
    BY <2>1, <2>2
<1>10. /\ cur' = [cur EXCEPT ![r] = cur[r]]
       /\ running' = [running EXCEPT ![r] = running[r]]
  BY <1>6 DEF IInv, Types
<1>11. /\ cur[r] # 0 => cur[r] \in running[r]
       /\ q # << >> /\ r \notin InvalidRouter => cur[r] # 0
       /\ q = << >> /\ cur[r] # 0 => t[cur[r]] > 0
  BY <1>3, <1>5, <1>9 DEF IInv, MapRuns, MapHasLines, HasScheduler
<1>12. cur[r] \in 0..Len(t)
  BY <1>4, <1>9
<1> HIDE DEF e, r, t
<1> QED
  BY <1>2, <1>3, <1>4, <1>5, <1>6, <1>8, <1>9, <1>10, <1>11, <1>12, OneRouter

LEMMA RemoveTimerInv ==
  ASSUME IInv, NEW r \in Router, NEW g \in DOMAIN timers[r], RemoveTimer(r, g)
  PROVE  IInv'
<1> DEFINE t == [timers[r] EXCEPT ![g] = @ - 1]
<1>1. /\ rl[r] \in Seq(Entry) /\ timers[r] \in Seq(Nat) /\ running[r] \in SUBSET Nat
      /\ cur[r] \in Nat /\ cur[r] <= Len(timers[r])
  BY DEF IInv, Types
<1>2. t \in Seq(Nat) /\ Len(t) = Len(timers[r])
  <2>1. g \in 1..Len(timers[r]) /\ timers[r][g] \in Nat /\ timers[r][g] > 0
    BY <1>1 DEF RemoveTimer
  <2>2. t = [timers[r] EXCEPT ![g] = timers[r][g] - 1] /\ timers[r][g] - 1 \in Nat
    BY <2>1
  <2> QED
    BY <1>1, <2>1, <2>2
<1>3. timers' = [timers EXCEPT ![r] = t]
  BY DEF RemoveTimer
<1>4. /\ (lines \in LineMap)' /\ (batch \in [1..MaxSyncs -> SUBSET Event])'
      /\ (inbox \in Seq(Event))' /\ (snap \in SUBSET LineMap)'
  BY DEF IInv, Types, RemoveTimer, syncerVars
<1>5. rl' = [rl EXCEPT ![r] = rl[r]]
  BY DEF IInv, Types, RemoveTimer
<1>6. CASE rl[r] = << >>
  <2>1. /\ cur' = [cur EXCEPT ![r] = 0]
        /\ running' = [running EXCEPT ![r] = running[r] \ {g}]
    BY <1>6 DEF RemoveTimer
  <2>2. 0 \in 0..Len(t) /\ running[r] \ {g} \in SUBSET Nat
    BY <1>1, <1>2
  <2> HIDE DEF t
  <2> QED
    BY <1>1, <1>2, <1>3, <1>4, <1>5, <1>6, <2>1, <2>2, OneRouter
<1>7. CASE rl[r] # << >>
  <2>1. /\ cur' = [cur EXCEPT ![r] = cur[r]]
        /\ running' = [running EXCEPT ![r] = running[r]]
    BY <1>7 DEF RemoveTimer, IInv, Types
  <2>2. /\ cur[r] # 0 => cur[r] \in running[r]
        /\ r \notin InvalidRouter => cur[r] # 0
    BY <1>7 DEF IInv, MapRuns, MapHasLines, HasScheduler
  <2>3. cur[r] \in 0..Len(t)
    BY <1>1, <1>2
  <2> HIDE DEF t
  <2> QED
    BY <1>1, <1>2, <1>3, <1>4, <1>5, <1>7, <2>1, <2>2, <2>3, OneRouter
<1> QED
  BY <1>6, <1>7

LEMMA StepInv == IInv /\ [Next]_vars => IInv'
<1> SUFFICES ASSUME IInv, [Next]_vars PROVE IInv'
  OBVIOUS
<1>1. CASE UNCHANGED vars
  BY <1>1, ManagerUntouched DEF vars, IInv, Types
<1>2. CASE Next
  BY <1>2, SyncInv, NotifyInv, QuietStepsInv, FullSyncInv, LineCreateInv,
     LineUpdateInv, LineDeleteInv, RemoveTimerInv DEF Next
<1> QED
  BY <1>1, <1>2

LEMMA Invariant == Spec => []IInv
  BY InitInv, StepInv, PTL DEF Spec

\* A router with lines in the manager's list has a scheduler in the map that
\* nobody stopped, whatever timers and full syncs run (processLineEvent and
\* fullSync in manager.go).
THEOREM RoutersWithLinesServed == Spec => []LinesHaveScheduler
<1>1. IInv => LinesHaveScheduler
  BY DEF IInv, MapRuns, MapHasLines, LinesHaveScheduler
<1> QED
  BY <1>1, Invariant, PTL

\* A scheduler whose router has no lines is held by a pending timer (the
\* delayed removal of processLineEvent in manager.go).
THEOREM IdleSchedulersTimed == Spec => []EmptySchedulerTimed
<1>1. IInv => EmptySchedulerTimed
  BY DEF IInv
<1> QED
  BY <1>1, Invariant, PTL

--------------------------------------------------------------------------------
(* The settings of the lines. *)

\* The map is the one fetchLines made of the configuration read last.
Fetched ==
  /\ zabbix \in Configuration
  /\ lines = fetchLines(zabbix)

\* Before the first sync there is no line.
LEMMA NothingFetched ==
  Nothing \in Configuration /\ fetchLines(Nothing) = NoLines
<1>1. NoMacros \in Macros
  <2>1. NoMacros = [router |-> Unset, interval |-> Unset]
    BY DEF NoMacros, Macro
  <2> QED
    BY <2>1 DEF Macros
<1>2. Nothing \in Configuration
  BY <1>1 DEF Nothing, Configuration
<1>3. Readable(Nothing) = {}
  BY DEF Readable, Nothing
<1>4. DOMAIN fetchLines(Nothing) = {}
  BY <1>3 DEF fetchLines
<1>5. fetchLines(Nothing) = NoLines
  BY <1>3, SMT DEF fetchLines, NoLines
<1> QED
  BY <1>2, <1>5

LEMMA FetchedInvariant == Spec => []Fetched
<1>1. Init => Fetched
  BY NothingFetched DEF Init, Fetched
<1>2. Fetched /\ [Next]_vars => Fetched'
  <2> SUFFICES ASSUME Fetched, [Next]_vars PROVE Fetched'
    OBVIOUS
  <2>1. CASE UNCHANGED <<zabbix, lines>>
    BY <2>1 DEF Fetched
  <2>2. CASE Sync
    BY <2>2, LineSyncAssumption DEF Sync, Fetched
  <2>3. Sync \/ UNCHANGED <<zabbix, lines>>
    <3>1. CASE UNCHANGED vars
      BY <3>1 DEF vars
    <3>2. CASE Next
      BY <3>2 DEF Next, Notify, FullSyncGiveUp, FullSyncRead, FullSyncApply,
        Subscribe, LineCreate, LineUpdate, LineDelete, Receive, RemoveTimer,
        SchedulerStart, QueueExpire, syncerVars
    <3> QED
      BY <3>1, <3>2
  <2> QED
    BY <2>1, <2>2, <2>3
<1> QED
  BY <1>1, <1>2, PTL DEF Spec

\* At any time the syncer's lines are those of the configuration it has read
\* last, each with the router and the interval of the nearest level that sets
\* them (fetchLines, buildTemplateChain and mergeMacros in syncer.go).
THEOREM LinesAsConfigured == Spec => []EffectiveSettings
<1>1. Fetched => EffectiveSettings
  <2> SUFFICES ASSUME Fetched PROVE EffectiveSettings
    OBVIOUS
  <2>1. zabbix \in Configuration /\ lines = fetchLines(zabbix)
    BY DEF Fetched
  <2> QED
    BY <2>1, FetchedSettings DEF EffectiveSettings
<1> QED
  BY <1>1, FetchedInvariant, PTL

--------------------------------------------------------------------------------
(* The operators on schedulers: what they return, and what they do to the list. *)

\* The queues of a scheduler, by interval.
QueueMap == UNION {[D -> Queue] : D \in SUBSET Interval}

\* A scheduler, as a record.
Scheduler ==
  {s \in [lines : Seq(Line), shared : BOOLEAN, queues : QueueMap, started : BOOLEAN,
          served : SUBSET Interval, expiring : [Interval -> Nat]] :
     s.served \subseteq DOMAIN s.queues}

LEMMA QueueMapDef ==
  ASSUME NEW D \in SUBSET Interval, NEW m \in [D -> Queue]
  PROVE  m \in QueueMap
  BY DEF QueueMap

\* The fields of a scheduler.
LEMMA SchedulerFields ==
  ASSUME NEW s \in Scheduler
  PROVE  /\ s.lines \in Seq(Line) /\ s.shared \in BOOLEAN
         /\ s.queues \in [DOMAIN s.queues -> Queue] /\ DOMAIN s.queues \in SUBSET Interval
         /\ s.started \in BOOLEAN /\ s.served \subseteq DOMAIN s.queues
         /\ s.expiring \in [Interval -> Nat]
<1>1. /\ s.lines \in Seq(Line) /\ s.shared \in BOOLEAN /\ s.queues \in QueueMap
      /\ s.started \in BOOLEAN /\ s.expiring \in [Interval -> Nat]
      /\ s.served \subseteq DOMAIN s.queues
  BY DEF Scheduler
<1>2. PICK D \in SUBSET Interval : s.queues \in [D -> Queue]
  BY <1>1 DEF QueueMap
<1> QED
  BY <1>1, <1>2

LEMMA SchedulerTyped ==
  ASSUME NEW s \in Scheduler PROVE IsScheduler(s)
<1>1. \A i \in DOMAIN s.queues : s.queues[i] \in Queue
  BY SchedulerFields
<1> QED
  BY <1>1, SchedulerFields DEF IsScheduler

\* A scheduler with one of its fields replaced.
LEMMA WithLines ==
  ASSUME NEW s \in Scheduler, NEW q \in Seq(Line)
  PROVE  /\ [s EXCEPT !.lines = q] \in Scheduler /\ [s EXCEPT !.lines = q].lines = q
         /\ [s EXCEPT !.lines = q].shared = s.shared
  BY DEF Scheduler

LEMMA WithQueues ==
  ASSUME NEW s \in Scheduler, NEW D \in SUBSET Interval, NEW m \in [D -> Queue],
         s.served \subseteq D
  PROVE  /\ [s EXCEPT !.queues = m] \in Scheduler
         /\ [s EXCEPT !.queues = m].lines = s.lines
         /\ [s EXCEPT !.queues = m].shared = s.shared
         /\ [s EXCEPT !.queues = m].queues = m
<1>1. m \in QueueMap /\ DOMAIN m = D
  BY QueueMapDef
<1> QED
  BY <1>1 DEF Scheduler

LEMMA NoSchedulerTyped ==
  NoScheduler \in Scheduler /\ NoScheduler.shared = FALSE
<1>1. << >> \in [{} -> Queue] /\ {} \in SUBSET Interval
  OBVIOUS
<1>2. << >> \in QueueMap /\ DOMAIN << >> = {}
  BY <1>1, QueueMapDef
<1> QED
  BY <1>2 DEF Scheduler, NoScheduler

\* NewRouterScheduler counts the lines of the list, per interval.
LEMMA NewSchedulerTyped ==
  ASSUME NEW q \in Seq(Entry)
  PROVE  /\ NewScheduler(q) \in Scheduler /\ NewScheduler(q).lines = LinesOf(q)
         /\ LinesOf(q) \in Seq(Line) /\ Len(LinesOf(q)) = Len(q)
         /\ \A k \in 1..Len(q) : LinesOf(q)[k] = q[k].line
<1>1. DOMAIN q = 1..Len(q) /\ Len(q) \in Nat /\ \A k \in 1..Len(q) : q[k] \in Entry
  OBVIOUS
<1>2. \A k \in 1..Len(q) : q[k].line \in Line /\ q[k].interval \in Interval
  BY <1>1 DEF Entry
<1>3. LinesOf(q) \in [1..Len(q) -> Line] /\ \A k \in 1..Len(q) : LinesOf(q)[k] = q[k].line
  BY <1>1, <1>2 DEF LinesOf
<1> HIDE DEF LinesOf
<1>4. LinesOf(q) \in Seq(Line) /\ Len(LinesOf(q)) = Len(q)
  BY <1>1, <1>3
<1> DEFINE D == {q[k].interval : k \in DOMAIN q}
           C(i, l) == {k \in DOMAIN q : q[k].line = l /\ q[k].interval = i}
           m == [i \in D |-> [l \in Line |-> Cardinality(C(i, l))]]
<1>5. D \in SUBSET Interval
  BY <1>1, <1>2
<1>6. \A i, l : Cardinality(C(i, l)) \in Nat
  <2> TAKE i, l
  <2>1. IsFiniteSet(1..Len(q))
    <3> DEFINE n == Len(q)
    <3>1. n \in Int /\ 1 \in Int
      BY <1>1
    <3> HIDE DEF n
    <3>2. IsFiniteSet(1..n)
      BY <3>1, FS_Interval
    <3> QED
      BY <3>2 DEF n
  <2>2. C(i, l) \in SUBSET (1..Len(q))
    BY <1>1
  <2> HIDE DEF C
  <2>3. IsFiniteSet(C(i, l))
    BY <2>1, <2>2, FS_Subset
  <2> QED
    BY <2>3, FS_CardinalityType
<1> HIDE DEF C
<1>7. m \in [D -> Queue]
  BY <1>6 DEF Queue
<1>8. NewScheduler(q) = [NoScheduler EXCEPT !.lines = LinesOf(q), !.shared = TRUE, !.queues = m]
  BY Zenon DEF NewScheduler, C
<1>9. m \in QueueMap
  BY <1>5, <1>7, QueueMapDef
<1> HIDE DEF m, D
<1>10. NewScheduler(q) \in Scheduler /\ NewScheduler(q).lines = LinesOf(q)
  BY <1>4, <1>8, <1>9, NoSchedulerTyped DEF Scheduler, NoScheduler
<1> QED
  BY <1>3, <1>4, <1>10

LEMMA StartWorkersTyped ==
  ASSUME NEW s \in Scheduler
  PROVE  /\ StartWorkers(s) \in Scheduler /\ StartWorkers(s).lines = s.lines
         /\ StartWorkers(s).shared = s.shared
  BY SchedulerFields DEF StartWorkers, Scheduler

LEMMA UnshareTyped ==
  ASSUME NEW s \in Scheduler
  PROVE  Unshare(s) \in Scheduler /\ Unshare(s).shared = FALSE
  BY DEF Unshare, Scheduler

LEMMA AddTyped ==
  ASSUME NEW s \in Scheduler, NEW i \in Interval, NEW l \in Line
  PROVE  /\ Add(s, i, l) \in Scheduler
         /\ Add(s, i, l).lines = s.lines /\ Add(s, i, l).shared = s.shared
<1> DEFINE Q(j) == IF j \in DOMAIN s.queues THEN s.queues[j] ELSE EmptyQueue
           D == DOMAIN s.queues \cup {i}
           m == [j \in D |-> IF j = i THEN [Q(j) EXCEPT ![l] = @ + 1] ELSE Q(j)]
<1>1. \A j : Q(j) \in Queue
  BY SchedulerFields DEF EmptyQueue, Queue
<1>2. \A u \in Queue : [u EXCEPT ![l] = @ + 1] \in Queue
  BY DEF Queue
<1>3. D \in SUBSET Interval /\ s.served \subseteq D
  BY SchedulerFields
<1>4. Add(s, i, l) = [s EXCEPT !.queues = m]
  BY Zenon DEF Add
<1> HIDE DEF Q
<1>5. m \in [D -> Queue]
  BY <1>1, <1>2
<1> HIDE DEF m, D
<1> QED
  BY <1>3, <1>4, <1>5, WithQueues

LEMMA RemoveTyped ==
  ASSUME NEW s \in Scheduler, NEW i \in Interval, NEW l \in Line
  PROVE  /\ Remove(s, i, l) \in Scheduler
         /\ Remove(s, i, l).lines = s.lines /\ Remove(s, i, l).shared = s.shared
         /\ Remove(s, i, l).expiring = s.expiring
<1>1. CASE ~ Contains(s, i, l)
  BY <1>1 DEF Remove
<1>2. CASE Contains(s, i, l)
  <2> DEFINE D == DOMAIN s.queues
             m == [s.queues EXCEPT ![i] = [s.queues[i] EXCEPT ![l] = @ - 1]]
  <2>1. i \in D /\ s.queues[i][l] > 0
    BY <1>2 DEF Contains
  <2>2. s.queues \in [D -> Queue] /\ D \in SUBSET Interval /\ s.served \subseteq D
    BY SchedulerFields
  <2>3. s.queues[i] \in Queue /\ s.queues[i][l] \in Nat
    BY <2>1, <2>2 DEF Queue
  <2>4. [s.queues[i] EXCEPT ![l] = @ - 1] \in Queue
    BY <2>1, <2>3 DEF Queue
  <2>5. m \in [D -> Queue]
    BY <2>1, <2>2, <2>4
  <2>6. Remove(s, i, l) = [s EXCEPT !.queues = m]
    BY <1>2 DEF Remove
  <2> HIDE DEF m, D
  <2>7. [s EXCEPT !.queues = m].expiring = s.expiring
    BY DEF Scheduler
  <2> QED
    BY <2>2, <2>5, <2>6, <2>7, WithQueues
<1> QED
  BY <1>1, <1>2

LEMMA CreatedTyped ==
  ASSUME NEW s \in Scheduler, NEW l \in Line, NEW i \in Interval,
         NEW t, t = OnLineCreated(s, l, i)
  PROVE  /\ t \in Scheduler /\ t.shared = s.shared
         /\ (\E k \in DOMAIN s.lines : s.lines[k] = l) => t.lines = s.lines
         /\ (~ \E k \in DOMAIN s.lines : s.lines[k] = l) => t.lines = Append(s.lines, l)
<1>1. CASE \E k \in DOMAIN s.lines : s.lines[k] = l
  BY <1>1 DEF OnLineCreated
<1>2. CASE ~ \E k \in DOMAIN s.lines : s.lines[k] = l
  <2> DEFINE a == Add(s, i, l)
             q == Append(s.lines, l)
  <2>1. a \in Scheduler /\ a.shared = s.shared
    BY AddTyped
  <2>2. q \in Seq(Line)
    BY SchedulerFields
  <2>3. t = [a EXCEPT !.lines = q]
    BY <1>2 DEF OnLineCreated
  <2> HIDE DEF a, q
  <2>4. t \in Scheduler /\ t.shared = s.shared /\ t.lines = q
    BY <2>1, <2>2, <2>3, WithLines
  <2> QED
    BY <1>2, <2>4 DEF q
<1> QED
  BY <1>1, <1>2

LEMMA UpdatedTyped ==
  ASSUME NEW s \in Scheduler, NEW l \in Line, NEW i \in Interval, NEW j \in Interval
  PROVE  /\ OnLineUpdated(s, l, i, j) \in Scheduler
         /\ OnLineUpdated(s, l, i, j).lines = s.lines
         /\ OnLineUpdated(s, l, i, j).shared = s.shared
<1> DEFINE a == Remove(s, i, l)
<1>1. a \in Scheduler /\ a.lines = s.lines /\ a.shared = s.shared
  BY RemoveTyped
<1> HIDE DEF a
<1>2. Add(a, j, l) \in Scheduler /\ Add(a, j, l).lines = s.lines /\ Add(a, j, l).shared = s.shared
  BY <1>1, AddTyped
<1> QED
  BY <1>2 DEF OnLineUpdated, a

LEMMA WithExpiring ==
  ASSUME NEW s \in Scheduler, NEW e \in [Interval -> Nat]
  PROVE  /\ [s EXCEPT !.expiring = e] \in Scheduler
         /\ [s EXCEPT !.expiring = e].lines = s.lines
         /\ [s EXCEPT !.expiring = e].shared = s.shared
  BY DEF Scheduler

LEMMA DeletedTyped ==
  ASSUME NEW s \in Scheduler, NEW l \in Line, NEW i \in Interval
  PROVE  /\ OnLineDeleted(s, l, i) \in Scheduler
         /\ OnLineDeleted(s, l, i).lines = s.lines
         /\ OnLineDeleted(s, l, i).shared = s.shared
<1> DEFINE t == Remove(s, i, l)
           e == [t.expiring EXCEPT ![i] = @ + 1]
           u == [t EXCEPT !.expiring = e]
<1>1. t \in Scheduler /\ t.lines = s.lines /\ t.shared = s.shared
  BY RemoveTyped
<1> HIDE DEF t
<1>2. e \in [Interval -> Nat]
  <2>1. t.expiring \in [Interval -> Nat]
    BY <1>1, SchedulerFields
  <2> QED
    BY <2>1
<1> HIDE DEF e
<1>3. u \in Scheduler /\ u.lines = s.lines /\ u.shared = s.shared
  BY <1>1, <1>2, WithExpiring
<1>4. [t EXCEPT !.expiring[i] = @ + 1] = u
  BY DEF e
<1> HIDE DEF u
<1>5. OnLineDeleted(s, l, i) \in {s, t, u}
  BY <1>4, Zenon DEF OnLineDeleted, t
<1> QED
  BY <1>1, <1>3, <1>5

LEMMA ExpireTyped ==
  ASSUME NEW s \in Scheduler, NEW i \in Interval, s.expiring[i] > 0
  PROVE  /\ ExpireQueue(s, i) \in Scheduler
         /\ ExpireQueue(s, i).lines = s.lines
         /\ ExpireQueue(s, i).shared = s.shared
<1> DEFINE e == [s.expiring EXCEPT ![i] = @ - 1]
           t == [s EXCEPT !.expiring = e]
           D == DOMAIN s.queues \ {i}
           m == [j \in D |-> s.queues[j]]
           u == [t EXCEPT !.queues = m, !.served = @ \ {i}]
<1>1. e \in [Interval -> Nat]
  <2>1. s.expiring \in [Interval -> Nat]
    BY SchedulerFields
  <2> QED
    BY <2>1
<1>2. [s EXCEPT !.expiring[i] = @ - 1] = t
  OBVIOUS
<1> HIDE DEF e
<1>3. t \in Scheduler /\ t.lines = s.lines /\ t.shared = s.shared
  BY <1>1, WithExpiring
<1>4. t.queues = s.queues /\ t.served = s.served
  BY DEF Scheduler
<1>5. D \in SUBSET Interval /\ m \in [D -> Queue] /\ s.served \ {i} \subseteq D
  BY SchedulerFields
<1>6. m \in QueueMap /\ DOMAIN m = D
  BY <1>5, QueueMapDef
<1> HIDE DEF t, D, m
<1>7. u \in Scheduler /\ u.lines = s.lines /\ u.shared = s.shared
  BY <1>3, <1>4, <1>5, <1>6 DEF Scheduler
<1>8. ExpireQueue(s, i) \in {t, u}
  BY <1>2, Zenon DEF ExpireQueue, m, D
<1> HIDE DEF u
<1> QED
  BY <1>3, <1>7, <1>8

\* The manager writes an entry into the array of a scheduler's list.
LEMMA SeeWriteTyped ==
  ASSUME NEW s \in Scheduler, NEW k \in Nat \ {0}, NEW l \in Line
  PROVE  /\ SeeWrite(s, k, l) \in Scheduler /\ SeeWrite(s, k, l).shared = s.shared
         /\ s.shared /\ k <= Len(s.lines) =>
              SeeWrite(s, k, l).lines = [s.lines EXCEPT ![k] = l]
         /\ ~ (s.shared /\ k <= Len(s.lines)) => SeeWrite(s, k, l).lines = s.lines
<1>1. s.lines \in Seq(Line) /\ DOMAIN s.lines = 1..Len(s.lines) /\ Len(s.lines) \in Nat
  BY SchedulerFields
<1>2. CASE s.shared /\ k <= Len(s.lines)
  <2> DEFINE q == [s.lines EXCEPT ![k] = l]
  <2>1. q \in Seq(Line)
    BY <1>1, <1>2
  <2>2. SeeWrite(s, k, l) = [s EXCEPT !.lines = q]
    BY <1>1, <1>2 DEF SeeWrite
  <2> HIDE DEF q
  <2>3. /\ SeeWrite(s, k, l) \in Scheduler /\ SeeWrite(s, k, l).shared = s.shared
        /\ SeeWrite(s, k, l).lines = q
    BY <2>1, <2>2, WithLines
  <2> QED
    BY <1>2, <2>3 DEF q
<1>3. CASE ~ (s.shared /\ k <= Len(s.lines))
  BY <1>1, <1>3 DEF SeeWrite
<1> QED
  BY <1>2, <1>3

\* The manager shifts its entries, up to position n of the scheduler's list.
LEMMA SeeShiftTyped ==
  ASSUME NEW s \in Scheduler, NEW n \in Nat, NEW k \in 1..n,
         s.shared => n <= Len(s.lines)
  PROVE  /\ SeeShift(s, k, n) \in Scheduler /\ SeeShift(s, k, n).shared = s.shared
         /\ s.shared =>
              /\ Len(SeeShift(s, k, n).lines) = Len(s.lines)
              /\ \A j \in 1..(n - 1) : SeeShift(s, k, n).lines[j] =
                    IF j < k THEN s.lines[j] ELSE s.lines[j + 1]
<1>1. s.lines \in Seq(Line) /\ DOMAIN s.lines = 1..Len(s.lines) /\ Len(s.lines) \in Nat
  BY SchedulerFields
<1>2. CASE s.shared
  <2> DEFINE q == [j \in DOMAIN s.lines |->
                     IF j \in k..(n - 1) THEN s.lines[j + 1] ELSE s.lines[j]]
  <2>1. \A j \in 1..Len(s.lines) : q[j] \in Line
    BY <1>1, <1>2
  <2>2. q \in [1..Len(s.lines) -> Line]
    BY <1>1, <2>1
  <2>3. \A j \in 1..(n - 1) : q[j] = IF j < k THEN s.lines[j] ELSE s.lines[j + 1]
    BY <1>1, <1>2
  <2>4. SeeShift(s, k, n) = [s EXCEPT !.lines = q]
    BY <1>2 DEF SeeShift
  <2> HIDE DEF q
  <2>5. q \in Seq(Line) /\ Len(q) = Len(s.lines)
    BY <1>1, <2>2
  <2>6. /\ SeeShift(s, k, n) \in Scheduler /\ SeeShift(s, k, n).shared = s.shared
        /\ SeeShift(s, k, n).lines = q
    BY <2>4, <2>5, WithLines
  <2> QED
    BY <2>3, <2>5, <2>6
<1>3. CASE ~ s.shared
  BY <1>1, <1>3 DEF SeeShift
<1> QED
  BY <1>2, <1>3

\* An array filled element by element is never full before it grows.
LEMMA CapacityEnough ==
  \A n \in Nat : Capacity[n] \in Nat /\ n <= Capacity[n]
<1> DEFINE Step(n, c) == IF n + 1 <= c THEN c ELSE Grown(c)
           h == [n \in Nat |-> [c \in Nat |-> Step(n, c)]]
<1>1. \A c \in Nat : Grown(c) \in Nat /\ (c + 1 <= Grown(c))
  BY DEF Grown
<1>2. h \in [Nat -> [Nat -> Nat]]
  BY <1>1
<1>3. \A n, c \in Nat : h[n][c] = Step(n, c)
  OBVIOUS
<1> HIDE DEF h
<1>4. PICK f : IsRecursion(f, Nat, 0, h)
  BY <1>2, PrimitiveRecursion
<1>5. f \in [Nat -> Nat] /\ f[0] = 0 /\ \A n \in Nat : f[n + 1] = Step(n, f[n])
  BY <1>3, <1>4 DEF IsRecursion
<1>6. f = [n \in Nat |-> IF n = 0 THEN 0 ELSE IF n <= f[n - 1] THEN f[n - 1]
                                               ELSE Grown(f[n - 1])]
  <2>1. ASSUME NEW n \in Nat
        PROVE  f[n] = IF n = 0 THEN 0 ELSE IF n <= f[n - 1] THEN f[n - 1]
                                           ELSE Grown(f[n - 1])
    <3>1. CASE n = 0
      BY <1>5, <3>1
    <3>2. CASE n # 0
      <4>1. n - 1 \in Nat /\ (n - 1) + 1 = n
        BY <3>2
      <4>2. f[n] = Step(n - 1, f[n - 1])
        BY <1>5, <4>1
      <4> QED
        BY <3>2, <4>1, <4>2
    <3> QED
      BY <3>1, <3>2
  <2> QED
    BY <1>5, <2>1
<1>7. Capacity = [n \in Nat |-> IF n = 0 THEN 0
                    ELSE IF n <= Capacity[n - 1] THEN Capacity[n - 1]
                         ELSE Grown(Capacity[n - 1])]
  <2> DEFINE c == CHOOSE g : g = [n \in Nat |-> IF n = 0 THEN 0
                    ELSE IF n <= g[n - 1] THEN g[n - 1] ELSE Grown(g[n - 1])]
  <2>1. c = [n \in Nat |-> IF n = 0 THEN 0
               ELSE IF n <= c[n - 1] THEN c[n - 1] ELSE Grown(c[n - 1])]
    BY <1>6, Zenon
  <2>2. Capacity = c
    BY DEF Capacity
  <2> QED
    BY <2>1, <2>2
<1>8. /\ Capacity[0] = 0
      /\ \A n \in Nat : Capacity[n + 1] = Step(n, Capacity[n])
  <2>1. \A n \in Nat : n + 1 # 0 /\ n + 1 \in Nat /\ (n + 1) - 1 = n
    OBVIOUS
  <2> QED
    BY <1>7, <2>1
<1> DEFINE S == {n \in Nat : Capacity[n] \in Nat /\ n <= Capacity[n]}
<1>9. 0 \in S
  BY <1>8
<1>10. ASSUME NEW n \in Nat, n \in S PROVE n + 1 \in S
  BY <1>1, <1>8, <1>10
<1>11. \A n \in Nat : n \in S
  <2> HIDE DEF S
  <2> QED
    BY <1>9, <1>10, NatSetInduction
<1> QED
  BY <1>11

--------------------------------------------------------------------------------
(* The type invariant. *)

\* What the syncer, the channel and Start keep to.
Bounded ==
  /\ zabbix \in Zabbix \cup {Nothing}
  /\ syncs \in 0..MaxSyncs
  /\ sending \in SUBSET (1..MaxSyncs)
  /\ Len(inbox) <= InboxCap
  /\ phase \in {"start", "synced", "subscribed"}
  /\ snap = {} \/ \E m \in LineMap : snap = {m}

LEMMA BoundedInit == Init => Bounded
  BY LineSyncAssumption DEF Init, Bounded

LEMMA BoundedStep == IInv /\ Bounded /\ [Next]_vars => Bounded'
<1> SUFFICES ASSUME IInv, Bounded, [Next]_vars PROVE Bounded'
  OBVIOUS
<1> USE LineSyncAssumption
<1>0. lines \in LineMap /\ inbox \in Seq(Event) /\ MaxSyncs \in Nat /\ InboxCap \in Nat
  BY DEF IInv, Types
<1>1. CASE UNCHANGED <<zabbix, syncs, sending, inbox, phase, snap>>
  BY <1>1 DEF Bounded
<1>2. CASE Sync
  <2>1. UNCHANGED <<sending, inbox, phase, snap>> /\ syncs < MaxSyncs
    BY <1>2 DEF Sync
  <2>2. zabbix' \in Zabbix /\ syncs' = syncs + 1
    BY <1>2 DEF Sync
  <2>3. syncs' \in 0..MaxSyncs
    BY <1>0, <2>1, <2>2 DEF Bounded
  <2> QED
    BY <2>1, <2>2, <2>3 DEF Bounded
<1>3. ASSUME NEW k \in 1..MaxSyncs, Notify(k) PROVE Bounded'
  <2>1. PICK e \in batch[k] :
          /\ sending' = IF batch[k] = {e} THEN sending \ {k} ELSE sending \cup {k}
          /\ inbox' = IF phase = "subscribed" /\ Len(inbox) < InboxCap
                        THEN Append(inbox, e) ELSE inbox
          /\ UNCHANGED <<zabbix, syncs, phase, snap>>
    BY <1>3 DEF Notify
  <2>2. e \in Event
    BY DEF IInv, Types
  <2>3. Len(inbox') <= InboxCap
    <3>1. Len(Append(inbox, e)) = Len(inbox) + 1 /\ Len(inbox) \in Nat
      BY <1>0, <2>2
    <3> QED
      BY <1>0, <2>1, <3>1 DEF Bounded
  <2>4. sending' \in SUBSET (1..MaxSyncs)
    BY <2>1 DEF Bounded
  <2> QED
    BY <2>1, <2>3, <2>4 DEF Bounded
<1>4. CASE FullSyncGiveUp \/ FullSyncRead \/ FullSyncApply \/ Subscribe
  <2>1. UNCHANGED <<zabbix, syncs, sending, inbox>>
    BY <1>4 DEF FullSyncGiveUp, FullSyncRead, FullSyncApply, Subscribe, syncerVars
  <2>2. phase' \in {"start", "synced", "subscribed"}
    BY <1>4 DEF FullSyncGiveUp, FullSyncRead, FullSyncApply, Subscribe, Bounded
  <2>3. snap' = {} \/ snap' = snap \/ snap' = {lines}
    BY <1>4 DEF FullSyncGiveUp, FullSyncRead, FullSyncApply, Subscribe
  <2> QED
    BY <1>0, <2>1, <2>2, <2>3 DEF Bounded
<1>5. CASE LineCreate \/ LineUpdate \/ LineDelete
  <2>1. inbox # << >> /\ inbox' = Tail(inbox)
    BY <1>5 DEF LineCreate, LineUpdate, LineDelete, Receive
  <2>2. UNCHANGED <<zabbix, syncs, sending, phase, snap>>
    BY <1>5 DEF LineCreate, LineUpdate, LineDelete, Receive, syncerVars
  <2>3. Len(inbox') <= Len(inbox)
    BY <1>0, <2>1
  <2>4. Len(inbox') \in Nat /\ Len(inbox) \in Nat
    BY <1>0, <2>1
  <2>5. Len(inbox') <= InboxCap
    BY <1>0, <2>3, <2>4 DEF Bounded
  <2> QED
    BY <2>2, <2>5 DEF Bounded
<1>6. CASE \/ \E r \in Router : \E g \in DOMAIN timers[r] : RemoveTimer(r, g)
           \/ \E r \in Router : SchedulerStart(r)
           \/ \E r \in Router, i \in Interval : QueueExpire(r, i)
  BY <1>1, <1>6 DEF RemoveTimer, SchedulerStart, QueueExpire, syncerVars
<1>7. CASE UNCHANGED vars
  BY <1>1, <1>7 DEF vars
<1> QED
  BY <1>2, <1>3, <1>4, <1>5, <1>6, <1>7 DEF Next

\* A list fits its array, and what runs was handed out.
RoomFor(q, c) == c \in Nat /\ Len(q) <= c
HandedOut(u, t) == u \subseteq 1..Len(t)

\* While a scheduler's list shares the array of the manager's, it begins with
\* the lines of the manager's list and is the list of the scheduler in the map.
Fits(s, q, g) ==
  s.shared => /\ g # 0
              /\ Len(q) <= Len(s.lines)
              /\ \A k \in 1..Len(q) : s.lines[k] = q[k].line

Managed ==
  /\ room \in [Router -> Nat]
  /\ sch \in [Router -> Scheduler]
  /\ \A r \in Router : /\ RoomFor(rl[r], room[r])
                       /\ HandedOut(running[r], timers[r])
                       /\ Fits(sch[r], rl[r], cur[r])

LEMMA ManagedInit == Init => Managed
  BY NoSchedulerTyped DEF Init, Managed, RoomFor, HandedOut, Fits

\* A step that changes one router.
LEMMA OneManaged ==
  ASSUME IInv, Managed, NEW r \in Router, NEW q, NEW c, NEW u, NEW t, NEW g,
         NEW s \in Scheduler,
         rl' = [rl EXCEPT ![r] = q], room' = [room EXCEPT ![r] = c],
         running' = [running EXCEPT ![r] = u], timers' = [timers EXCEPT ![r] = t],
         cur' = [cur EXCEPT ![r] = g], sch' = [sch EXCEPT ![r] = s],
         RoomFor(q, c), HandedOut(u, t), Fits(s, q, g)
  PROVE  Managed'
<1>1. c \in Nat
  BY DEF RoomFor
<1>2. room' \in [Router -> Nat] /\ sch' \in [Router -> Scheduler]
  BY <1>1 DEF Managed
<1>3. /\ rl'[r] = q /\ room'[r] = c /\ running'[r] = u /\ timers'[r] = t
      /\ cur'[r] = g /\ sch'[r] = s
      /\ \A o \in Router \ {r} :
           /\ rl'[o] = rl[o] /\ room'[o] = room[o] /\ running'[o] = running[o]
           /\ timers'[o] = timers[o] /\ cur'[o] = cur[o] /\ sch'[o] = sch[o]
  BY DEF Managed, IInv, Types
<1>4. \A o \in Router : /\ RoomFor(rl'[o], room'[o]) /\ HandedOut(running'[o], timers'[o])
                        /\ Fits(sch'[o], rl'[o], cur'[o])
  BY <1>3 DEF Managed
<1> QED
  BY <1>2, <1>4 DEF Managed

\* What the manager has of one router.
LEMMA ManagedRouter ==
  ASSUME IInv, Managed, NEW r \in Router
  PROVE  /\ rl[r] \in Seq(Entry) /\ timers[r] \in Seq(Nat)
         /\ Len(rl[r]) \in Nat /\ Len(timers[r]) \in Nat
         /\ cur[r] \in Nat /\ cur[r] <= Len(timers[r]) /\ room[r] \in Nat
         /\ running[r] \in SUBSET Nat /\ sch[r] \in Scheduler
         /\ RoomFor(rl[r], room[r]) /\ HandedOut(running[r], timers[r])
         /\ Fits(sch[r], rl[r], cur[r])
<1>1. /\ rl[r] \in Seq(Entry) /\ timers[r] \in Seq(Nat)
      /\ cur[r] \in Nat /\ cur[r] <= Len(timers[r]) /\ room[r] \in Nat
  BY DEF IInv, Types, Managed
<1>2. running[r] \in SUBSET Nat /\ sch[r] \in Scheduler
  BY DEF IInv, Types, Managed
<1>3. /\ RoomFor(rl[r], room[r]) /\ HandedOut(running[r], timers[r])
      /\ Fits(sch[r], rl[r], cur[r])
  BY DEF Managed
<1> QED
  BY <1>1, <1>2, <1>3

\* A variable that does not change is assigned what it has.
LEMMA SameManaged ==
  ASSUME IInv, Managed, NEW r \in Router
  PROVE  /\ rl = [rl EXCEPT ![r] = rl[r]] /\ room = [room EXCEPT ![r] = room[r]]
         /\ running = [running EXCEPT ![r] = running[r]]
         /\ timers = [timers EXCEPT ![r] = timers[r]]
         /\ cur = [cur EXCEPT ![r] = cur[r]] /\ sch = [sch EXCEPT ![r] = sch[r]]
<1>1. /\ rl = [rl EXCEPT ![r] = rl[r]] /\ room = [room EXCEPT ![r] = room[r]]
      /\ timers = [timers EXCEPT ![r] = timers[r]] /\ cur = [cur EXCEPT ![r] = cur[r]]
  BY DEF IInv, Types, Managed
<1>2. running = [running EXCEPT ![r] = running[r]] /\ sch = [sch EXCEPT ![r] = sch[r]]
  BY DEF IInv, Types, Managed
<1> QED
  BY <1>1, <1>2

\* What processLineEvent receives.
LEMMA ReceivedEvent ==
  ASSUME IInv, NEW ty, Receive(ty)
  PROVE  /\ Head(inbox) \in Event /\ Head(inbox).router \in Router
         /\ Head(inbox).line \in Line /\ Head(inbox).interval \in Interval
         /\ [line |-> Head(inbox).line, interval |-> Head(inbox).interval] \in Entry
<1>1. Head(inbox) \in Event
  BY Received
<1> QED
  BY <1>1 DEF Event, Entry

\* Only the scheduler's queues change.
LEMMA QueuesManaged ==
  ASSUME IInv, Managed, NEW r \in Router, NEW s \in Scheduler,
         s.lines = sch[r].lines, s.shared = sch[r].shared,
         sch' = [sch EXCEPT ![r] = s], UNCHANGED <<rl, room, cur, timers, running>>
  PROVE  Managed'
<1>1. Fits(s, rl[r], cur[r])
  BY ManagedRouter DEF Fits
<1>2. RoomFor(rl[r], room[r]) /\ HandedOut(running[r], timers[r])
  BY ManagedRouter
<1>3. /\ rl' = [rl EXCEPT ![r] = rl[r]] /\ room' = [room EXCEPT ![r] = room[r]]
      /\ running' = [running EXCEPT ![r] = running[r]]
      /\ timers' = [timers EXCEPT ![r] = timers[r]] /\ cur' = [cur EXCEPT ![r] = cur[r]]
  BY SameManaged
<1> QED
  BY <1>1, <1>2, <1>3, OneManaged

LEMMA SchedulerStartManaged ==
  ASSUME IInv, Managed, NEW r \in Router, SchedulerStart(r) PROVE Managed'
<1>1. sch' = [sch EXCEPT ![r] = StartWorkers(sch[r])]
  BY DEF SchedulerStart
<1>2. UNCHANGED <<rl, room, cur, timers, running>>
  BY DEF SchedulerStart
<1> QED
  BY <1>1, <1>2, ManagedRouter, StartWorkersTyped, QueuesManaged

LEMMA QueueExpireManaged ==
  ASSUME IInv, Managed, NEW r \in Router, NEW i \in Interval, QueueExpire(r, i)
  PROVE  Managed'
<1>1. sch' = [sch EXCEPT ![r] = ExpireQueue(sch[r], i)] /\ sch[r].expiring[i] > 0
  BY DEF QueueExpire
<1>2. UNCHANGED <<rl, room, cur, timers, running>>
  BY DEF QueueExpire
<1> QED
  BY <1>1, <1>2, ManagedRouter, ExpireTyped, QueuesManaged

LEMMA RemoveTimerManaged ==
  ASSUME IInv, Managed, NEW r \in Router, NEW g \in DOMAIN timers[r], RemoveTimer(r, g)
  PROVE  Managed'
<1> DEFINE t == [timers[r] EXCEPT ![g] = @ - 1]
<1>1. timers' = [timers EXCEPT ![r] = t] /\ rl' = rl
  BY DEF RemoveTimer
<1>2. Len(t) = Len(timers[r])
  <2>1. g \in 1..Len(timers[r]) /\ timers[r][g] \in Nat /\ timers[r][g] > 0
    BY ManagedRouter DEF RemoveTimer
  <2>2. t = [timers[r] EXCEPT ![g] = timers[r][g] - 1] /\ timers[r][g] - 1 \in Nat
    BY <2>1
  <2> QED
    BY ManagedRouter, <2>1, <2>2
<1> HIDE DEF t
<1>3. rl' = [rl EXCEPT ![r] = rl[r]]
  BY <1>1, SameManaged
<1>4. CASE rl[r] = << >>
  <2>1. /\ running' = [running EXCEPT ![r] = running[r] \ {g}]
        /\ cur' = [cur EXCEPT ![r] = 0] /\ room' = [room EXCEPT ![r] = 0]
        /\ sch' = [sch EXCEPT ![r] = NoScheduler]
    BY <1>4 DEF RemoveTimer
  <2>2. RoomFor(rl[r], 0) /\ HandedOut(running[r] \ {g}, t) /\ Fits(NoScheduler, rl[r], 0)
    BY <1>2, <1>4, ManagedRouter, NoSchedulerTyped DEF RoomFor, HandedOut, Fits
  <2> QED
    BY <1>1, <1>3, <2>1, <2>2, NoSchedulerTyped, OneManaged
<1>5. CASE rl[r] # << >>
  <2>1. UNCHANGED <<running, cur, room, sch>>
    BY <1>5 DEF RemoveTimer
  <2>2. /\ running' = [running EXCEPT ![r] = running[r]]
        /\ cur' = [cur EXCEPT ![r] = cur[r]] /\ room' = [room EXCEPT ![r] = room[r]]
        /\ sch' = [sch EXCEPT ![r] = sch[r]]
    BY <2>1, SameManaged
  <2>3. /\ RoomFor(rl[r], room[r]) /\ HandedOut(running[r], t)
        /\ Fits(sch[r], rl[r], cur[r]) /\ sch[r] \in Scheduler
    BY <1>2, ManagedRouter DEF HandedOut
  <2> QED
    BY <1>1, <1>3, <2>2, <2>3, OneManaged
<1> QED
  BY <1>4, <1>5

LEMMA FullSyncManaged == ASSUME IInv, Managed, FullSyncApply PROVE Managed'
<1>1. PICK m \in snap :
      \E q \in [Router -> UNION {Orders(EntriesOf(m, r)) : r \in Router}] :
        /\ \A r \in Router : q[r] \in Orders(EntriesOf(m, r))
        /\ rl' = q
        /\ room' = [r \in Router |-> Capacity[Len(q[r])]]
        /\ timers' = [r \in Router |->
                        IF GetsScheduler(q, r) THEN Append(timers[r], 0) ELSE timers[r]]
        /\ cur' = [r \in Router |-> CASE GetsScheduler(q, r) -> Len(timers[r]) + 1
                                       [] LosesScheduler(q, r) -> 0
                                       [] OTHER -> cur[r]]
        /\ running' = [r \in Router |->
                         CASE GetsScheduler(q, r) -> running[r] \cup {Len(timers[r]) + 1}
                           [] LosesScheduler(q, r) -> running[r] \ {cur[r]}
                           [] OTHER -> running[r]]
        /\ sch' = [r \in Router |->
                     CASE GetsScheduler(q, r) -> NewScheduler(q[r])
                       [] LosesScheduler(q, r) -> NoScheduler
                       [] OTHER -> Unshare(sch[r])]
  BY DEF FullSyncApply
<1>2. PICK q \in [Router -> UNION {Orders(EntriesOf(m, r)) : r \in Router}] :
        /\ \A r \in Router : q[r] \in Orders(EntriesOf(m, r))
        /\ rl' = q
        /\ room' = [r \in Router |-> Capacity[Len(q[r])]]
        /\ timers' = [r \in Router |->
                        IF GetsScheduler(q, r) THEN Append(timers[r], 0) ELSE timers[r]]
        /\ cur' = [r \in Router |-> CASE GetsScheduler(q, r) -> Len(timers[r]) + 1
                                       [] LosesScheduler(q, r) -> 0
                                       [] OTHER -> cur[r]]
        /\ running' = [r \in Router |->
                         CASE GetsScheduler(q, r) -> running[r] \cup {Len(timers[r]) + 1}
                           [] LosesScheduler(q, r) -> running[r] \ {cur[r]}
                           [] OTHER -> running[r]]
        /\ sch' = [r \in Router |->
                     CASE GetsScheduler(q, r) -> NewScheduler(q[r])
                       [] LosesScheduler(q, r) -> NoScheduler
                       [] OTHER -> Unshare(sch[r])]
  BY <1>1
<1>3. m \in LineMap
  BY DEF IInv, Types
<1>4. \A r \in Router : q[r] \in Seq(Entry) /\ Len(q[r]) \in Nat
  <2> TAKE r \in Router
  <2>1. q[r] \in Seq(Entry)
    BY <1>2, <1>3, OrdersAreLists
  <2> QED
    BY <2>1
<1>5. \A r \in Router : room'[r] = Capacity[Len(q[r])] /\ RoomFor(rl'[r], room'[r])
  BY <1>2, <1>4, CapacityEnough DEF RoomFor
<1>6. room' \in [Router -> Nat]
  BY <1>2, <1>5 DEF RoomFor
<1>7. ASSUME NEW r \in Router PROVE HandedOut(running'[r], timers'[r])
  <2>1. /\ GetsScheduler(q, r) => /\ timers'[r] = Append(timers[r], 0)
                                  /\ running'[r] = running[r] \cup {Len(timers[r]) + 1}
        /\ ~ GetsScheduler(q, r) =>
             timers'[r] = timers[r] /\ running'[r] \in {running[r], running[r] \ {cur[r]}}
    BY <1>2 DEF GetsScheduler, LosesScheduler
  <2>2. /\ timers[r] \in Seq(Nat) /\ Len(timers[r]) \in Nat
        /\ running[r] \subseteq 1..Len(timers[r])
    BY ManagedRouter DEF HandedOut
  <2>3. Len(Append(timers[r], 0)) = Len(timers[r]) + 1
    BY <2>2
  <2>4. running[r] \cup {Len(timers[r]) + 1} \subseteq 1..(Len(timers[r]) + 1)
    BY <2>2
  <2> QED
    BY <2>1, <2>2, <2>3, <2>4 DEF HandedOut
<1>8. ASSUME NEW r \in Router
      PROVE  sch'[r] \in Scheduler /\ Fits(sch'[r], rl'[r], cur'[r])
  <2>1. /\ GetsScheduler(q, r) => sch'[r] = NewScheduler(q[r]) /\ cur'[r] = Len(timers[r]) + 1
        /\ ~ GetsScheduler(q, r) => sch'[r] \in {NoScheduler, Unshare(sch[r])}
    BY <1>2 DEF GetsScheduler, LosesScheduler
  <2>2. Len(timers[r]) \in Nat /\ sch[r] \in Scheduler
    BY ManagedRouter
  <2>3. CASE GetsScheduler(q, r)
    BY <1>2, <1>4, <2>1, <2>2, <2>3, NewSchedulerTyped DEF Fits
  <2>4. CASE ~ GetsScheduler(q, r)
    <3>1. sch'[r] \in Scheduler /\ sch'[r].shared = FALSE
      BY <2>1, <2>2, <2>4, NoSchedulerTyped, UnshareTyped
    <3> QED
      BY <3>1 DEF Fits
  <2> QED
    BY <2>3, <2>4
<1>9. sch' \in [Router -> Scheduler]
  BY <1>2, <1>8
<1> QED
  BY <1>5, <1>6, <1>7, <1>8, <1>9 DEF Managed

\* The scheduler's list after the manager has appended a line its own list did
\* not have: the line is written into the array they share, or appended to
\* both, so the scheduler's list still begins with the manager's.
LEMMA CreatedFits ==
  ASSUME NEW s \in Scheduler, NEW p \in Seq(Entry), NEW g, NEW e \in Entry,
         Fits(s, p, g), \A k \in 1..Len(p) : p[k].line # e.line,
         NEW seen \in {SeeWrite(s, Len(p) + 1, e.line), Unshare(s)},
         NEW t, t = OnLineCreated(seen, e.line, e.interval)
  PROVE  t \in Scheduler /\ Fits(t, Append(p, e), g)
<1> DEFINE n == Len(p)
           q == Append(p, e)
<1>1. n \in Nat /\ e.line \in Line /\ e.interval \in Interval /\ n + 1 \in Nat \ {0}
  BY DEF Entry
<1>2. /\ Len(q) = n + 1 /\ q[n + 1] = e
      /\ \A k \in 1..n : q[k] = p[k]
  OBVIOUS
<1>3. seen \in Scheduler
  <2>1. SeeWrite(s, n + 1, e.line) \in Scheduler
    BY <1>1, SeeWriteTyped
  <2> QED
    BY <2>1, UnshareTyped
<1>4. /\ t \in Scheduler /\ t.shared = seen.shared
      /\ (\E k \in DOMAIN seen.lines : seen.lines[k] = e.line) => t.lines = seen.lines
      /\ (~ \E k \in DOMAIN seen.lines : seen.lines[k] = e.line) =>
           t.lines = Append(seen.lines, e.line)
  BY <1>1, <1>3, CreatedTyped
<1>5. CASE seen = Unshare(s) \/ ~ s.shared
  <2>1. CASE seen = Unshare(s)
    <3>1. seen.shared = FALSE
      BY <2>1, UnshareTyped
    <3> QED
      BY <1>4, <3>1 DEF Fits
  <2>2. CASE seen = SeeWrite(s, n + 1, e.line) /\ ~ s.shared
    <3>1. seen.shared = s.shared
      BY <1>1, <2>2, SeeWriteTyped
    <3> QED
      BY <1>4, <2>2, <3>1 DEF Fits
  <2> QED
    BY <1>5, <2>1, <2>2
<1>6. CASE seen = SeeWrite(s, n + 1, e.line) /\ s.shared
  <2>1. g # 0 /\ n <= Len(s.lines) /\ \A k \in 1..n : s.lines[k] = p[k].line
    BY <1>6 DEF Fits
  <2>2. s.lines \in Seq(Line) /\ DOMAIN s.lines = 1..Len(s.lines) /\ Len(s.lines) \in Nat
    BY SchedulerFields
  <2>3. CASE n + 1 <= Len(s.lines)
    <3>1. seen.lines = [s.lines EXCEPT ![n + 1] = e.line]
      BY <1>1, <1>6, <2>3, SeeWriteTyped
    <3>2. /\ DOMAIN seen.lines = DOMAIN s.lines /\ Len(seen.lines) = Len(s.lines)
          /\ seen.lines[n + 1] = e.line
          /\ \A k \in 1..n : seen.lines[k] = s.lines[k]
      BY <1>1, <2>2, <2>3, <3>1
    <3>3. n + 1 \in DOMAIN seen.lines
      BY <1>1, <2>2, <2>3, <3>2
    <3>4. t.lines = seen.lines
      BY <1>4, <3>2, <3>3
    <3>5. \A k \in 1..(n + 1) : t.lines[k] = q[k].line
      BY <1>1, <1>2, <2>1, <3>2, <3>4
    <3>6. n + 1 <= Len(t.lines)
      BY <2>3, <3>2, <3>4
    <3> HIDE DEF n, q
    <3>7. Fits(t, q, g)
      BY <1>2, <2>1, <3>5, <3>6 DEF Fits
    <3> QED
      BY <1>4, <3>7 DEF q
  <2>4. CASE ~ (n + 1 <= Len(s.lines))
    <3>1. seen.lines = s.lines
      BY <1>1, <1>6, <2>4, SeeWriteTyped
    <3>2. Len(s.lines) = n
      BY <1>1, <2>1, <2>2, <2>4
    <3>3. \A k \in DOMAIN s.lines : s.lines[k] # e.line
      BY <2>1, <2>2, <3>2
    <3>4. t.lines = Append(s.lines, e.line)
      BY <1>4, <3>1, <3>3
    <3>5. /\ Len(t.lines) = n + 1 /\ t.lines[n + 1] = e.line
          /\ \A k \in 1..n : t.lines[k] = s.lines[k]
      BY <1>1, <2>2, <3>2, <3>4
    <3>6. \A k \in 1..(n + 1) : t.lines[k] = q[k].line
      BY <1>1, <1>2, <2>1, <3>5
    <3>7. n + 1 <= Len(t.lines)
      BY <1>1, <3>5
    <3> HIDE DEF n, q
    <3>8. Fits(t, q, g)
      BY <1>2, <2>1, <3>6, <3>7 DEF Fits
    <3> QED
      BY <1>4, <3>8 DEF q
  <2> QED
    BY <2>3, <2>4
<1> QED
  BY <1>5, <1>6

\* The array has room for an entry more, or grows.
LEMMA RoomGrows ==
  ASSUME NEW q \in Seq(Entry), NEW c \in Nat, RoomFor(q, c), NEW e \in Entry
  PROVE  RoomFor(Append(q, e), IF Len(q) < c THEN c ELSE Grown(c))
<1>1. Len(Append(q, e)) = Len(q) + 1 /\ Len(q) \in Nat
  OBVIOUS
<1>2. Grown(c) \in Nat /\ c + 1 <= Grown(c)
  BY DEF Grown
<1> QED
  BY <1>1, <1>2 DEF RoomFor

LEMMA LineCreateManaged == ASSUME IInv, Managed, LineCreate PROVE Managed'
<1> DEFINE e == Head(inbox)
           r == e.router
           n == Len(rl[r])
           a == [line |-> e.line, interval |-> e.interval]
           q == Append(rl[r], a)
           g == Len(timers[r]) + 1
           c == IF n < room[r] THEN room[r] ELSE Grown(room[r])
           seen == IF n < room[r] THEN SeeWrite(sch[r], n + 1, e.line) ELSE Unshare(sch[r])
           s == OnLineCreated(seen, e.line, e.interval)
<1>1. Receive("create")
  BY DEF LineCreate
<1>2. r \in Router /\ e.line \in Line /\ e.interval \in Interval /\ a \in Entry
  BY <1>1, ReceivedEvent
<1>3. CASE UNCHANGED managerVars
  BY <1>3 DEF managerVars, Managed
<1>4. CASE ~ IsDuplicate(r, e.line) /\ ~ UNCHANGED managerVars
  <2>1. /\ rl' = [rl EXCEPT ![r] = q]
        /\ room' = [room EXCEPT ![r] = IF n < @ THEN @ ELSE Grown(@)]
        /\ \/ /\ HasScheduler(r)
              /\ sch' = [sch EXCEPT ![r] = s]
              /\ UNCHANGED <<cur, timers, running>>
           \/ /\ ~ HasScheduler(r)
              /\ timers' = [timers EXCEPT ![r] = Append(@, 0)]
              /\ cur' = [cur EXCEPT ![r] = g]
              /\ running' = [running EXCEPT ![r] = @ \cup {g}]
              /\ sch' = [sch EXCEPT ![r] = NewScheduler(q)]
           \/ ~ HasScheduler(r) /\ UNCHANGED <<cur, timers, running, sch>>
    BY <1>4 DEF LineCreate
  <2>2. room' = [room EXCEPT ![r] = c]
    BY <2>1
  <2>3. /\ rl[r] \in Seq(Entry) /\ timers[r] \in Seq(Nat) /\ room[r] \in Nat
        /\ Len(timers[r]) \in Nat /\ sch[r] \in Scheduler
        /\ RoomFor(rl[r], room[r]) /\ HandedOut(running[r], timers[r])
        /\ Fits(sch[r], rl[r], cur[r])
    BY <1>2, ManagedRouter
  <2>4. RoomFor(q, c)
    <3> HIDE DEF a, e, r
    <3> QED
      BY <1>2, <2>3, RoomGrows
  <2>5. \A k \in 1..Len(rl[r]) : rl[r][k].line # e.line
    BY <1>4, <2>3 DEF PositionsIn, IsDuplicate
  <2>6. a.line = e.line /\ a.interval = e.interval
    OBVIOUS
  <2>7. s \in Scheduler /\ Fits(s, q, cur[r])
    <3>1. seen \in {SeeWrite(sch[r], Len(rl[r]) + 1, a.line), Unshare(sch[r])}
      BY <2>6
    <3>2. s = OnLineCreated(seen, a.line, a.interval)
      BY <2>6
    <3>3. \A k \in 1..Len(rl[r]) : rl[r][k].line # a.line
      BY <2>5, <2>6
    <3> HIDE DEF e, r, a, seen, s
    <3> QED
      BY <1>2, <2>3, <3>1, <3>2, <3>3, CreatedFits
  <2>8. /\ cur = [cur EXCEPT ![r] = cur[r]] /\ timers = [timers EXCEPT ![r] = timers[r]]
        /\ running = [running EXCEPT ![r] = running[r]] /\ sch = [sch EXCEPT ![r] = sch[r]]
    BY <1>2, SameManaged
  <2>9. q \in Seq(Entry)
    BY <1>2, <2>3
  <2> HIDE DEF e, r, n, a, q, c, seen, s
  <2>10. CASE HasScheduler(r) /\ sch' = [sch EXCEPT ![r] = s] /\ UNCHANGED <<cur, timers, running>>
    <3>1. /\ cur' = [cur EXCEPT ![r] = cur[r]] /\ timers' = [timers EXCEPT ![r] = timers[r]]
          /\ running' = [running EXCEPT ![r] = running[r]]
      BY <2>8, <2>10
    <3> QED
      BY <1>2, <2>1, <2>2, <2>3, <2>4, <2>7, <2>10, <3>1, OneManaged
  <2>11. CASE /\ timers' = [timers EXCEPT ![r] = Append(@, 0)]
              /\ cur' = [cur EXCEPT ![r] = g]
              /\ running' = [running EXCEPT ![r] = @ \cup {g}]
              /\ sch' = [sch EXCEPT ![r] = NewScheduler(q)]
    <3>1. /\ timers' = [timers EXCEPT ![r] = Append(timers[r], 0)]
          /\ running' = [running EXCEPT ![r] = running[r] \cup {g}]
      BY <2>11
    <3>2. HandedOut(running[r] \cup {g}, Append(timers[r], 0))
      <4>1. Len(Append(timers[r], 0)) = g
        BY <2>3
      <4>2. running[r] \cup {g} \subseteq 1..g
        BY <2>3 DEF HandedOut
      <4> QED
        BY <4>1, <4>2 DEF HandedOut
    <3>3. g # 0
      BY <2>3
    <3>4. NewScheduler(q) \in Scheduler /\ Fits(NewScheduler(q), q, g)
      <4>1. /\ NewScheduler(q) \in Scheduler /\ NewScheduler(q).lines = LinesOf(q)
            /\ Len(LinesOf(q)) = Len(q)
            /\ \A k \in 1..Len(q) : LinesOf(q)[k] = q[k].line
        BY <2>9, NewSchedulerTyped
      <4>2. Len(q) <= Len(LinesOf(q))
        BY <2>9, <4>1
      <4> QED
        BY <3>3, <4>1, <4>2 DEF Fits
    <3> HIDE DEF g
    <3> QED
      BY <1>2, <2>1, <2>2, <2>4, <2>11, <3>1, <3>2, <3>4, OneManaged
  <2>12. CASE ~ HasScheduler(r) /\ UNCHANGED <<cur, timers, running, sch>>
    <3>1. /\ cur' = [cur EXCEPT ![r] = cur[r]] /\ timers' = [timers EXCEPT ![r] = timers[r]]
          /\ running' = [running EXCEPT ![r] = running[r]] /\ sch' = [sch EXCEPT ![r] = sch[r]]
      BY <2>8, <2>12
    <3>2. Fits(sch[r], q, cur[r])
      BY <2>3, <2>12 DEF Fits, HasScheduler
    <3> QED
      BY <1>2, <2>1, <2>2, <2>3, <2>4, <3>1, <3>2, OneManaged
  <2> QED
    BY <2>1, <2>10, <2>11, <2>12
<1> QED
  BY <1>3, <1>4 DEF LineCreate

LEMMA LineUpdateManaged == ASSUME IInv, Managed, LineUpdate PROVE Managed'
<1> DEFINE e == Head(inbox)
           r == e.router
<1>1. Receive("update") /\ UNCHANGED <<room, cur, timers, running>>
  BY DEF LineUpdate
<1>2. r \in Router /\ e.line \in Line /\ e.interval \in Interval
  BY <1>1, ReceivedEvent
<1>3. CASE UNCHANGED <<rl, sch>>
  BY <1>1, <1>3 DEF Managed
<1>4. ASSUME NEW k \in PositionsIn(r, e.line),
             rl' = [rl EXCEPT ![r][k].interval = e.interval],
             sch' = IF HasScheduler(r)
                      THEN [sch EXCEPT ![r] =
                              OnLineUpdated(@, e.line, rl[r][k].interval, e.interval)]
                      ELSE sch
      PROVE  Managed'
  <2> DEFINE b == [rl[r][k] EXCEPT !.interval = e.interval]
             q == [rl[r] EXCEPT ![k] = b]
             s == IF HasScheduler(r)
                    THEN OnLineUpdated(sch[r], e.line, rl[r][k].interval, e.interval)
                    ELSE sch[r]
  <2>1. /\ rl[r] \in Seq(Entry) /\ sch[r] \in Scheduler
        /\ RoomFor(rl[r], room[r]) /\ HandedOut(running[r], timers[r])
        /\ Fits(sch[r], rl[r], cur[r])
    BY <1>2, ManagedRouter
  <2>2. k \in 1..Len(rl[r])
    BY <1>4, <2>1 DEF PositionsIn
  <2>3. rl[r][k] \in Entry /\ rl[r][k].interval \in Interval
    <3>1. rl[r][k] \in Entry
      BY <2>1, <2>2
    <3> QED
      BY <3>1 DEF Entry
  <2>4. b \in Entry /\ b.line = rl[r][k].line
    BY <1>2, <2>3 DEF Entry
  <2>5. rl' = [rl EXCEPT ![r] = q]
    BY <1>4
  <2>6. sch' = [sch EXCEPT ![r] = s]
    <3>1. sch = [sch EXCEPT ![r] = sch[r]]
      BY <1>2, SameManaged
    <3> QED
      BY <1>4, <3>1
  <2>7. /\ cur' = [cur EXCEPT ![r] = cur[r]] /\ timers' = [timers EXCEPT ![r] = timers[r]]
        /\ running' = [running EXCEPT ![r] = running[r]]
        /\ room' = [room EXCEPT ![r] = room[r]]
    BY <1>1, <1>2, SameManaged
  <2>8. s \in Scheduler /\ s.lines = sch[r].lines /\ s.shared = sch[r].shared
    BY <1>2, <2>1, <2>3, UpdatedTyped
  <2> HIDE DEF b, s, e, r
  <2>9. /\ Len(q) = Len(rl[r])
        /\ \A j \in 1..Len(rl[r]) : q[j].line = rl[r][j].line
    BY <2>1, <2>2, <2>4
  <2> HIDE DEF q
  <2>10. RoomFor(q, room[r]) /\ Fits(s, q, cur[r])
    BY <2>1, <2>8, <2>9 DEF RoomFor, Fits
  <2> QED
    BY <1>2, <2>1, <2>5, <2>6, <2>7, <2>8, <2>10, OneManaged
<1> QED
  BY <1>3, <1>4 DEF LineUpdate

\* A shift moves the scheduler's list along with the manager's.
LEMMA ShiftFits ==
  ASSUME NEW s \in Scheduler, NEW p \in Seq(Entry), NEW k \in 1..Len(p), NEW g,
         Fits(s, p, g)
  PROVE  /\ SeeShift(s, k, Len(p)) \in Scheduler
         /\ Fits(SeeShift(s, k, Len(p)), Without(p, k), g)
<1> DEFINE n == Len(p)
           t == SeeShift(s, k, n)
           q == Without(p, k)
<1>1. n \in Nat /\ k \in 1..n
  OBVIOUS
<1>2. s.shared => /\ g # 0 /\ n <= Len(s.lines)
                  /\ \A j \in 1..n : s.lines[j] = p[j].line
  BY DEF Fits
<1>3. /\ t \in Scheduler /\ t.shared = s.shared
      /\ s.shared => /\ Len(t.lines) = Len(s.lines)
                     /\ \A j \in 1..(n - 1) :
                          t.lines[j] = IF j < k THEN s.lines[j] ELSE s.lines[j + 1]
  <2> HIDE DEF n
  <2> QED
    BY <1>1, <1>2, SeeShiftTyped
<1>4. /\ Len(q) = n - 1
      /\ \A j \in 1..(n - 1) : q[j] = IF j < k THEN p[j] ELSE p[j + 1]
  BY WithoutIsList DEF Without
<1>5. ASSUME s.shared
      PROVE  g # 0 /\ Len(q) <= Len(t.lines) /\ \A j \in 1..Len(q) : t.lines[j] = q[j].line
  <2>1. Len(s.lines) \in Nat
    BY SchedulerFields
  <2> HIDE DEF n, t, q
  <2>2. Len(q) <= Len(t.lines)
    BY <1>1, <1>2, <1>3, <1>4, <1>5, <2>1
  <2>3. \A j \in 1..(n - 1) : t.lines[j] = q[j].line
    <3> TAKE j \in 1..(n - 1)
    <3>1. j \in 1..n /\ j + 1 \in 1..n
      BY <1>1
    <3> QED
      BY <1>2, <1>3, <1>4, <1>5, <3>1
  <2> QED
    BY <1>2, <1>4, <1>5, <2>2, <2>3
<1> HIDE DEF t, q
<1>6. Fits(t, q, g)
  BY <1>3, <1>5 DEF Fits
<1> QED
  BY <1>3, <1>6 DEF t, q

LEMMA LineDeleteManaged == ASSUME IInv, Managed, LineDelete PROVE Managed'
<1> DEFINE e == Head(inbox)
           r == e.router
           P == PositionsIn(r, e.line)
           x == CHOOSE k \in P : TRUE
           q == IF P = {} THEN rl[r] ELSE Without(rl[r], x)
           seen == IF P = {} THEN sch[r] ELSE SeeShift(sch[r], x, Len(rl[r]))
           s == IF HasScheduler(r) THEN OnLineDeleted(seen, e.line, e.interval) ELSE sch[r]
           t == IF HasScheduler(r) /\ q = << >>
                  THEN [timers[r] EXCEPT ![cur[r]] = @ + 1] ELSE timers[r]
<1>1. Receive("delete") /\ UNCHANGED <<room, cur, running>>
  BY DEF LineDelete
<1>2. r \in Router /\ e.line \in Line /\ e.interval \in Interval
  BY <1>1, ReceivedEvent
<1>3. rl' = [rl EXCEPT ![r] = q]
  BY DEF LineDelete
<1>4. sch' = IF HasScheduler(r)
               THEN [sch EXCEPT ![r] = OnLineDeleted(seen, e.line, e.interval)] ELSE sch
  BY DEF LineDelete
<1>5. timers' = IF HasScheduler(r) /\ q = << >>
                  THEN [timers EXCEPT ![r][cur[r]] = @ + 1] ELSE timers
  BY DEF LineDelete
<1>6. /\ rl[r] \in Seq(Entry) /\ sch[r] \in Scheduler /\ timers[r] \in Seq(Nat)
      /\ Len(rl[r]) \in Nat /\ room[r] \in Nat
      /\ RoomFor(rl[r], room[r]) /\ HandedOut(running[r], timers[r])
      /\ Fits(sch[r], rl[r], cur[r])
  BY <1>2, ManagedRouter
<1>7. /\ cur = [cur EXCEPT ![r] = cur[r]] /\ timers = [timers EXCEPT ![r] = timers[r]]
      /\ running = [running EXCEPT ![r] = running[r]]
      /\ room = [room EXCEPT ![r] = room[r]] /\ sch = [sch EXCEPT ![r] = sch[r]]
  BY <1>2, SameManaged
<1>8. P # {} => x \in 1..Len(rl[r])
  <2>1. P # {} => x \in P
    OBVIOUS
  <2>2. P \subseteq 1..Len(rl[r])
    BY <1>6 DEF PositionsIn
  <2> HIDE DEF x, P
  <2> QED
    BY <2>1, <2>2
<1> HIDE DEF x, P, e, r
<1>9. seen \in Scheduler /\ Fits(seen, q, cur[r])
  BY <1>6, <1>8, ShiftFits
<1>10. RoomFor(q, room[r])
  BY <1>6, <1>8, WithoutIsList DEF RoomFor
<1> HIDE DEF seen, q
<1>11. sch' = [sch EXCEPT ![r] = s]
  BY <1>4, <1>7
<1>12. timers' = [timers EXCEPT ![r] = t]
  BY <1>5, <1>7
<1>13. s \in Scheduler /\ Fits(s, q, cur[r])
  <2>1. CASE HasScheduler(r)
    <3> DEFINE d == OnLineDeleted(seen, e.line, e.interval)
    <3>1. d \in Scheduler /\ d.lines = seen.lines /\ d.shared = seen.shared
      BY <1>2, <1>9, DeletedTyped
    <3>2. s = d
      BY <2>1
    <3> HIDE DEF d, s
    <3> QED
      BY <1>9, <3>1, <3>2 DEF Fits
  <2>2. CASE ~ HasScheduler(r)
    <3>1. s = sch[r]
      BY <2>2
    <3> HIDE DEF s
    <3> QED
      BY <1>6, <2>2, <3>1 DEF Fits, HasScheduler
  <2> QED
    BY <2>1, <2>2
<1>14. HandedOut(running[r], t)
  <2>1. Len([timers[r] EXCEPT ![cur[r]] = @ + 1]) = Len(timers[r])
    BY <1>6
  <2> QED
    BY <1>6, <2>1 DEF HandedOut
<1> HIDE DEF s, t
<1>15. /\ cur' = [cur EXCEPT ![r] = cur[r]] /\ running' = [running EXCEPT ![r] = running[r]]
       /\ room' = [room EXCEPT ![r] = room[r]]
  BY <1>1, <1>7
<1> QED
  BY <1>2, <1>3, <1>10, <1>11, <1>12, <1>13, <1>14, <1>15, OneManaged

LEMMA ManagedStep == IInv /\ Managed /\ [Next]_vars => Managed'
<1> SUFFICES ASSUME IInv, Managed, [Next]_vars PROVE Managed'
  OBVIOUS
<1>1. CASE UNCHANGED managerVars
  BY <1>1 DEF managerVars, Managed
<1>2. CASE UNCHANGED vars
  BY <1>1, <1>2 DEF vars, managerVars
<1>3. CASE \/ Sync \/ FullSyncGiveUp \/ FullSyncRead \/ Subscribe
           \/ \E k \in 1..MaxSyncs : Notify(k)
  BY <1>1, <1>3 DEF Sync, Notify, FullSyncGiveUp, FullSyncRead, Subscribe
<1> QED
  BY <1>2, <1>3, FullSyncManaged, LineCreateManaged, LineUpdateManaged,
     LineDeleteManaged, RemoveTimerManaged, SchedulerStartManaged,
     QueueExpireManaged DEF Next

\* Every variable keeps to its Go type, the channel and the backing arrays to
\* their capacity and the schedulers in the map to those handed out, through
\* every event, timer and full sync (manager.go and router_scheduler.go).
THEOREM TypesKept == Spec => []TypeOK
<1>1. IInv /\ Bounded /\ Managed => TypeOK
  <2> SUFFICES ASSUME IInv, Bounded, Managed PROVE TypeOK
    OBVIOUS
  <2>1. Cardinality(snap) <= 1
    <3>1. CASE snap = {}
      BY <3>1, FS_EmptySet
    <3>2. ASSUME NEW m \in LineMap, snap = {m} PROVE Cardinality(snap) <= 1
      BY <3>2, FS_Singleton
    <3> QED
      BY <3>1, <3>2 DEF Bounded
  <2>2. DOMAIN sch = Router /\ \A r \in Router : IsScheduler(sch[r])
    BY SchedulerTyped DEF Managed
  <2>3. /\ room \in [Router -> Nat] /\ \A r \in Router : Len(rl[r]) <= room[r]
        /\ \A r \in Router : running[r] \subseteq 1..Len(timers[r])
    BY DEF Managed, RoomFor, HandedOut
  <2> QED
    BY <2>1, <2>2, <2>3 DEF IInv, Types, Bounded, TypeOK
<1>2. Init => Bounded /\ Managed
  BY BoundedInit, ManagedInit
<1> QED
  BY <1>1, <1>2, Invariant, BoundedStep, ManagedStep, PTL DEF Spec

--------------------------------------------------------------------------------
(* The lists: no line twice, and what a full sync repairs. *)

Once(q) == \A j, k \in DOMAIN q : q[j].line = q[k].line => j = k

\* A list that fullSync builds has every line once: the map has one entry per
\* line.
LEMMA OrdersOnce ==
  ASSUME NEW m \in LineMap, NEW r \in Router, NEW q \in Orders(EntriesOf(m, r))
  PROVE  Once(q)
<1> SUFFICES ASSUME NEW j \in DOMAIN q, NEW k \in DOMAIN q, q[j].line = q[k].line
             PROVE  j = k
  BY DEF Once
<1> DEFINE S == EntriesOf(m, r)
<1>1. PICK n \in 0..Cardinality(S) : q \in [1..n -> S]
  BY DEF Orders
<1>2. q[j] \in S /\ q[k] \in S
  BY <1>1
<1>3. \A a \in S : a = [line |-> a.line, interval |-> m[a.line].interval]
  BY DEF EntriesOf
<1>4. q[j] = q[k]
  BY <1>2, <1>3, Zenon
<1> QED
  BY <1>4 DEF Orders

LEMMA AppendOnce ==
  ASSUME NEW q \in Seq(Entry), Once(q), NEW e \in Entry,
         \A k \in DOMAIN q : q[k].line # e.line
  PROVE  Once(Append(q, e))
<1> DEFINE p == Append(q, e)
           n == Len(q)
<1>1. /\ n \in Nat /\ DOMAIN q = 1..n /\ DOMAIN p = 1..(n + 1)
      /\ p[n + 1] = e /\ \A k \in 1..n : p[k] = q[k]
  OBVIOUS
<1> HIDE DEF p, n
<1>2. ASSUME NEW j \in 1..(n + 1), NEW k \in 1..(n + 1), p[j].line = p[k].line
      PROVE  j = k
  <2>1. CASE j \in 1..n /\ k \in 1..n
    BY <1>1, <1>2, <2>1 DEF Once
  <2>2. CASE j = n + 1 /\ k \in 1..n
    BY <1>1, <1>2, <2>2
  <2>3. CASE k = n + 1 /\ j \in 1..n
    BY <1>1, <1>2, <2>3
  <2> QED
    BY <1>1, <2>1, <2>2, <2>3
<1>3. Once(p)
  BY <1>1, <1>2 DEF Once
<1> QED
  BY <1>3 DEF p

LEMMA WithoutOnce ==
  ASSUME NEW q \in Seq(Entry), Once(q), NEW k \in 1..Len(q)
  PROVE  Once(Without(q, k))
<1> DEFINE p == Without(q, k)
           n == Len(q) - 1
<1>1. n \in Nat /\ DOMAIN q = 1..(n + 1) /\ DOMAIN p = 1..n /\ k \in 1..(n + 1)
  BY DEF Without
<1>2. \A j \in 1..n : p[j] = IF j < k THEN q[j] ELSE q[j + 1]
  BY DEF Without
<1> HIDE DEF p, n
<1>3. ASSUME NEW i \in 1..n, NEW j \in 1..n, p[i].line = p[j].line PROVE i = j
  <2> DEFINE x == IF i < k THEN i ELSE i + 1
             y == IF j < k THEN j ELSE j + 1
  <2>1. x \in 1..(n + 1) /\ y \in 1..(n + 1) /\ p[i] = q[x] /\ p[j] = q[y]
    BY <1>1, <1>2
  <2>2. x = y
    <3> HIDE DEF x, y
    <3> QED
      BY <1>1, <1>3, <2>1 DEF Once
  <2> QED
    BY <1>1, <2>2
<1>4. Once(p)
  BY <1>1, <1>3 DEF Once
<1> QED
  BY <1>4 DEF p

LEMMA ListedStep == IInv /\ ListedOnce /\ [Next]_vars => ListedOnce'
<1> SUFFICES ASSUME IInv, ListedOnce, [Next]_vars PROVE ListedOnce'
  OBVIOUS
<1>0. \A r \in Router : Once(rl[r]) /\ rl[r] \in Seq(Entry)
  BY DEF ListedOnce, Once, IInv, Types
<1>1. ASSUME \A r \in Router : Once(rl'[r]) PROVE ListedOnce'
  BY <1>1 DEF ListedOnce, Once
<1>2. ASSUME NEW r \in Router, NEW q, Once(q), rl' = [rl EXCEPT ![r] = q]
      PROVE  ListedOnce'
  <2>1. \A o \in Router : rl'[o] = IF o = r THEN q ELSE rl[o]
    BY <1>2 DEF IInv, Types
  <2> QED
    BY <1>0, <1>1, <1>2, <2>1
<1>3. CASE UNCHANGED rl
  BY <1>0, <1>1, <1>3
<1>4. CASE UNCHANGED vars
  BY <1>3, <1>4 DEF vars
<1>5. CASE \/ Sync \/ FullSyncGiveUp \/ FullSyncRead \/ Subscribe
           \/ \E k \in 1..MaxSyncs : Notify(k)
  BY <1>3, <1>5 DEF Sync, Notify, FullSyncGiveUp, FullSyncRead, Subscribe, managerVars
<1>6. CASE \/ \E r \in Router : \E g \in DOMAIN timers[r] : RemoveTimer(r, g)
           \/ \E r \in Router : SchedulerStart(r)
           \/ \E r \in Router, i \in Interval : QueueExpire(r, i)
  BY <1>3, <1>6 DEF RemoveTimer, SchedulerStart, QueueExpire
<1>7. CASE FullSyncApply
  <2>1. PICK m \in snap : \A r \in Router : rl'[r] \in Orders(EntriesOf(m, r))
    BY <1>7 DEF FullSyncApply
  <2>2. m \in LineMap
    BY DEF IInv, Types
  <2> QED
    BY <1>1, <2>1, <2>2, OrdersOnce
<1> DEFINE e == Head(inbox)
           r == e.router
           a == [line |-> e.line, interval |-> e.interval]
<1>8. CASE LineCreate
  <2>1. r \in Router /\ a \in Entry
    BY <1>8, ReceivedEvent DEF LineCreate
  <2>2. CASE ~ IsDuplicate(r, e.line) /\ rl' = [rl EXCEPT ![r] = Append(rl[r], a)]
    <3>1. \A k \in DOMAIN rl[r] : rl[r][k].line # a.line
      BY <2>2 DEF IsDuplicate, PositionsIn
    <3> HIDE DEF e, r, a
    <3>2. Once(Append(rl[r], a))
      BY <1>0, <2>1, <3>1, AppendOnce
    <3> QED
      BY <1>2, <2>1, <2>2, <3>2
  <2>3. UNCHANGED rl \/ (~ IsDuplicate(r, e.line) /\ rl' = [rl EXCEPT ![r] = Append(rl[r], a)])
    BY <1>8 DEF LineCreate, managerVars
  <2> QED
    BY <1>3, <2>2, <2>3
<1>9. CASE LineUpdate
  <2>1. r \in Router
    BY <1>9, ReceivedEvent DEF LineUpdate
  <2>2. ASSUME NEW k \in PositionsIn(r, e.line),
               rl' = [rl EXCEPT ![r][k].interval = e.interval]
        PROVE  ListedOnce'
    <3> DEFINE b == [rl[r][k] EXCEPT !.interval = e.interval]
               q == [rl[r] EXCEPT ![k] = b]
    <3>1. rl[r] \in Seq(Entry) /\ k \in DOMAIN rl[r]
      BY <1>0, <2>1, <2>2 DEF PositionsIn
    <3>2. rl[r][k] \in Entry
      BY <3>1
    <3>3. b.line = rl[r][k].line
      BY <3>2 DEF Entry
    <3>4. rl' = [rl EXCEPT ![r] = q]
      BY <2>2
    <3> HIDE DEF b, e, r
    <3>5. DOMAIN q = DOMAIN rl[r] /\ \A j \in DOMAIN q : q[j].line = rl[r][j].line
      BY <3>1, <3>3
    <3> HIDE DEF q
    <3>6. Once(q)
      <4>1. Once(rl[r])
        BY <1>0, <2>1
      <4> QED
        BY <3>5, <4>1, Zenon DEF Once
    <3> QED
      BY <1>2, <2>1, <3>4, <3>6
  <2> QED
    BY <1>3, <1>9, <2>2 DEF LineUpdate
<1>10. CASE LineDelete
  <2> DEFINE P == PositionsIn(r, e.line)
             x == CHOOSE k \in P : TRUE
             q == IF P = {} THEN rl[r] ELSE Without(rl[r], x)
  <2>1. r \in Router
    BY <1>10, ReceivedEvent DEF LineDelete
  <2>2. rl' = [rl EXCEPT ![r] = q]
    BY <1>10 DEF LineDelete
  <2>3. rl[r] \in Seq(Entry) /\ Once(rl[r])
    BY <1>0, <2>1
  <2>4. P # {} => x \in 1..Len(rl[r])
    <3>1. P # {} => x \in P
      OBVIOUS
    <3>2. P \subseteq 1..Len(rl[r])
      BY <2>3 DEF PositionsIn
    <3> HIDE DEF x, P
    <3> QED
      BY <3>1, <3>2
  <2> HIDE DEF x, P, e, r
  <2>5. Once(q)
    BY <2>3, <2>4, WithoutOnce
  <2> QED
    BY <1>2, <2>1, <2>2, <2>5
<1> QED
  BY <1>4, <1>5, <1>6, <1>7, <1>8, <1>9, <1>10 DEF Next

\* In whatever order full syncs and creations are applied, the manager lists
\* no line twice for one router (the duplicate check of processLineEvent in
\* manager.go).
THEOREM NoLineTwice == Spec => []ListedOnce
<1>1. Init => ListedOnce
  BY DEF Init, ListedOnce
<1> QED
  BY <1>1, Invariant, ListedStep, PTL DEF Spec

\* The manager has the lines of the syncer's map, and nothing on its way to it
\* says otherwise.
Settled ==
  /\ ManagerMatches
  /\ \A k \in 1..MaxSyncs : batch[k] = {}
  /\ inbox = << >>
  /\ snap \subseteq {lines}

\* The safety part of ManagerConverges.  A full sync whose snapshot is still
\* the syncer's map repairs the lists whatever was lost before it, and then
\* only another change of the configuration disturbs them: no removal timer,
\* no scheduler and no full sync on the way does.
FullSyncRepairs ==
  [][/\ snap = {lines} /\ snap' = {} => ManagerMatches'
     /\ Settled /\ lines' = lines => Settled']_vars

LEMMA RepairStep == IInv /\ [Next]_vars => (snap = {lines} /\ snap' = {} => ManagerMatches')
<1> SUFFICES ASSUME IInv, [Next]_vars, snap = {lines}, snap' = {} PROVE ManagerMatches'
  OBVIOUS
<1>1. FullSyncApply
  <2>1. snap' # snap
    OBVIOUS
  <2>2. \/ FullSyncApply \/ UNCHANGED snap \/ snap' = {lines}
    BY DEF vars, Next, Sync, Notify, FullSyncGiveUp, FullSyncRead, Subscribe, LineCreate,
       LineUpdate, LineDelete, Receive, RemoveTimer, SchedulerStart, QueueExpire
  <2> QED
    BY <2>1, <2>2
<1>2. lines' = lines /\ \A r \in Router : rl'[r] \in Orders(EntriesOf(lines, r))
  <2>1. \E m \in snap : \A r \in Router : rl'[r] \in Orders(EntriesOf(m, r))
    BY <1>1 DEF FullSyncApply
  <2>2. lines' = lines
    BY <1>1 DEF FullSyncApply, syncerVars
  <2> QED
    BY <2>1, <2>2
<1>3. \A S : \A q \in Orders(S) : {q[k] : k \in DOMAIN q} = S
  BY DEF Orders
<1>4. ASSUME NEW r \in Router
      PROVE  {rl'[r][k] : k \in DOMAIN rl'[r]} = EntriesOf(lines', r)
  BY <1>2, <1>3
<1> QED
  BY <1>4 DEF ManagerMatches

LEMMA SettledStep == IInv /\ Settled /\ [Next]_vars /\ lines' = lines => Settled'
<1> SUFFICES ASSUME IInv, Settled, [Next]_vars, lines' = lines PROVE Settled'
  OBVIOUS
<1>1. CASE UNCHANGED <<rl, batch, inbox>> /\ snap' \subseteq {lines}
  BY <1>1 DEF Settled, ManagerMatches
<1>2. CASE UNCHANGED vars
  BY <1>1, <1>2 DEF vars, Settled
<1>3. ~ Sync
  BY DEF Sync
<1>4. ~ \E k \in 1..MaxSyncs : Notify(k)
  BY DEF Settled, Notify
<1>5. ~ (LineCreate \/ LineUpdate \/ LineDelete)
  BY DEF Settled, LineCreate, LineUpdate, LineDelete, Receive
<1>6. CASE FullSyncGiveUp \/ FullSyncRead \/ Subscribe
  BY <1>1, <1>6 DEF Settled, FullSyncGiveUp, FullSyncRead, Subscribe, syncerVars, managerVars
<1>7. CASE \/ \E r \in Router : \E g \in DOMAIN timers[r] : RemoveTimer(r, g)
           \/ \E r \in Router : SchedulerStart(r)
           \/ \E r \in Router, i \in Interval : QueueExpire(r, i)
  BY <1>1, <1>7 DEF Settled, RemoveTimer, SchedulerStart, QueueExpire, syncerVars
<1>8. CASE FullSyncApply
  <2>1. snap = {lines} /\ snap' = {}
    BY <1>8 DEF FullSyncApply, Settled
  <2>2. ManagerMatches'
    BY <2>1, RepairStep
  <2>3. UNCHANGED <<batch, inbox>>
    BY <1>8 DEF FullSyncApply, syncerVars
  <2> QED
    BY <2>1, <2>2, <2>3 DEF Settled
<1> QED
  BY <1>2, <1>3, <1>4, <1>5, <1>6, <1>7, <1>8 DEF Next

\* A full sync that applies the current map repairs the manager's lists,
\* whatever notifications were lost, and nothing but a change of the
\* configuration spoils them (fullSync and processLineEvent in manager.go).
THEOREM RepairedForGood == Spec => FullSyncRepairs
<1>1. IInv /\ [Next]_vars =>
        [/\ snap = {lines} /\ snap' = {} => ManagerMatches'
         /\ Settled /\ lines' = lines => Settled']_vars
  BY RepairStep, SettledStep
<1> QED
  BY <1>1, Invariant, PTL DEF Spec, FullSyncRepairs
================================================================================
