-------------------------------- MODULE LineSync --------------------------------
(***************************************************************************)
(* How a change of the configuration reaches the router schedulers:         *)
(* ConfigSyncer (syncer/syncer.go), Manager (manager/manager.go) and the    *)
(* line callbacks of RouterScheduler (module SchedulerQueues).              *)
(*                                                                          *)
(* The syncer fetches the lines from Zabbix, compares them with the ones it *)
(* has and sends the differences from a goroutine of its own per sync.  The *)
(* manager applies them one by one to its lists of lines per router, and    *)
(* replaces all lists from the syncer's map in its periodic full sync.  A   *)
(* router without lines loses its scheduler ten minutes later.              *)
(***************************************************************************)
EXTENDS SchedulerQueues

CONSTANTS InvalidRouter,  \* the routers whose connection settings Build rejects
          Zabbix,         \* bound: the configurations Zabbix may have
          MaxSyncs,       \* bound: syncs that find a difference
          InboxCap        \* capacity of the channels that carry the events

ASSUME LineSyncAssumption == /\ InvalidRouter \subseteq Router
                             /\ Zabbix \subseteq Configuration
                             /\ MaxSyncs \in Nat
                             /\ InboxCap \in Nat \ {0}

VARIABLES
  zabbix,   \* the configuration the last sync that changed the map has read
  lines,    \* ConfigSyncer.lines, a map from line IPs to their settings
  syncs,    \* number of syncs so far that changed it (version)
  batch,    \* batch[k]: events of sync k that notifyAll has still to send
  sending,  \* the syncs whose notifyAll holds the syncer's read lock
  inbox,    \* events sent to the manager and not processed
  phase,    \* progress of Manager.Start: "start", "synced", "subscribed"
  snap,     \* the map a full sync has read and not applied, in a set
  rl,       \* Manager.routerLines
  room,     \* capacity of the backing arrays of routerLines
  cur,      \* Manager.schedulers: the generation of the router's scheduler, or 0
  timers,   \* timers[r][g]: pending removals that hold scheduler g of router r
  running,  \* generations of the router's schedulers that were not stopped
  sch       \* the queues of the scheduler in the map

vars == <<zabbix, lines, syncs, batch, sending, inbox, phase, snap,
          rl, room, cur, timers, running, sch>>

syncerVars == <<zabbix, lines, syncs, batch, sending>>
managerVars == <<rl, room, cur, timers, running, sch>>

Event == [type : {"create", "update", "delete"},
          line : Line, router : Router, interval : Interval]

\* One type invariant: every variable keeps to its Go type, the channels to
\* their capacity, and every index of a generation to those handed out.
TypeOK ==
  /\ zabbix \in Zabbix \cup {Nothing}
  /\ lines \in LineMap
  /\ syncs \in 0..MaxSyncs
  /\ batch \in [1..MaxSyncs -> SUBSET Event]
  /\ sending \in SUBSET (1..MaxSyncs)
  /\ inbox \in Seq(Event) /\ Len(inbox) <= InboxCap
  /\ phase \in {"start", "synced", "subscribed"}
  /\ snap \in SUBSET LineMap /\ Cardinality(snap) <= 1
  /\ rl \in [Router -> Seq(Entry)]
  /\ room \in [Router -> Nat] /\ \A r \in Router : Len(rl[r]) <= room[r]
  /\ timers \in [Router -> Seq(Nat)]
  /\ cur \in [Router -> Nat] /\ \A r \in Router : cur[r] <= Len(timers[r])
  /\ running \in [Router -> SUBSET Nat]
  /\ \A r \in Router : running[r] \subseteq 1..Len(timers[r])
  /\ DOMAIN sch = Router /\ \A r \in Router : IsScheduler(sch[r])

NoLines == [l \in {} |-> l]

Init ==
  /\ zabbix = Nothing
  /\ lines = NoLines
  /\ syncs = 0
  /\ batch = [k \in 1..MaxSyncs |-> {}]
  /\ sending = {}
  /\ inbox = << >>
  /\ phase = "start"
  /\ snap = {}
  /\ rl = [r \in Router |-> << >>]
  /\ room = [r \in Router |-> 0]
  /\ cur = [r \in Router |-> 0]
  /\ timers = [r \in Router |-> << >>]
  /\ running = [r \in Router |-> {}]
  /\ sch = [r \in Router |-> NoScheduler]

--------------------------------------------------------------------------------
(* The syncer. *)

EventFor(type, l, setting) ==
  [type |-> type, line |-> l,
   router |-> setting.router, interval |-> setting.interval]

\* detectChanges: a deletion carries the old settings, the others the new ones.
DetectChanges(old, new) ==
  {EventFor("delete", l, old[l]) : l \in DOMAIN old \ DOMAIN new}
    \cup {EventFor("update", l, new[l]) :
            l \in {m \in DOMAIN old \cap DOMAIN new : old[m] # new[m]}}
    \cup {EventFor("create", l, new[l]) : l \in DOMAIN new \ DOMAIN old}

\* sync: fetchLines returned other lines.  A first fetch, or one after the map
\* was empty, announces no creations.  The write waits for the notifyAll
\* goroutines that hold the read lock.
Sync ==
  /\ syncs < MaxSyncs
  /\ sending = {}
  /\ \E z \in Zabbix :
       LET new == fetchLines(z) IN
       /\ new # lines
       /\ zabbix' = z
       /\ lines' = new
       /\ syncs' = syncs + 1
       /\ batch' = [batch EXCEPT ![syncs + 1] =
                      IF DOMAIN lines = {} THEN {}
                      ELSE DetectChanges(lines, new)]
  /\ UNCHANGED <<sending, inbox, phase, snap>>
  /\ UNCHANGED managerVars

(* Fault: the event is queued whatever the channel's capacity. *)
NotifyUnbounded(k) ==
  \E e \in batch[k] :
    /\ batch' = [batch EXCEPT ![k] = @ \ {e}]
    /\ sending' = IF batch[k] = {e} THEN sending \ {k} ELSE sending \cup {k}
    /\ inbox' = IF phase = "subscribed" THEN Append(inbox, e) ELSE inbox
    /\ UNCHANGED <<zabbix, lines, syncs, phase, snap>>
    /\ UNCHANGED managerVars

\* One round of notifyAll: the map's order is random, the creations come
\* last.  Without the subscriber the event goes nowhere; with its channel
\* full it is dropped.
Notify(k) ==
  \E e \in batch[k] :
    /\ e.type = "create" => \A d \in batch[k] : d.type = "create"
    /\ batch' = [batch EXCEPT ![k] = @ \ {e}]
    /\ sending' = IF batch[k] = {e} THEN sending \ {k} ELSE sending \cup {k}
    /\ inbox' = IF phase = "subscribed" /\ Len(inbox) < InboxCap
                  THEN Append(inbox, e) ELSE inbox
    /\ UNCHANGED <<zabbix, lines, syncs, phase, snap>>
    /\ UNCHANGED managerVars

--------------------------------------------------------------------------------
(* Schedulers in the manager's map. *)

HasScheduler(r) == cur[r] # 0

\* The capacity append gives a full array, and one filled element by element.
Grown(c) == IF c = 0 THEN 1 ELSE 2 * c
Capacity[n \in Nat] ==
  IF n = 0 THEN 0
  ELSE IF n <= Capacity[n - 1] THEN Capacity[n - 1] ELSE Grown(Capacity[n - 1])

--------------------------------------------------------------------------------
(* Manager.Start and the full sync. *)

\* fullSync gives up after 300 seconds without any line.
FullSyncGiveUp ==
  /\ phase = "start"
  /\ DOMAIN lines = {}
  /\ snap = {}
  /\ phase' = "synced"
  /\ UNCHANGED <<syncerVars, inbox, snap>>
  /\ UNCHANGED managerVars

(* Fault: no full sync after the one in Start. *)
FullSyncReadOnce ==
  /\ phase = "start"
  /\ snap = {}
  /\ DOMAIN lines # {}
  /\ sending = {}
  /\ snap' = {lines}
  /\ UNCHANGED <<syncerVars, inbox, phase>>
  /\ UNCHANGED managerVars

\* fullSync's GetLines, which takes the syncer's write lock: in Start, and
\* every six hours from a ticker that is first due long after Subscribe.
FullSyncRead ==
  /\ phase # "synced"
  /\ snap = {}
  /\ DOMAIN lines # {}
  /\ sending = {}
  /\ snap' = {lines}
  /\ UNCHANGED <<syncerVars, inbox, phase>>
  /\ UNCHANGED managerVars

\* The entries a map of lines gives router r.
EntriesOf(m, r) ==
  {[line |-> l, interval |-> m[l].interval] :
     l \in {k \in DOMAIN m : m[k].router = r}}

\* The orders in which the loop over the map may append a set of entries.
Orders(S) ==
  {q \in UNION {[1..n -> S] : n \in 0..Cardinality(S)} :
     /\ \A e \in S : \E k \in DOMAIN q : q[k] = e
     /\ \A j, k \in DOMAIN q : q[j] = q[k] => j = k}

\* ensureScheduler: a router with lines and without a scheduler gets one, if
\* its connection settings are accepted.
GetsScheduler(q, r) ==
  q[r] # << >> /\ ~ HasScheduler(r) /\ r \notin InvalidRouter

(* Fault: the schedulers of routers without lines are left where they are. *)
NeverLosesScheduler(q, r) == FALSE

\* The last loop of fullSync: a router without lines loses its scheduler.
LosesScheduler(q, r) == q[r] = << >> /\ HasScheduler(r)

\* fullSync under the manager's lock: every list is replaced; a router with
\* lines gets a scheduler if it has none, and one without lines loses it.  A
\* scheduler that exists is not told, and keeps the old array.
FullSyncApply ==
  \E m \in snap :
    \E q \in [Router -> UNION {Orders(EntriesOf(m, r)) : r \in Router}] :
      /\ \A r \in Router : q[r] \in Orders(EntriesOf(m, r))
      /\ rl' = q
      /\ room' = [r \in Router |-> Capacity[Len(q[r])]]
      /\ timers' = [r \in Router |-> IF GetsScheduler(q, r)
                                       THEN Append(timers[r], 0) ELSE timers[r]]
      /\ cur' = [r \in Router |->
                   CASE GetsScheduler(q, r) -> Len(timers[r]) + 1
                     [] LosesScheduler(q, r) -> 0
                     [] OTHER -> cur[r]]
      /\ running' = [r \in Router |->
                       CASE GetsScheduler(q, r) -> running[r] \cup {Len(timers[r]) + 1}
                         [] LosesScheduler(q, r) -> running[r] \ {cur[r]}
                         [] OTHER -> running[r]]
      /\ sch' = [r \in Router |->
                   CASE GetsScheduler(q, r) -> NewScheduler(q[r])
                     [] LosesScheduler(q, r) -> NoScheduler
                     [] OTHER -> Unshare(sch[r])]
      /\ snap' = {}
      /\ phase' = IF phase = "start" THEN "synced" ELSE phase
      /\ UNCHANGED <<syncerVars, inbox>>

\* Subscribe, once the first full sync is over; it takes the syncer's lock.
Subscribe ==
  /\ phase = "synced"
  /\ sending = {}
  /\ phase' = "subscribed"
  /\ UNCHANGED <<syncerVars, inbox, snap>>
  /\ UNCHANGED managerVars

--------------------------------------------------------------------------------
(* processLineEvent. *)

Receive(type) ==
  /\ inbox # << >>
  /\ Head(inbox).type = type
  /\ inbox' = Tail(inbox)
  /\ UNCHANGED <<syncerVars, phase, snap>>

\* The positions of a line in the manager's list of router r.
PositionsIn(r, l) == {k \in DOMAIN rl[r] : rl[r][k].line = l}

(* Fault: a creation is applied without a look at the list. *)
NeverDuplicate(r, l) == FALSE

\* The duplicate check of LineCreate.
IsDuplicate(r, l) == PositionsIn(r, l) # {}

\* LineCreate: a duplicate is dropped.  The list grows in place when its array
\* has room, which the scheduler's list may share.  OnLineCreated finds the
\* line in the list of a scheduler made just now.
LineCreate ==
  /\ Receive("create")
  /\ LET e == Head(inbox)
         r == e.router
         n == Len(rl[r])
         q == Append(rl[r], [line |-> e.line, interval |-> e.interval])
         g == Len(timers[r]) + 1
         seen == IF n < room[r] THEN SeeWrite(sch[r], n + 1, e.line)
                                ELSE Unshare(sch[r])
     IN  \/ /\ IsDuplicate(r, e.line)
            /\ UNCHANGED managerVars
         \/ /\ ~ IsDuplicate(r, e.line)
            /\ rl' = [rl EXCEPT ![r] = q]
            /\ room' = [room EXCEPT ![r] = IF n < @ THEN @ ELSE Grown(@)]
            /\ \/ /\ HasScheduler(r)
                  /\ sch' = [sch EXCEPT ![r] = OnLineCreated(seen, e.line, e.interval)]
                  /\ UNCHANGED <<cur, timers, running>>
               \/ /\ ~ HasScheduler(r) /\ r \notin InvalidRouter
                  /\ timers' = [timers EXCEPT ![r] = Append(@, 0)]
                  /\ cur' = [cur EXCEPT ![r] = g]
                  /\ running' = [running EXCEPT ![r] = @ \cup {g}]
                  /\ sch' = [sch EXCEPT ![r] = NewScheduler(q)]
               \/ /\ ~ HasScheduler(r) /\ r \in InvalidRouter
                  /\ UNCHANGED <<cur, timers, running, sch>>

\* LineUpdate: the line is looked for in the list of the router it has now,
\* and left alone when it is not there.
LineUpdate ==
  /\ Receive("update")
  /\ LET e == Head(inbox)
         r == e.router
     IN  \/ /\ PositionsIn(r, e.line) = {}
            /\ UNCHANGED <<rl, sch>>
         \/ \E k \in PositionsIn(r, e.line) :
              /\ rl' = [rl EXCEPT ![r][k].interval = e.interval]
              /\ sch' = IF HasScheduler(r)
                          THEN [sch EXCEPT ![r] =
                                  OnLineUpdated(@, e.line, rl[r][k].interval, e.interval)]
                          ELSE sch
  /\ UNCHANGED <<room, cur, timers, running>>

Without(q, k) == [j \in 1..(Len(q) - 1) |-> IF j < k THEN q[j] ELSE q[j + 1]]

\* LineDelete: the list is shifted in place, the scheduler is told even if the
\* list did not have the line, and an empty list arms a timer that holds the
\* scheduler.
LineDelete ==
  /\ Receive("delete")
  /\ LET e == Head(inbox)
         r == e.router
         P == PositionsIn(r, e.line)
         q == IF P = {} THEN rl[r] ELSE Without(rl[r], CHOOSE k \in P : TRUE)
         seen == IF P = {} THEN sch[r]
                 ELSE SeeShift(sch[r], CHOOSE k \in P : TRUE, Len(rl[r]))
     IN  /\ rl' = [rl EXCEPT ![r] = q]
         /\ sch' = IF HasScheduler(r)
                     THEN [sch EXCEPT ![r] = OnLineDeleted(seen, e.line, e.interval)]
                     ELSE sch
         /\ timers' = IF HasScheduler(r) /\ q = << >>
                        THEN [timers EXCEPT ![r][cur[r]] = @ + 1]
                        ELSE timers
  /\ UNCHANGED <<room, cur, running>>

(* Fault: the timer does not look at the lines again. *)
RemoveTimerUnchecked(r, g) ==
  /\ timers[r][g] > 0
  /\ timers' = [timers EXCEPT ![r][g] = @ - 1]
  /\ running' = [running EXCEPT ![r] = @ \ {g}]
  /\ cur' = [cur EXCEPT ![r] = 0]
  /\ sch' = [sch EXCEPT ![r] = NoScheduler]
  /\ UNCHANGED <<syncerVars, inbox, phase, snap, rl, room>>

\* Ten minutes later: if the router has no line now, the scheduler the timer
\* holds is stopped, and whichever is in the map is taken out of it.
RemoveTimer(r, g) ==
  /\ timers[r][g] > 0
  /\ timers' = [timers EXCEPT ![r][g] = @ - 1]
  /\ \/ /\ rl[r] = << >>
        /\ running' = [running EXCEPT ![r] = @ \ {g}]
        /\ cur' = [cur EXCEPT ![r] = 0]
        /\ room' = [room EXCEPT ![r] = 0]
        /\ sch' = [sch EXCEPT ![r] = NoScheduler]
     \/ /\ rl[r] # << >>
        /\ UNCHANGED <<running, cur, room, sch>>
  /\ UNCHANGED <<syncerVars, inbox, phase, snap, rl>>

--------------------------------------------------------------------------------
(* The schedulers' own goroutines. *)

\* The goroutine that runs scheduler.Start.
SchedulerStart(r) ==
  /\ HasScheduler(r)
  /\ ~ sch[r].started
  /\ sch' = [sch EXCEPT ![r] = StartWorkers(@)]
  /\ UNCHANGED <<syncerVars, inbox, phase, snap>>
  /\ UNCHANGED <<rl, room, cur, timers, running>>

\* The destruction of an empty queue.
QueueExpire(r, i) ==
  /\ HasScheduler(r)
  /\ sch[r].expiring[i] > 0
  /\ sch' = [sch EXCEPT ![r] = ExpireQueue(@, i)]
  /\ UNCHANGED <<syncerVars, inbox, phase, snap>>
  /\ UNCHANGED <<rl, room, cur, timers, running>>

Next ==
  \/ Sync
  \/ \E k \in 1..MaxSyncs : Notify(k)
  \/ FullSyncGiveUp
  \/ FullSyncRead
  \/ FullSyncApply
  \/ Subscribe
  \/ LineCreate
  \/ LineUpdate
  \/ LineDelete
  \/ \E r \in Router : \E g \in DOMAIN timers[r] : RemoveTimer(r, g)
  \/ \E r \in Router : SchedulerStart(r)
  \/ \E r \in Router, i \in Interval : QueueExpire(r, i)

Spec == Init /\ [][Next]_vars

--------------------------------------------------------------------------------
(* Correctness. *)

\* Every line has the router and the interval of the nearest level that sets
\* them (syncer.go, the comment above fetchLines: the host, then its templates
\* by distance, then the global macros), and no other line is missing than
\* one with a template that could not be read.  A template may be reached by
\* several paths of one length; Zabbix does not link it at two distances.
EffectiveSettings ==
  /\ DOMAIN lines = {l \in zabbix.listed :
                       \A d \in 1..Cardinality(Template) : Above(l, d) \cap zabbix.failing = {}}
  /\ \A l \in DOMAIN lines :
       /\ \E v \in Effective(zabbix, l, "router") : lines[l].router = routerOf(v)
       /\ \E v \in Effective(zabbix, l, "interval") :
            lines[l].interval = parseDurationFromMacro(v)

\* A router with lines has a scheduler in the map, and it has not been
\* stopped: neither a removal timer armed when the router was empty nor a full
\* sync takes the scheduler of a router that has got lines again
\* (manager.go, processLineEvent and fullSync).
LinesHaveScheduler ==
  \A r \in Router \ InvalidRouter :
    rl[r] # << >> => HasScheduler(r) /\ cur[r] \in running[r]

\* A scheduler left without lines is on its way out: a timer that holds this
\* very scheduler is pending, so it will be stopped when it goes
\* (manager.go, processLineEvent's delayed removal).
EmptySchedulerTimed ==
  \A r \in Router :
    HasScheduler(r) /\ rl[r] = << >> => timers[r][cur[r]] > 0

\* The manager lists no line twice for one router, in whatever order full
\* syncs and the creations they overtook are applied: a creation that waits
\* in a channel while a full sync brings its line is recognised
\* (manager.go, the duplicate check of processLineEvent).  LineUpdate and
\* LineDelete stop at the first entry of the line they find.
ListedOnce ==
  \A r \in Router : \A j, k \in DOMAIN rl[r] :
    rl[r][j].line = rl[r][k].line => j = k

\* The manager's lists are those of the syncer's map.
ManagerMatches ==
  \A r \in Router : {rl[r][k] : k \in DOMAIN rl[r]} = EntriesOf(lines, r)

\* Whatever events were dropped, reordered or sent before the manager had
\* subscribed, the full syncs bring the manager's lists to the configuration
\* for good (manager.go, fullSync).  With no lines configured fullSync gives
\* up, and a lost deletion stays lost.
ManagerConverges == <>[](DOMAIN lines = {} \/ ManagerMatches)

\* Nothing is on its way to the schedulers.
Quiet ==
  /\ \A k \in 1..MaxSyncs : batch[k] = {}
  /\ inbox = << >>
  /\ snap = {}
  /\ \A r \in Router : HasScheduler(r) => sch[r].started

\* Once every event has been processed and the manager has the configured
\* lines, every line is probed by its router at its interval
\* (spec/line_monitoring/design-human.md:40: the manager passes a change on to
\* the RouterScheduler, which updates itself).
MonitoredAsConfigured ==
  Quiet /\ ManagerMatches =>
    \A l \in DOMAIN lines :
      lines[l].router \notin InvalidRouter =>
        Probes(sch[lines[l].router], l, lines[l].interval)

\* The goroutines and timers that keep running: notifyAll, the event
\* processor, Start up to Subscribe, and the periodic full sync.
Fairness ==
  /\ \A k \in 1..MaxSyncs : WF_vars(Notify(k))
  /\ WF_vars(LineCreate) /\ WF_vars(LineUpdate) /\ WF_vars(LineDelete)
  /\ WF_vars(Subscribe) /\ WF_vars(FullSyncRead) /\ WF_vars(FullSyncApply)

FairSpec == Spec /\ Fairness

================================================================================
