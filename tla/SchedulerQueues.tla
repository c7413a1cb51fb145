---------------------------- MODULE SchedulerQueues ----------------------------
(***************************************************************************)
(* What a RouterScheduler knows of its router's lines, and how the          *)
(* manager's callbacks change it (manager/router_scheduler.go and           *)
(* manager/interval_queue.go).                                              *)
(*                                                                          *)
(* A scheduler keeps a list of lines, used only to recognise duplicates,    *)
(* and one queue of lines per probing interval.  The list it is given by    *)
(* the manager is a Go slice over the manager's own backing array: while    *)
(* `shared' holds, the manager's changes in place show in it.               *)
(***************************************************************************)
EXTENDS LineConfig

\* A line in a list of the manager: its IP and its interval.
Entry == [line : Line, interval : Interval]

\* An IntervalTaskQueue holds lines, possibly one of them several times.
Queue == [Line -> Nat]
EmptyQueue == [l \in Line |-> 0]

IsScheduler(s) ==
  /\ s.lines \in Seq(Line)
  /\ s.shared \in BOOLEAN
  /\ DOMAIN s.queues \subseteq Interval
  /\ \A i \in DOMAIN s.queues : s.queues[i] \in Queue
  /\ s.started \in BOOLEAN
  /\ s.served \subseteq DOMAIN s.queues
  /\ s.expiring \in [Interval -> Nat]

\* The lines of a list of the manager, in order.
LinesOf(q) == [k \in DOMAIN q |-> q[k].line]

NoScheduler == [lines |-> << >>, shared |-> FALSE, queues |-> << >>,
                started |-> FALSE, served |-> {},
                expiring |-> [i \in Interval |-> 0]]

\* NewRouterScheduler and initializeQueues: one queue for every interval in
\* the list, the list itself kept as it is.
NewScheduler(q) ==
  [NoScheduler EXCEPT
     !.lines  = LinesOf(q),
     !.shared = TRUE,
     !.queues = [i \in {q[k].interval : k \in DOMAIN q} |->
                   [l \in Line |-> Cardinality({k \in DOMAIN q :
                                      q[k].line = l /\ q[k].interval = i})]]]

\* Start: one worker for every queue there is at this moment.
StartWorkers(s) == [s EXCEPT !.started = TRUE, !.served = DOMAIN s.queues]

Contains(s, i, l) == i \in DOMAIN s.queues /\ s.queues[i][l] > 0

IsEmpty(q) == \A l \in Line : q[l] = 0

\* Add, after the queue has been made if there was none; Start is not called
\* again, so a new queue has no worker.
Add(s, i, l) ==
  [s EXCEPT !.queues =
     [j \in DOMAIN s.queues \cup {i} |->
        LET q == IF j \in DOMAIN s.queues THEN s.queues[j] ELSE EmptyQueue
        IN  IF j = i THEN [q EXCEPT ![l] = @ + 1] ELSE q]]

\* Remove: the first entry of the line, if there is one.
Remove(s, i, l) ==
  IF Contains(s, i, l) THEN [s EXCEPT !.queues[i][l] = @ - 1] ELSE s

\* OnLineCreated: a line in the scheduler's list is taken for a duplicate.
OnLineCreated(s, l, i) ==
  IF \E k \in DOMAIN s.lines : s.lines[k] = l
    THEN s
    ELSE [Add(s, i, l) EXCEPT !.lines = Append(s.lines, l)]

\* OnLineUpdated: a new interval moves the line to another queue.
OnLineUpdated(s, l, old, new) ==
  IF old = new THEN s ELSE Add(Remove(s, old, l), new, l)

\* OnLineDeleted: the queue forgets the line, and is destroyed later if that
\* left it empty; the scheduler's list keeps the line.
OnLineDeleted(s, l, i) ==
  IF ~ Contains(s, i, l)
    THEN s
    ELSE LET t == Remove(s, i, l)
         IN  IF IsEmpty(t.queues[i]) THEN [t EXCEPT !.expiring[i] = @ + 1]
                                     ELSE t

\* The callback of OnLineDeleted's AfterFunc, ten minutes later.
ExpireQueue(s, i) ==
  LET t == [s EXCEPT !.expiring[i] = @ - 1]
  IN  IF i \in DOMAIN s.queues /\ IsEmpty(s.queues[i])
        THEN [t EXCEPT !.queues = [j \in DOMAIN s.queues \ {i} |-> s.queues[j]],
                       !.served = @ \ {i}]
        ELSE t

\* The scheduler probes the line every i.
Probes(s, l, i) == s.started /\ i \in s.served /\ Contains(s, i, l)

\* The manager writes l at position k of its backing array: the scheduler
\* sees it if its list shares the array and reaches that far.
SeeWrite(s, k, l) ==
  IF s.shared /\ k \in DOMAIN s.lines THEN [s EXCEPT !.lines[k] = l] ELSE s

\* The manager shifts the entries after position k of its list of length n to
\* the left: position n keeps its old value, and stays in the scheduler's list.
SeeShift(s, k, n) ==
  IF s.shared
    THEN [s EXCEPT !.lines = [j \in DOMAIN s.lines |->
            IF j \in k..(n-1) THEN s.lines[j+1] ELSE s.lines[j]]]
    ELSE s

\* The manager has moved its list to another array.
Unshare(s) == [s EXCEPT !.shared = FALSE]
================================================================================
