------------------------ MODULE ScrapliDriverProofs ------------------------
(***************************************************************************)
(* Theorems about ScrapliDriver, for any number of calls and of Closes.    *)
(***************************************************************************)
EXTENDS ScrapliDriver, TLAPS

-----------------------------------------------------------------------------
(***************************************************************************)
(* Type correctness, with the pointers a call is about to follow.          *)
(***************************************************************************)

LEMMA TypeInit == Init => TypeOK
<1> SUFFICES ASSUME Init PROVE TypeOK
  OBVIOUS
<1>1. closed \in BOOLEAN /\ overlap \in BOOLEAN /\ crashed \in BOOLEAN
  BY Zenon DEF Init
<1> QED
  BY <1>1 DEF Init, TypeOK, NetworkDriver

LEMMA CallTypes ==
  ASSUME TypeOK, ~crashed, NEW c \in Call,
         Begin(c) \/ BodyStep(c) \/ SendReturns(c) \/ CallerStep(c)
  PROVE  TypeOK'
<1> USE DEF TypeOK, Goto, Return, TakeRefs, fields, callVars, Connecting, NetworkDriver
<1>1. CASE Begin(c)
  BY <1>1 DEF Begin
<1>2. CASE Entry(c)
  BY <1>2 DEF Entry
<1>3. CASE Check(c)
  BY <1>3 DEF Check
<1>4. CASE Deliver(c)
  BY <1>4 DEF Deliver
<1>5. CASE Connect(c)
  BY <1>5 DEF Connect, Busy
<1>6. CASE TestDriver(c)
  BY <1>6 DEF TestDriver
<1>7. CASE OpenDriver(c)
  BY <1>7 DEF OpenDriver
<1>8. CASE OpenReturns(c)
  BY <1>8 DEF OpenReturns
<1>9. CASE DropDriver(c)
  BY <1>9 DEF DropDriver
<1>10. CASE DropChannel(c)
  BY <1>10 DEF DropChannel
<1>11. CASE ReadChannel(c)
  BY <1>11 DEF ReadChannel
<1>12. CASE WriteChannel(c)
  BY <1>12 DEF WriteChannel
<1>13. CASE SendReturns(c)
  BY <1>13 DEF SendReturns
<1>14. CASE Receive(c)
  BY <1>14 DEF Receive
<1>15. CASE Timeout(c)
  BY <1>15 DEF Timeout
<1> QED
  BY <1>1, <1>2, <1>3, <1>4, <1>5, <1>6, <1>7, <1>8, <1>9, <1>10, <1>11, <1>12, <1>13, <1>14, <1>15
     DEF BodyStep, CallerStep

LEMMA CloseTypes ==
  ASSUME TypeOK, NEW k \in Closer, CloseBegin(k) \/ CloseEnd(k)
  PROVE  TypeOK'
BY DEF TypeOK, fields, callVars, CloseBegin, CloseEnd, Busy, NetworkDriver

LEMMA TypeStep == TypeOK /\ [Next]_vars => TypeOK'
<1> SUFFICES ASSUME TypeOK, [Next]_vars PROVE TypeOK'
  OBVIOUS
<1>1. CASE Next
  BY <1>1, CallTypes, CloseTypes DEF Next
<1>2. CASE UNCHANGED vars
  BY <1>2 DEF vars, fields, callVars, TypeOK
<1> QED
  BY <1>1, <1>2

(* Every variable keeps its type in every run of the driver. *)
THEOREM TypeCorrect == Spec => []TypeOK
<1> QED
  BY TypeInit, TypeStep, PTL DEF Spec

-----------------------------------------------------------------------------
(***************************************************************************)
(* Two commands are on the wire at once only after a timeout.  The lease   *)
(* lets one caller in; a caller whose command is being sent either still   *)
(* waits, and is that one, or has timed out.                               *)
(***************************************************************************)

Preparing == {"entry", "connect", "check"} \cup Connecting

OneCaller == \A c1, c2 \in Call : InCall(c1) /\ InCall(c2) => c1 = c2

CallerMatchesBody ==
  \A c \in Call :
    /\ c \in result => body[c] = "ended"
    /\ body[c] = "none" => caller[c] = "out"
    /\ body[c] \in Preparing => caller[c] \in (IF c \in Prompt THEN {"waiting", "timedout"} ELSE {"in"})
    /\ body[c] \in {"sending", "sent"} => caller[c] \in {"waiting", "timedout"}

CallInv == OneCaller /\ CallerMatchesBody

LEMMA CallInit == Init => CallInv
BY DEF Init, CallInv, OneCaller, CallerMatchesBody, InCall, Preparing, Connecting

LEMMA CallKeepsCallInv ==
  ASSUME TypeOK, CallInv, NEW c \in Call,
         Begin(c) \/ BodyStep(c) \/ SendReturns(c) \/ CallerStep(c)
  PROVE  CallInv'
<1> USE ScrapliConstants DEF TypeOK, CallInv, OneCaller, CallerMatchesBody, InCall, Preparing, Goto,
        Return, TakeRefs, Connecting
<1>1. CASE Begin(c)
  BY <1>1 DEF Begin
<1>2. CASE Entry(c)
  BY <1>2 DEF Entry
<1>3. CASE Check(c)
  BY <1>3 DEF Check
<1>4. CASE Deliver(c)
  BY <1>4 DEF Deliver
<1>5. CASE Connect(c)
  BY <1>5 DEF Connect
<1>6. CASE TestDriver(c)
  BY <1>6 DEF TestDriver
<1>7. CASE OpenDriver(c)
  BY <1>7 DEF OpenDriver
<1>8. CASE OpenReturns(c)
  BY <1>8 DEF OpenReturns
<1>9. CASE DropDriver(c)
  BY <1>9 DEF DropDriver
<1>10. CASE DropChannel(c)
  BY <1>10 DEF DropChannel
<1>11. CASE ReadChannel(c)
  BY <1>11 DEF ReadChannel
<1>12. CASE WriteChannel(c)
  BY <1>12 DEF WriteChannel
<1>13. CASE SendReturns(c)
  BY <1>13 DEF SendReturns
<1>14. CASE Receive(c)
  BY <1>14 DEF Receive
<1>15. CASE Timeout(c)
  BY <1>15 DEF Timeout
<1> QED
  BY <1>1, <1>2, <1>3, <1>4, <1>5, <1>6, <1>7, <1>8, <1>9, <1>10, <1>11, <1>12, <1>13, <1>14, <1>15
     DEF BodyStep, CallerStep

LEMMA CallStep == TypeOK /\ CallInv /\ [Next]_vars => CallInv'
<1> SUFFICES ASSUME TypeOK, CallInv, [Next]_vars PROVE CallInv'
  OBVIOUS
<1>1. ASSUME NEW k \in Closer, CloseBegin(k) \/ CloseEnd(k) PROVE CallInv'
  BY <1>1 DEF CloseBegin, CloseEnd, callVars, CallInv, OneCaller, CallerMatchesBody, InCall
<1>2. CASE UNCHANGED vars
  BY <1>2 DEF vars, callVars, CallInv, OneCaller, CallerMatchesBody, InCall
<1> QED
  BY <1>1, <1>2, CallKeepsCallInv DEF Next

(* Of two commands that are being sent, one belongs to a call of Execute or *)
(* GetPromptWithContext that has timed out.                                 *)
THEOREM OverlapNeedsTimeout == Spec => []OneUnlessTimedOut
<1>1. CallInv => OneUnlessTimedOut
  BY DEF CallInv, OneCaller, CallerMatchesBody, InCall, OneUnlessTimedOut
<1> QED
  BY TypeInit, TypeStep, CallInit, CallStep, <1>1, PTL DEF Spec

-----------------------------------------------------------------------------
(***************************************************************************)
(* Without overlap the driver is safe.  While one Connect runs alone there *)
(* is no channel; d.driver is the object it opens and holds the only       *)
(* session; and nobody else connects, closed or not.                       *)
(***************************************************************************)

ClosingIsClosed == \A k \in Closer : closer[k] = "wait" => closed

AloneInv ==
  /\ ~crashed
  /\ \A s \in alive : driver # None /\ session[driver] = s
  /\ channel # None => channel = driver
  /\ channel = None => \A s \in alive : body[s] \in {"read", "write"}
  /\ \A c1, c2 \in Call : body[c1] \in Connecting /\ body[c2] \in Connecting => c1 = c2
  /\ \A c \in Call : /\ body[c] \in Connecting => ~closed /\ channel = None
                     /\ body[c] \in {"open", "opening", "drop", "read", "write"} => driver # None
                     /\ body[c] \in {"opening", "write"} => obj[c] = driver
                     /\ body[c] = "sending" => obj[c] # None

SafeInv == ClosingIsClosed /\ (~overlap => AloneInv)

LEMMA SafeInit == Init => SafeInv
BY ScrapliConstants DEF Init, SafeInv, ClosingIsClosed, AloneInv, Connecting

LEMMA CallKeepsSafe ==
  ASSUME TypeOK, SafeInv, ~overlap, NEW c \in Call,
         Begin(c) \/ BodyStep(c) \/ SendReturns(c) \/ CallerStep(c)
  PROVE  SafeInv'
<1> USE ScrapliConstants DEF TypeOK, SafeInv, ClosingIsClosed, AloneInv, Goto, Return, TakeRefs, Connecting, fields,
        NetworkDriver
<1>1. CASE Begin(c)
  BY <1>1 DEF Begin
<1>2. CASE Entry(c)
  BY <1>2 DEF Entry
<1>3. CASE Check(c)
  BY <1>3 DEF Check
<1>4. CASE Deliver(c)
  BY <1>4 DEF Deliver
<1>5. CASE Connect(c)
  <2>1. UNCHANGED <<fields, obj, closer, session, alive, crashed>>
    BY <1>5 DEF Connect
  <2>2. CASE body'[c] = "test"
    <3>1. ~closed /\ (driver = None \/ channel = None) /\ body' = [body EXCEPT ![c] = "test"]
      BY <1>5, <2>2 DEF Connect
    <3>2. ~overlap' => ~Busy
      <4>1. overlap' = (overlap \/ Busy)
        BY <1>5, <2>2 DEF Connect
      <4> QED
        BY <4>1, Zenon
    <3>3. channel = None
      BY <3>1
    <3> QED
      BY <2>1, <3>1, <3>2, <3>3 DEF Busy
  <2>3. CASE body'[c] # "test"
    BY <1>5, <2>1, <2>3 DEF Connect
  <2> QED
    BY <2>2, <2>3
<1>6. CASE TestDriver(c)
  BY <1>6 DEF TestDriver
<1>7. CASE OpenDriver(c)
  BY <1>7 DEF OpenDriver
<1>8. CASE OpenReturns(c)
  BY <1>8 DEF OpenReturns
<1>9. CASE DropDriver(c)
  BY <1>9 DEF DropDriver
<1>10. CASE DropChannel(c)
  BY <1>10 DEF DropChannel
<1>11. CASE ReadChannel(c)
  BY <1>11 DEF ReadChannel
<1>12. CASE WriteChannel(c)
  BY <1>12 DEF WriteChannel
<1>13. CASE SendReturns(c)
  BY <1>13 DEF SendReturns
<1>14. CASE Receive(c)
  BY <1>14 DEF Receive
<1>15. CASE Timeout(c)
  BY <1>15 DEF Timeout
<1> QED
  BY <1>1, <1>2, <1>3, <1>4, <1>5, <1>6, <1>7, <1>8, <1>9, <1>10, <1>11, <1>12, <1>13, <1>14, <1>15
     DEF BodyStep, CallerStep

(* An overlap is never forgotten, and only Close changes what it waits on. *)
LEMMA CallKeepsOverlap ==
  ASSUME NEW c \in Call, Begin(c) \/ BodyStep(c) \/ SendReturns(c) \/ CallerStep(c)
  PROVE  (overlap => overlap') /\ UNCHANGED <<closer, closed>>
<1>1. CASE Connect(c)
  <2>1. overlap => overlap'
    BY <1>1 DEF Connect
  <2>2. UNCHANGED <<closer, closed>>
    BY <1>1 DEF Connect, fields
  <2> QED
    BY <2>1, <2>2
<1>2. CASE ~Connect(c)
  <2>1. UNCHANGED <<overlap, closer, closed>>
    BY <1>2 DEF Begin, BodyStep, CallerStep, Entry, Check, Deliver, TestDriver, OpenDriver, OpenReturns,
       DropDriver, DropChannel, ReadChannel, WriteChannel, SendReturns, Receive, Timeout, fields
  <2> QED
    BY <2>1
<1> QED
  BY <1>1, <1>2

LEMMA CloseKeepsSafe ==
  ASSUME TypeOK, SafeInv, NEW k \in Closer, CloseBegin(k) \/ CloseEnd(k)
  PROVE  SafeInv'
<1> USE ScrapliConstants DEF TypeOK, SafeInv, ClosingIsClosed, AloneInv, fields, callVars, Connecting, NetworkDriver
<1>1. CASE CloseBegin(k)
  BY <1>1 DEF CloseBegin, Busy
<1>2. CASE CloseEnd(k)
  BY <1>2 DEF CloseEnd
<1> QED
  BY <1>1, <1>2

LEMMA SafeStep == TypeOK /\ SafeInv /\ [Next]_vars => SafeInv'
<1> SUFFICES ASSUME TypeOK, SafeInv, [Next]_vars PROVE SafeInv'
  OBVIOUS
<1>1. ASSUME NEW c \in Call, Begin(c) \/ BodyStep(c) \/ SendReturns(c) \/ CallerStep(c)
      PROVE  SafeInv'
  <2>1. CASE overlap
    BY <1>1, <2>1, CallKeepsOverlap DEF SafeInv, ClosingIsClosed
  <2> QED
    BY <1>1, <2>1, CallKeepsSafe
<1>2. CASE UNCHANGED vars
  BY <1>2 DEF vars, fields, callVars, SafeInv, ClosingIsClosed, AloneInv
<1> QED
  BY <1>1, <1>2, CloseKeepsSafe DEF Next

(* The driver neither crashes nor loses a session unless a Connect has run *)
(* beside another Connect or a Close.                                      *)
THEOREM SafeWithoutOverlap == Spec => []HarmNeedsOverlap
<1>1. SafeInv => HarmNeedsOverlap
  BY DEF SafeInv, AloneInv, HarmNeedsOverlap
<1> QED
  BY TypeInit, TypeStep, SafeInit, SafeStep, <1>1, PTL DEF Spec

-----------------------------------------------------------------------------
(***************************************************************************)
(* A lost driver stays lost: Entry refuses it, so no call reaches Connect. *)
(***************************************************************************)

LEMMA CallKeepsLost ==
  ASSUME TypeOK, Lost, NEW c \in Call, Begin(c) \/ BodyStep(c) \/ SendReturns(c) \/ CallerStep(c)
  PROVE  Lost'
<1> USE DEF TypeOK, Lost, Goto, Return, TakeRefs, fields, Connecting
<1>1. CASE Begin(c) \/ SendReturns(c) \/ CallerStep(c) \/ Deliver(c)
  BY <1>1 DEF Begin, SendReturns, CallerStep, Receive, Timeout, Deliver
<1>2. CASE Entry(c) \/ Check(c)
  BY <1>2 DEF Entry, Check
<1>3. CASE \/ Connect(c) \/ TestDriver(c) \/ OpenDriver(c) \/ OpenReturns(c) \/ DropDriver(c)
           \/ DropChannel(c) \/ ReadChannel(c) \/ WriteChannel(c)
  BY <1>3 DEF Connect, TestDriver, OpenDriver, OpenReturns, DropDriver, DropChannel, ReadChannel, WriteChannel
<1> QED
  BY <1>1, <1>2, <1>3 DEF BodyStep

(* Once Open has failed and the calls that were connecting are over, no     *)
(* call of Execute or GetPrompt brings the driver back.                     *)
THEOREM LostStaysLost == Spec => LostForGood
<1>1. TypeOK /\ [Next]_vars => [Lost => Lost']_vars
  <2> SUFFICES ASSUME TypeOK, Next, Lost PROVE Lost'
    OBVIOUS
  <2>1. ASSUME NEW k \in Closer, CloseBegin(k) \/ CloseEnd(k) PROVE Lost'
    BY <2>1 DEF CloseBegin, CloseEnd, Lost, callVars
  <2> QED
    BY <2>1, CallKeepsLost DEF Next
<1> QED
  BY <1>1, TypeInit, TypeStep, PTL DEF Spec, LostForGood

=============================================================================
