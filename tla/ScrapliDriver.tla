--------------------------- MODULE ScrapliDriver ---------------------------
(***************************************************************************)
(* One ScrapliDriver (connection/scrapli_driver.go): the calls of Execute  *)
(* and GetPromptWithContext, the goroutines they spawn, which may outlive  *)
(* them, and Close.                                                        *)
(*                                                                         *)
(* Each action is one critical section of d.mu, one unlocked access to     *)
(* d.driver or d.channel, or one call of the scrapligo library, of which   *)
(* only this is assumed: an Open that succeeds gives the network.Driver a  *)
(* session to the router, a Close ends the session it has then.            *)
(***************************************************************************)
EXTENDS Naturals

CONSTANTS
  Call,          \* calls on the driver, each made once
  Prompt,        \* those of GetPromptWithContext, the health checks
  Interactive,   \* those of Execute with interactive events
  Closer,        \* calls of Close
  Factory,       \* the network.Driver that ScrapliFactory creates
  None           \* nil

ASSUME ScrapliConstants ==
  /\ Prompt \subseteq Call /\ Interactive \subseteq Call /\ Prompt \cap Interactive = {}
  /\ Factory \notin Call
  /\ None \notin Call \cup {Factory}

(* The network.Driver objects: the factory's, and one for every Connect    *)
(* that finds none.                                                        *)
NetworkDriver == Call \cup {Factory}

VARIABLES
  closed,    \* d.closed
  driver,    \* d.driver
  channel,   \* d.channel, named by the network.Driver it belongs to
  caller,    \* what the caller of each call sees
  body,      \* where the code of each call is
  obj,       \* its local pointer to a network.Driver
  result,    \* the calls whose result lies in resultChan
  closer,    \* where each Close is
  session,   \* the last session of each network.Driver, named by the call that opened it
  alive,     \* the sessions that are open
  overlap,   \* history: Connect has run beside another Connect or a Close
  crashed    \* a nil pointer was dereferenced in a goroutine without a recover

fields == <<closed, driver, channel>>
callVars == <<caller, body, obj, result>>
vars == <<fields, callVars, closer, session, alive, overlap, crashed>>

(* Connect after its first critical section. *)
Connecting == {"test", "open", "opening", "drop", "dropped", "read", "write"}

TypeOK ==
  /\ closed \in BOOLEAN /\ overlap \in BOOLEAN /\ crashed \in BOOLEAN
  /\ driver \in NetworkDriver \cup {None} /\ channel \in NetworkDriver \cup {None}
  /\ caller \in [Call -> {"out", "in", "waiting", "returned", "timedout"}]
  /\ body \in [Call -> {"none", "entry", "connect", "check", "sending", "sent", "ended"} \cup Connecting]
  /\ obj \in [Call -> NetworkDriver \cup {None}]
  /\ result \in SUBSET Call
  /\ closer \in [Closer -> {"out", "wait", "done"}]
  /\ session \in [NetworkDriver -> Call \cup {None}]
  /\ alive \in SUBSET Call

(* ScrapliFactory.CreateWithContext: a network.Driver that is not open. *)
Init ==
  /\ closed = FALSE /\ driver = Factory /\ channel = None
  /\ caller = [c \in Call |-> "out"]
  /\ body = [c \in Call |-> "none"]
  /\ obj = [c \in Call |-> None]
  /\ result = {}
  /\ closer = [k \in Closer |-> "out"]
  /\ session = [o \in NetworkDriver |-> None]
  /\ alive = {}
  /\ overlap = FALSE
  /\ crashed = FALSE

Goto(c, l) == body' = [body EXCEPT ![c] = l]

(* An early return: of Execute to its caller, of GetPrompt to the          *)
(* goroutine that has to hand the result over.                             *)
Return(c) ==
  /\ Goto(c, IF c \in Prompt THEN "sent" ELSE "ended")
  /\ caller' = [caller EXCEPT ![c] = IF c \in Prompt THEN @ ELSE "returned"]

(* The local copies of d.driver and d.channel, then the goroutine that     *)
(* sends; Execute gives up first if the context is over.                   *)
TakeRefs(c) ==
  /\ obj' = [obj EXCEPT ![c] = IF c \in Interactive THEN channel ELSE driver]
  /\ \/ /\ Goto(c, "sending")
        /\ caller' = [caller EXCEPT ![c] = IF c \in Prompt THEN @ ELSE "waiting"]
     \/ c \notin Prompt /\ Return(c)

-----------------------------------------------------------------------------
(***************************************************************************)
(* A call.                                                                 *)
(***************************************************************************)

InCall(c) == caller[c] \in {"in", "waiting"}

(* Fault: the pool lends the connection to a second borrower. *)
BeginShared(c) ==
  /\ body[c] = "none"
  /\ Goto(c, "entry")
  /\ caller' = [caller EXCEPT ![c] = IF c \in Prompt THEN "waiting" ELSE "in"]
  /\ UNCHANGED <<fields, obj, result, closer, session, alive, overlap, crashed>>

(* The holder of the connection makes its next call: the pool lends the    *)
(* connection to one borrower at a time.  GetPromptWithContext spawns the  *)
(* goroutine that runs GetPrompt and waits.                                *)
Begin(c) ==
  /\ body[c] = "none"
  /\ \A x \in Call : ~InCall(x)
  /\ Goto(c, "entry")
  /\ caller' = [caller EXCEPT ![c] = IF c \in Prompt THEN "waiting" ELSE "in"]
  /\ UNCHANGED <<fields, obj, result, closer, session, alive, overlap, crashed>>

(* Fault: a driver that was dropped is created again. *)
EntryReconnects(c) ==
  /\ body[c] = "entry"
  /\ \/ closed /\ Return(c) /\ UNCHANGED obj
     \/ ~closed /\ channel = None /\ Goto(c, "connect") /\ UNCHANGED <<caller, obj>>
     \/ ~closed /\ channel # None /\ TakeRefs(c)
  /\ UNCHANGED <<fields, result, closer, session, alive, overlap, crashed>>

(* The first critical section of Execute and of GetPrompt. *)
Entry(c) ==
  /\ body[c] = "entry"
  /\ \/ (closed \/ driver = None) /\ Return(c) /\ UNCHANGED obj
     \/ ~closed /\ driver # None /\ channel = None /\ Goto(c, "connect") /\ UNCHANGED <<caller, obj>>
     \/ ~closed /\ driver # None /\ channel # None /\ TakeRefs(c)
  /\ UNCHANGED <<fields, result, closer, session, alive, overlap, crashed>>

(* The second, after Connect: Execute looks at the channel only, GetPrompt *)
(* at the driver only, neither at d.closed.                                *)
Check(c) ==
  LET missing == IF c \in Prompt THEN driver = None ELSE channel = None IN
  /\ body[c] = "check"
  /\ \/ missing /\ Return(c) /\ UNCHANGED obj
     \/ ~missing /\ TakeRefs(c)
  /\ UNCHANGED <<fields, result, closer, session, alive, overlap, crashed>>

(* SendCommands, SendInteractive or GetPrompt of the library returns, with *)
(* a result or an error.                                                   *)
SendReturns(c) ==
  /\ body[c] = "sending"
  /\ Goto(c, "sent")
  /\ crashed' = (obj[c] = None)
  /\ UNCHANGED <<fields, caller, obj, result, closer, session, alive, overlap>>

(* Fault: resultChan has no place and the goroutine ignores the context. *)
DeliverUnbuffered(c) ==
  /\ body[c] = "sent"
  /\ caller[c] = "waiting"
  /\ result' = result \cup {c}
  /\ Goto(c, "ended")
  /\ UNCHANGED <<fields, caller, obj, closer, session, alive, overlap, crashed>>

(* The goroutine's select: the one place of resultChan, or the context     *)
(* that the caller's return has cancelled.                                 *)
Deliver(c) ==
  /\ body[c] = "sent"
  /\ \/ c \notin result /\ result' = result \cup {c}
     \/ ~InCall(c) /\ UNCHANGED result
  /\ Goto(c, "ended")
  /\ UNCHANGED <<fields, caller, obj, closer, session, alive, overlap, crashed>>

(* The caller's select: the result ... *)
Receive(c) ==
  /\ caller[c] = "waiting"
  /\ c \in result
  /\ caller' = [caller EXCEPT ![c] = "returned"]
  /\ result' = result \ {c}
  /\ UNCHANGED <<fields, body, obj, closer, session, alive, overlap, crashed>>

(* Fault: the caller waits for the router whatever its deadline. *)
TimeoutIgnored(c) ==
  /\ caller[c] = "waiting"
  /\ c \in result
  /\ caller' = [caller EXCEPT ![c] = "timedout"]
  /\ UNCHANGED <<fields, body, obj, result, closer, session, alive, overlap, crashed>>

(* ... or the context, while the goroutine goes on. *)
Timeout(c) ==
  /\ caller[c] = "waiting"
  /\ caller' = [caller EXCEPT ![c] = "timedout"]
  /\ UNCHANGED <<fields, body, obj, result, closer, session, alive, overlap, crashed>>

-----------------------------------------------------------------------------
(***************************************************************************)
(* Connect.                                                                *)
(***************************************************************************)

Busy == \E c \in Call : body[c] \in Connecting

(* The only critical section. *)
Connect(c) ==
  /\ body[c] = "connect"
  /\ \/ closed /\ Return(c) /\ UNCHANGED overlap
     \/ ~closed /\ driver # None /\ channel # None /\ Goto(c, "check") /\ UNCHANGED <<caller, overlap>>
     \/ /\ ~closed /\ (driver = None \/ channel = None)
        /\ Goto(c, "test")
        /\ overlap' = (overlap \/ Busy)
        /\ UNCHANGED caller
  /\ UNCHANGED <<fields, obj, result, closer, session, alive, crashed>>

(* d.driver != nil; otherwise a new one, unless that fails. *)
TestDriver(c) ==
  /\ body[c] = "test"
  /\ \/ driver # None /\ Goto(c, "open") /\ UNCHANGED <<driver, caller>>
     \/ driver = None /\ driver' = c /\ Goto(c, "open") /\ UNCHANGED caller
     \/ driver = None /\ Return(c) /\ UNCHANGED driver
  /\ UNCHANGED <<closed, channel, obj, result, closer, session, alive, overlap, crashed>>

(* d.driver is read again for the call of Open. *)
OpenDriver(c) ==
  /\ body[c] = "open"
  /\ crashed' = (driver = None)
  /\ obj' = [obj EXCEPT ![c] = driver]
  /\ Goto(c, "opening")
  /\ UNCHANGED <<fields, caller, result, closer, session, alive, overlap>>

(* Open returns. *)
OpenReturns(c) ==
  /\ body[c] = "opening"
  /\ \/ /\ session' = [session EXCEPT ![obj[c]] = c]
        /\ alive' = alive \cup {c}
        /\ Goto(c, "read")
     \/ Goto(c, "drop") /\ UNCHANGED <<session, alive>>
  /\ UNCHANGED <<fields, caller, obj, result, closer, overlap, crashed>>

(* After a failure, d.driver = nil ... *)
DropDriver(c) ==
  /\ body[c] = "drop"
  /\ driver' = None
  /\ Goto(c, "dropped")
  /\ UNCHANGED <<closed, channel, caller, obj, result, closer, session, alive, overlap, crashed>>

(* ... and d.channel = nil. *)
DropChannel(c) ==
  /\ body[c] = "dropped"
  /\ channel' = None
  /\ Return(c)
  /\ UNCHANGED <<closed, driver, obj, result, closer, session, alive, overlap, crashed>>

(* After a success, d.driver is read once more for its Channel ... *)
ReadChannel(c) ==
  /\ body[c] = "read"
  /\ crashed' = (driver = None)
  /\ obj' = [obj EXCEPT ![c] = driver]
  /\ Goto(c, "write")
  /\ UNCHANGED <<fields, caller, result, closer, session, alive, overlap>>

(* ... and d.channel is set. *)
WriteChannel(c) ==
  /\ body[c] = "write"
  /\ channel' = obj[c]
  /\ Goto(c, "check")
  /\ UNCHANGED <<closed, driver, caller, obj, result, closer, session, alive, overlap, crashed>>

-----------------------------------------------------------------------------
(***************************************************************************)
(* Close.                                                                  *)
(***************************************************************************)

(* Up to the sleep, for which the lock is released.  The context it        *)
(* cancels is the one of nobody's call.                                    *)
CloseBegin(k) ==
  /\ closer[k] = "out"
  /\ closed' = TRUE
  /\ \/ closed /\ UNCHANGED <<channel, overlap>> /\ closer' = [closer EXCEPT ![k] = "done"]
     \/ /\ ~closed /\ driver = None
        /\ channel' = None
        /\ overlap' = (overlap \/ Busy)
        /\ closer' = [closer EXCEPT ![k] = "done"]
     \/ /\ ~closed /\ driver # None
        /\ overlap' = (overlap \/ Busy)
        /\ closer' = [closer EXCEPT ![k] = "wait"]
        /\ UNCHANGED channel
  /\ UNCHANGED <<driver, callVars, session, alive, crashed>>

(* Fault: the fields are reset and the library's Close is forgotten. *)
CloseEndWithoutClose(k) ==
  /\ closer[k] = "wait"
  /\ closer' = [closer EXCEPT ![k] = "done"]
  /\ driver' = None /\ channel' = None
  /\ UNCHANGED <<closed, callVars, session, alive, overlap, crashed>>

(* From the second locking on: the library's Close, whose error or panic   *)
(* changes nothing, and the reset of the fields.                           *)
CloseEnd(k) ==
  /\ closer[k] = "wait"
  /\ closer' = [closer EXCEPT ![k] = "done"]
  /\ \/ driver = None /\ UNCHANGED <<driver, channel, alive>>
     \/ /\ driver # None
        /\ alive' = alive \ {session[driver]}
        /\ driver' = None /\ channel' = None
  /\ UNCHANGED <<closed, callVars, session, overlap, crashed>>

-----------------------------------------------------------------------------
(* Everything a call does by itself, the library's answers included but    *)
(* for the answer to a command.                                            *)
BodyStep(c) ==
  \/ Entry(c) \/ Check(c) \/ Deliver(c)
  \/ Connect(c) \/ TestDriver(c) \/ OpenDriver(c) \/ OpenReturns(c)
  \/ DropDriver(c) \/ DropChannel(c) \/ ReadChannel(c) \/ WriteChannel(c)

CallerStep(c) == Receive(c) \/ Timeout(c)

Next ==
  /\ ~crashed
  /\ \/ \E c \in Call : Begin(c) \/ BodyStep(c) \/ SendReturns(c) \/ CallerStep(c)
     \/ \E k \in Closer : CloseBegin(k) \/ CloseEnd(k)

Spec == Init /\ [][Next]_vars

(***************************************************************************)
(* Fairness.  Goroutines run, contexts expire and scrapligo's Open has a   *)
(* timeout of its own.  Nothing makes a router answer a command, a holder  *)
(* make a call or anybody Close.                                           *)
(***************************************************************************)
FairSpec ==
  /\ Spec
  /\ \A c \in Call : WF_vars(~crashed /\ BodyStep(c)) /\ WF_vars(~crashed /\ CallerStep(c))

-----------------------------------------------------------------------------
(***************************************************************************)
(* What must hold.                                                         *)
(***************************************************************************)

(* Neither a nil dereference nor a lost session, as long as Connect runs    *)
(* beside no other Connect and no Close: d.driver keeps every open session, *)
(* so that Close ends it.  d.mu does not keep them apart: Connect and Close *)
(* both release it half way, and a health check that has timed out leaves   *)
(* its Connect running.                                                     *)
HarmNeedsOverlap ==
  ~overlap => /\ ~crashed
              /\ \A s \in alive : driver # None /\ session[driver] = s

(* Two commands are on the wire at once only after a timeout: the call that *)
(* has returned without its answer is the only one that may still read what *)
(* the router says to the next.                                             *)
OneUnlessTimedOut ==
  \A c1, c2 \in Call :
    c1 # c2 /\ body[c1] = "sending" /\ body[c2] = "sending" =>
      caller[c1] = "timedout" \/ caller[c2] = "timedout"

(* A driver whose Open has failed is lost for good once the calls that were *)
(* connecting have ended: Execute and GetPrompt refuse it before Connect    *)
(* could create another network.Driver, so that the connection recovers     *)
(* only by a rebuild.                                                       *)
Lost == driver = None /\ \A c \in Call : body[c] \notin Connecting \cup {"connect"}
LostForGood == [][Lost => Lost']_vars

(* Execute and GetPromptWithContext return, though the router never        *)
(* answers a command.                                                      *)
CallsReturn == \A c \in Call : InCall(c) ~> (~InCall(c) \/ crashed)

(* A spawned goroutine ends once the library has answered, whether or not   *)
(* its caller still waits.                                                  *)
GoroutinesEnd == \A c \in Call : body[c] = "sent" ~> (body[c] = "ended" \/ crashed)

=============================================================================
