----------------------------- MODULE EventMonitor -----------------------------
(***************************************************************************)
(* The event monitor, amqsevtg.  main() sets up the objects to read from,  *)
(* registers one callback for all of them, starts the callbacks and then   *)
(* looks at endProgram twice a second.  The MQ client invokes the callback *)
(* on a thread of its own, one invocation at a time; endProgram, firstEvent*)
(* and the output are shared with main() without any synchronisation.      *)
(* Whatever was set up is undone by deferred calls, in the opposite order, *)
(* also when a later step of the set-up fails.                             *)
(*                                                                         *)
(* An object is its index in openObjects.  Queues are read destructively.  *)
(* Of an event only its place in the output is kept.  Records given to the  *)
(* OTel SDK are exported, or dropped, by its batch processor.               *)
(***************************************************************************)
EXTENDS Integers, Sequences

CONSTANTS
    NumObjects,    \* len(openObjects)
    MaxEvents      \* bound on the messages put to the objects

ASSUME NumObjectsAssumption == NumObjects \in Nat \ {0}
ASSUME BoundAssumption == MaxEvents \in Nat

openObjects == 1 .. NumObjects
Output == {"text", "array", "otel"}
PCs == {"connect", "handles", "open", "register", "start", "wait", "return", "close",
        "unwind", "exited"}
Calls == {"shutdownOTel", "disc", "dltMh", "close", "dereg", "stopCB"}
Steps == {"idle", "format", "flag", "print"}
Tokens == {"[", "]", "event", ",event"}

VARIABLES
    output, usingDefaults, waits,        \* options: format, -q and -t not given, -w given
    pc, i, deferred,                     \* main(): its loop index and deferred calls
    endProgram, firstEvent, separator, active,   \* shared with the callback
    step,                                \* where the running callback is
    out, logged,                         \* stdout; records given to the OTel SDK
    connected, handles, opened, registered, started, otel,  \* what is set up
    waiting, alive, troubled, entered,   \* messages; the connection; ENTER was pressed
    produced, taken, reported, dropped, idle, stopFailed     \* history

options == <<output, usingDefaults, waits>>
shared == <<endProgram, firstEvent, separator, active>>
printed == <<out, logged>>
resources == <<connected, handles, opened, registered, started, otel>>
outside == <<waiting, alive, troubled, entered, produced>>
history == <<taken, reported, dropped, idle, stopFailed>>
vars == <<options, pc, i, deferred, shared, step, printed, resources, outside, history>>

FlagsTyped ==
    {usingDefaults, waits, endProgram, firstEvent, connected, started, otel, alive, troubled,
        entered, stopFailed} \subseteq BOOLEAN
MainTyped ==
    /\ pc \in PCs /\ i \in openObjects
    /\ deferred \in Seq([call : Calls, obj : openObjects])
OutputTyped ==
    /\ output \in Output /\ separator \in {"", ","} /\ step \in Steps
    /\ out \in Seq(Tokens) /\ logged \in Nat
ObjectsTyped ==
    {active, handles, opened, registered, idle} \subseteq SUBSET openObjects
MessagesTyped ==
    /\ waiting \in [openObjects -> Nat] /\ produced \in 0 .. MaxEvents
    /\ taken \in Nat /\ reported \in Nat /\ dropped \in Nat
TypeOK == FlagsTyped /\ MainTyped /\ OutputTyped /\ ObjectsTyped /\ MessagesTyped

Deferred(call, obj) == Append(deferred, [call |-> call, obj |-> obj])

\* parseParms and initOTel: what fails before the connection ends the program
Init ==
    /\ output \in Output /\ usingDefaults \in BOOLEAN /\ waits \in BOOLEAN
    /\ pc = "connect" /\ i = 1
    /\ otel = (output = "otel")
    /\ deferred = IF otel THEN <<[call |-> "shutdownOTel", obj |-> 1]>> ELSE <<>>
    /\ endProgram = FALSE /\ firstEvent = TRUE /\ separator = "" /\ active = {}
    /\ step = "idle" /\ out = <<>> /\ logged = 0
    /\ connected = FALSE /\ started = FALSE
    /\ handles = {} /\ opened = {} /\ registered = {}
    /\ waiting = [o \in openObjects |-> 0] /\ alive = TRUE /\ troubled = FALSE
    /\ entered = FALSE /\ produced = 0 /\ taken = 0 /\ reported = 0 /\ dropped = 0
    /\ idle = {} /\ stopFailed = FALSE

-----------------------------------------------------------------------------
(* main()                                                                  *)

\* Mutant: off by one
MoreByOne == i <= NumObjects
More == i < NumObjects

\* After an error the rest of the set-up and the wait are skipped
Fail == pc' = "return" /\ UNCHANGED i
Advance(next) == IF More THEN i' = i + 1 /\ UNCHANGED pc ELSE i' = 1 /\ pc' = next

\* Connx; the platform is inquired, which may fail with the connection made
Connect ==
    /\ pc = "connect"
    /\ \/ Fail /\ UNCHANGED <<connected, deferred>>
       \/ /\ connected' = TRUE /\ deferred' = Deferred("disc", i)
          /\ Fail \/ (pc' = "handles" /\ UNCHANGED i)
    /\ UNCHANGED <<options, shared, step, printed, handles, opened, registered, started,
                   otel, outside, history>>

\* CrtMH
CreateHandle ==
    /\ pc = "handles"
    /\ \/ Fail /\ UNCHANGED <<handles, deferred>>
       \/ /\ handles' = handles \union {i} /\ deferred' = Deferred("dltMh", i)
          /\ Advance("open")
    /\ UNCHANGED <<options, shared, step, printed, connected, opened, registered, started,
                   otel, outside, history>>

\* Open or Sub.  A queue that does not exist is skipped if it is a default one.
OpenObject ==
    /\ pc = "open"
    /\ \/ Fail /\ UNCHANGED <<opened, active, deferred>>
       \/ usingDefaults /\ Advance("register") /\ UNCHANGED <<opened, active, deferred>>
       \/ /\ opened' = opened \union {i} /\ active' = active \union {i}
          /\ deferred' = Deferred("close", i)
          /\ Advance("register")
    /\ UNCHANGED <<options, endProgram, firstEvent, separator, step, printed, connected,
                   handles, registered, started, otel, outside, history>>

\* Mutant: the callback is left registered
NotDeregistered == deferred
DeregDeferred == Deferred("dereg", i)

\* CB(MQOP_REGISTER) for the objects that were opened
Register ==
    /\ pc = "register"
    /\ \/ i \in active /\ Fail /\ UNCHANGED <<registered, deferred>>
       \/ i \notin active /\ Advance("start") /\ UNCHANGED <<registered, deferred>>
       \/ /\ i \in active
          /\ registered' = registered \union {i} /\ deferred' = DeregDeferred
          /\ Advance("start")
    /\ UNCHANGED <<options, shared, step, printed, connected, handles, opened, started,
                   otel, outside, history>>

\* Mutant: the callbacks are left to the end of the connection
NotStopped == deferred
StopDeferred == Deferred("stopCB", i)

\* Ctl(MQOP_START)
Start ==
    /\ pc = "start"
    /\ \/ Fail /\ UNCHANGED <<started, deferred>>
       \/ started' = TRUE /\ deferred' = StopDeferred /\ pc' = "wait" /\ UNCHANGED i
    /\ UNCHANGED <<options, shared, step, printed, connected, handles, opened, registered,
                   otel, outside, history>>

\* The loop around time.Sleep ends
SeeEnd ==
    /\ pc = "wait" /\ endProgram
    /\ pc' = "return"
    /\ UNCHANGED <<options, i, deferred, shared, step, printed, resources, outside, history>>

\* Mutant: the array is closed whether or not it was opened
ClosureOfAnyArray == output = "array"
ClosureDue == output = "array" /\ ~firstEvent

\* firstEvent is read here and "]" is printed in a step of its own, both
\* before the callbacks are stopped
DecideClosure ==
    /\ pc = "return"
    /\ pc' = IF ClosureDue THEN "close" ELSE "unwind"
    /\ UNCHANGED <<options, i, deferred, shared, step, printed, resources, outside, history>>

CloseArray ==
    /\ pc = "close"
    /\ out' = Append(out, "]") /\ pc' = "unwind"
    /\ UNCHANGED <<options, i, deferred, shared, step, logged, resources, outside, history>>

\* ForceFlush and Shutdown export what the SDK still holds, or some of it; their
\* errors are ignored, and the rest is gone
ShutdownOTel ==
    /\ otel' = FALSE /\ logged' = 0
    /\ \E n \in 0 .. logged : reported' = reported + n /\ dropped' = dropped + (logged - n)

\* MQOP_STOP returns when no callback is running; its error is ignored
StopCallbacks ==
    \/ step = "idle" /\ started' = FALSE /\ UNCHANGED stopFailed
    \/ stopFailed' = TRUE /\ UNCHANGED started

\* The deferred calls run, the last one first.  As long as callbacks are started,
\* what gives MQ resources back fails with MQRC_HCONN_ASYNC_ACTIVE.
LastDeferred == deferred[Len(deferred)]
Unwind ==
    /\ pc = "unwind" /\ deferred # <<>>
    /\ LET call == LastDeferred.call  obj == LastDeferred.obj IN
       /\ deferred' = SubSeq(deferred, 1, Len(deferred) - 1)
       /\ IF call = "stopCB" THEN StopCallbacks ELSE UNCHANGED <<started, stopFailed>>
       /\ registered' = IF call = "dereg" /\ ~started THEN registered \ {obj} ELSE registered
       /\ opened' = IF call = "close" /\ ~started THEN opened \ {obj} ELSE opened
       /\ handles' = IF call = "dltMh" /\ ~started THEN handles \ {obj} ELSE handles
       /\ connected' = (connected /\ ~(call = "disc" /\ ~started))
       /\ IF call = "shutdownOTel" THEN ShutdownOTel
          ELSE UNCHANGED <<otel, logged, reported, dropped>>
    /\ UNCHANGED <<options, pc, i, shared, step, out, outside, taken, idle>>

Exit ==
    /\ pc = "unwind" /\ deferred = <<>>
    /\ pc' = "exited"
    /\ UNCHANGED <<options, i, deferred, shared, step, printed, resources, outside, history>>

MainStep ==
    \/ Connect \/ CreateHandle \/ OpenObject \/ Register \/ Start \/ SeeEnd
    \/ DecideClosure \/ CloseArray \/ Unwind \/ Exit

-----------------------------------------------------------------------------
(* The callback, invoked by the MQ client                                  *)

Main == <<options, pc, i, deferred, resources>>
CanCall(o) == started /\ pc # "exited" /\ step = "idle" /\ o \in registered

\* Mutant: an object that was reported to have no messages stays inactive
ActiveBefore(o) == active
Reactivated(o) == active \union {o}

\* A message is removed from its object; not everything is an event that is
\* formatted
MessageRemoved(o) ==
    /\ CanCall(o) /\ alive /\ waiting[o] > 0
    /\ waiting' = [waiting EXCEPT ![o] = @ - 1]
    /\ active' = Reactivated(o)
    /\ idle' = idle \ {o}
    /\ \/ step' = "format" /\ taken' = taken + 1
       \/ UNCHANGED <<step, taken>>
    /\ UNCHANGED <<Main, endProgram, firstEvent, separator, printed, alive, troubled, entered,
                   produced, reported, dropped, stopFailed>>

\* The end of formatEvent: to the OTel logger, which takes nothing any more once it
\* is shut down, or "[" before the first event of an array and a comma before the
\* others
FormatEvent ==
    /\ step = "format"
    /\ IF output = "otel"
       THEN /\ step' = "idle"
            /\ logged' = IF otel THEN logged + 1 ELSE logged
            /\ UNCHANGED <<out, separator>>
       ELSE IF output = "array" /\ firstEvent
       THEN out' = Append(out, "[") /\ step' = "flag" /\ UNCHANGED <<logged, separator>>
       ELSE /\ separator' = IF output = "array" THEN "," ELSE separator
            /\ step' = "print"
            /\ UNCHANGED <<out, logged>>
    /\ UNCHANGED <<Main, endProgram, firstEvent, active, outside, history>>

\* Mutant: the first event is always the first
StillFirst == firstEvent
FirstDone == FALSE

SetFirstEvent ==
    /\ step = "flag"
    /\ firstEvent' = FirstDone /\ step' = "print"
    /\ UNCHANGED <<Main, endProgram, separator, active, printed, outside, history>>

PrintEvent ==
    /\ step = "print"
    /\ out' = Append(out, IF separator = "," THEN ",event" ELSE "event")
    /\ reported' = reported + 1
    /\ step' = "idle"
    /\ UNCHANGED <<Main, shared, logged, outside, taken, dropped, idle, stopFailed>>

\* Mutant: the other objects count although they are inactive
OthersOpen(o) == opened \ {o} # {}
SomeActive(o) == active \ {o} # {}

\* MQRC_NO_MSG_AVAILABLE: the wait interval of an object is over
NoMessage(o) ==
    /\ CanCall(o) /\ alive /\ waits /\ waiting[o] = 0
    /\ active' = active \ {o}
    /\ endProgram' = (endProgram \/ ~SomeActive(o))
    /\ idle' = idle \union {o}
    /\ UNCHANGED <<Main, firstEvent, separator, step, printed, outside, taken, reported,
                   dropped, stopFailed>>

\* Mutant: the event call of a broken connection is ignored like others
Ignored == endProgram
EndOnTrouble == TRUE

\* The connection is broken, the queue manager quiesces, or an object changed
TroubleReported(o) ==
    /\ CanCall(o) /\ troubled
    /\ endProgram' = EndOnTrouble
    /\ UNCHANGED <<Main, firstEvent, separator, active, step, printed, outside, history>>

Invocation(o) == MessageRemoved(o) \/ NoMessage(o) \/ TroubleReported(o)
CallbackStep == FormatEvent \/ SetFirstEvent \/ PrintEvent

-----------------------------------------------------------------------------
(* The OTel SDK, the queue manager and the user                            *)

\* The batch processor exports some of its records, or drops them: the export
\* failed or took too long, or its queue was full
BatchLeaves ==
    /\ otel /\ pc # "exited"
    /\ \E n \in 1 .. logged :
           /\ logged' = logged - n
           /\ \/ reported' = reported + n /\ UNCHANGED dropped
              \/ dropped' = dropped + n /\ UNCHANGED reported
    /\ UNCHANGED <<Main, shared, step, out, outside, taken, idle, stopFailed>>

Program == <<options, pc, i, deferred, shared, step, printed, resources, history>>

MessageArrives(o) ==
    /\ alive /\ produced < MaxEvents
    /\ produced' = produced + 1
    /\ waiting' = [waiting EXCEPT ![o] = @ + 1]
    /\ UNCHANGED <<Program, alive, troubled, entered>>

ConnectionBreaks ==
    /\ alive /\ alive' = FALSE /\ troubled' = TRUE
    /\ UNCHANGED <<Program, waiting, entered, produced>>

\* The queue manager quiesces or an object changes; messages may still come
TroubleBegins ==
    /\ ~troubled /\ troubled' = TRUE
    /\ UNCHANGED <<Program, waiting, alive, entered, produced>>

\* The goroutine that waits for ENTER
PressEnter ==
    /\ pc \in {"wait", "return", "close", "unwind"} /\ started /\ ~entered
    /\ entered' = TRUE /\ endProgram' = TRUE
    /\ UNCHANGED <<options, pc, i, deferred, firstEvent, separator, active, step, printed,
                   resources, waiting, alive, troubled, produced, history>>

Exited == pc = "exited" /\ UNCHANGED vars

Next ==
    \/ MainStep
    \/ pc # "exited" /\ CallbackStep
    \/ \E o \in openObjects : Invocation(o) \/ MessageArrives(o)
    \/ BatchLeaves \/ ConnectionBreaks \/ TroubleBegins \/ PressEnter
    \/ Exited

Spec == Init /\ [][Next]_vars

\* main() and a callback that runs go on; the client delivers what there is to
\* deliver for each object, its wait interval elapses again and again, and it does
\* not forget to report trouble
CodeFairness == WF_vars(MainStep) /\ WF_vars(CallbackStep /\ pc # "exited")
ClientFairness ==
    /\ \A o \in openObjects : SF_vars(Invocation(o))
    /\ SF_vars(\E o \in openObjects : TroubleReported(o))
FairSpec == Spec /\ CodeFairness /\ ClientFairness

-----------------------------------------------------------------------------
(* Properties.                                                             *)

\* Array output is opened once, before the first event, and every event but
\* the first has its comma, wherever the closing bracket ended up: the data
\* races on firstEvent and separator do not show in what the callback prints.
Events == {"event", ",event"}
EventAmong(tokens, k) == \E j \in 1 .. k : tokens[j] \in Events
InOrder(tokens) ==
    \A k \in DOMAIN tokens :
        /\ tokens[k] = "[" <=> k = 1
        /\ tokens[k] \in Events => (tokens[k] = ",event" <=> EventAmong(tokens, k - 1))
ArrayInOrder == output = "array" => InOrder(out)

\* If the callbacks could be stopped, the program itself loses no event that it
\* removed from a queue, however main() and a running callback interleave: each
\* event was printed, or handed to the OTel SDK in time for its flush, and what
\* is missing then was dropped by the SDK.  (If MQOP_STOP fails, which nobody
\* notices, an event that the callback has in hand is lost with any output.)
NothingLost ==
    pc = "exited" /\ ~stopFailed =>
        reported = taken \/ (output = "otel" /\ reported + dropped = taken)

\* "The array closure needs to be printed to stdout, provided we've printed at
\* least one event already" (amqsevtg.go): if no callback is running when main()
\* turns to the deferred calls, the output is a complete array, or empty, at
\* that moment.  (A callback that runs then, or later, may still spoil it.)
CompleteArray(tokens) ==
    tokens # <<>> =>
        /\ tokens[1] = "["
        /\ \A k \in DOMAIN tokens : (tokens[k] = "]") <=> (k = Len(tokens))
ClosedIfQuiet ==
    [][pc # "unwind" /\ pc' = "unwind" /\ output = "array" /\ step = "idle"
          => CompleteArray(out')]_vars

\* Whatever step of the set-up failed, resources are given back in an order in
\* which MQ accepts it ("have to do this before the message handle can be
\* successfully deleted"; "otherwise the shutdown will give
\* MQRC_HCONN_ASYNC_ACTIVE"): nothing goes while something that needs it is
\* there.  At the end nothing is left, unless the callbacks could not be stopped.
CleanupInOrder ==
    /\ registered \subseteq opened /\ opened \subseteq handles
    /\ handles # {} => connected
    /\ started => connected /\ registered = opened
    /\ pc = "exited" => ~otel /\ (stopFailed \/ (~connected /\ ~started))

\* "We might get 2033 for some but not all queues ... only exit when all the
\* queues have become inactive": the callback ends a program that is not in
\* trouble only when every object it reads from had nothing to deliver for a
\* whole wait interval after its last message.
EndsWhenIdle ==
    [][~endProgram /\ endProgram' /\ ~troubled /\ entered' = entered
          => registered \subseteq idle']_vars

\* With a wait interval, and when the messages stop coming, the program ends
\* by itself: no interleaving of messages and reports that there are none
\* leaves an object marked active for ever.
IdleEnds == pc = "wait" /\ waits /\ registered # {} ~> pc = "exited"

\* A broken connection, or other trouble, ends the program without anybody
\* pressing ENTER.
TroubleEnds == pc = "wait" /\ troubled /\ registered # {} ~> pc = "exited"
=============================================================================
