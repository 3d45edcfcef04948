------------------------- MODULE EventMonitor_proofs -------------------------
(***************************************************************************)
(* Theorems of EventMonitor, for any number of objects and events.         *)
(***************************************************************************)
EXTENDS EventMonitor, TLAPS

USE NumObjectsAssumption, BoundAssumption

\* What a step of the callback, of the connection or of the user leaves alone.
LEMMA OutsideMain ==
    ASSUME Next, ~MainStep PROVE UNCHANGED <<options, pc, i, deferred, resources>>
<1>1. ASSUME NEW o \in openObjects, Invocation(o) \/ MessageArrives(o)
      PROVE  UNCHANGED <<options, pc, i, deferred, resources>>
  BY <1>1 DEF Invocation, MessageRemoved, NoMessage, TroubleReported, MessageArrives, Main,
     Program
<1> QED
  BY <1>1 DEF Next, CallbackStep, FormatEvent, SetFirstEvent, PrintEvent, Main,
     BatchLeaves, ConnectionBreaks, TroubleBegins, PressEnter, Program, Exited, vars

\* Boolean variables stay so.
LEMMA FlagsStep == ASSUME TypeOK, Next PROVE FlagsTyped'
<1> USE DEF TypeOK, FlagsTyped, options, shared, resources, outside, history
<1>1. CASE MainStep
  BY <1>1 DEF MainStep, Connect, CreateHandle, OpenObject, Register, Start, SeeEnd,
     DecideClosure, CloseArray, Unwind, ShutdownOTel, StopCallbacks, Exit
<1>2. CASE CallbackStep
  BY <1>2 DEF CallbackStep, FormatEvent, SetFirstEvent, FirstDone, PrintEvent, Main
<1>3. ASSUME NEW o \in openObjects, Invocation(o) \/ MessageArrives(o) PROVE FlagsTyped'
  BY <1>3 DEF Invocation, MessageRemoved, NoMessage, TroubleReported, MessageArrives, Main,
     Program, SomeActive, EndOnTrouble
<1>4. CASE BatchLeaves \/ ConnectionBreaks \/ TroubleBegins \/ PressEnter \/ Exited
  BY <1>4 DEF BatchLeaves, ConnectionBreaks, TroubleBegins, PressEnter, Exited, Main, Program,
     vars
<1> QED
  BY <1>1, <1>2, <1>3, <1>4 DEF Next

\* A deferred call more, or the last one less, leaves deferred calls.
LEMMA DeferredTyped ==
    ASSUME MainTyped
    PROVE  /\ \A call \in Calls, obj \in openObjects :
                  Deferred(call, obj) \in Seq([call : Calls, obj : openObjects])
           /\ deferred # <<>> =>
                  /\ SubSeq(deferred, 1, Len(deferred) - 1)
                         \in Seq([call : Calls, obj : openObjects])
                  /\ LastDeferred \in [call : Calls, obj : openObjects]
                  /\ Len(deferred) \in Nat \ {0}
<1> DEFINE S == [call : Calls, obj : openObjects]
<1>1. deferred \in Seq(S)
  BY DEF MainTyped
<1>2. \A call \in Calls, obj \in openObjects : [call |-> call, obj |-> obj] \in S
  OBVIOUS
<1> HIDE DEF S
<1>3. \A call \in Calls, obj \in openObjects : Deferred(call, obj) \in Seq(S)
  <2>1. \A e \in S : Append(deferred, e) \in Seq(S)
    BY <1>1
  <2> QED
    BY <1>2, <2>1 DEF Deferred
<1>4. deferred # <<>> => /\ SubSeq(deferred, 1, Len(deferred) - 1) \in Seq(S)
                         /\ LastDeferred \in S
                         /\ Len(deferred) \in Nat \ {0}
  BY <1>1 DEF LastDeferred
<1> QED
  BY <1>3, <1>4 DEF S

\* The state of main() stays typed.
LEMMA MainStepTyped == ASSUME TypeOK, Next PROVE MainTyped'
<1> USE DEF TypeOK, MainTyped
<1>1. pc' \in PCs /\ i' \in openObjects
  <2>1. CASE MainStep
    BY <2>1 DEF MainStep, Connect, CreateHandle, OpenObject, Register, Start, SeeEnd,
       DecideClosure, CloseArray, Unwind, Exit, Fail, Advance, More, PCs, openObjects
  <2> QED
    BY <2>1, OutsideMain
<1>2. deferred' \in Seq([call : Calls, obj : openObjects])
  <2>1. CASE deferred' = deferred
    BY <2>1
  <2>2. CASE \E call \in Calls : deferred' = Deferred(call, i)
    BY <2>2, DeferredTyped
  <2>3. CASE Unwind
    BY <2>3, DeferredTyped DEF Unwind
  <2>4. {"shutdownOTel", "disc", "dltMh", "close", "dereg", "stopCB"} = Calls
    BY DEF Calls
  <2> QED
    BY <2>1, <2>2, <2>3, <2>4, OutsideMain DEF MainStep, Connect, CreateHandle, OpenObject,
       Register, Start, SeeEnd, DecideClosure, CloseArray, Exit, DeregDeferred, StopDeferred
<1> QED
  BY <1>1, <1>2

\* The output stays typed.
LEMMA OutputStep == ASSUME TypeOK, Next PROVE OutputTyped'
<1>0. /\ \A token \in Tokens : Append(out, token) \in Seq(Tokens)
      /\ logged \in Nat /\ logged + 1 \in Nat /\ 0 \in Nat
      /\ \A n \in 1 .. logged : logged - n \in Nat
  <2>1. out \in Seq(Tokens) /\ logged \in Nat
    BY DEF TypeOK, OutputTyped
  <2>2. \A token \in Tokens : Append(out, token) \in Seq(Tokens)
    BY <2>1
  <2>3. logged + 1 \in Nat /\ \A n \in 1 .. logged : logged - n \in Nat
    BY <2>1
  <2> QED
    BY <2>1, <2>2, <2>3
<1> USE DEF TypeOK, OutputTyped, options, shared, printed
<1>1. CASE MainStep
  <2>1. /\ out' = out \/ \E token \in Tokens : out' = Append(out, token)
        /\ logged' \in {logged, 0}
        /\ UNCHANGED <<output, separator, step>>
    BY <1>1 DEF MainStep, Connect, CreateHandle, OpenObject, Register, Start, SeeEnd,
       DecideClosure, CloseArray, Unwind, ShutdownOTel, Exit, Tokens
  <2>2. out' \in Seq(Tokens) /\ logged' \in Nat
    BY <1>0, <2>1, Zenon
  <2> QED
    BY <2>1, <2>2
<1>2. CASE CallbackStep
  <2>0. logged' \in {logged, logged + 1}
            /\ (out' = out \/ \E token \in Tokens : out' = Append(out, token))
    BY <1>2 DEF CallbackStep, FormatEvent, SetFirstEvent, PrintEvent, Tokens
  <2>1. out' \in Seq(Tokens) /\ logged' \in Nat
    BY <1>0, <2>0, Zenon
  <2>3. separator' \in {"", ","} /\ step' \in Steps /\ output' = output
    BY <1>2 DEF CallbackStep, FormatEvent, SetFirstEvent, PrintEvent, Main, Steps
  <2> QED
    BY <2>1, <2>3
<1>3. ASSUME NEW o \in openObjects, Invocation(o) \/ MessageArrives(o) PROVE OutputTyped'
  BY <1>3 DEF Invocation, MessageRemoved, NoMessage, TroubleReported, MessageArrives, Main,
     Program, Steps
<1>5. CASE BatchLeaves
  <2>1. PICK n \in 1 .. logged : logged' = logged - n
    BY <1>5 DEF BatchLeaves
  <2>2. logged' \in Nat
    BY <1>0, <2>1, Zenon
  <2> QED
    BY <1>5, <2>2 DEF BatchLeaves, Main
<1>4. CASE ConnectionBreaks \/ TroubleBegins \/ PressEnter \/ Exited
  BY <1>4 DEF ConnectionBreaks, TroubleBegins, PressEnter, Exited, Program, vars
<1> QED
  BY <1>1, <1>2, <1>3, <1>4, <1>5 DEF Next

\* Sets of objects stay so.
LEMMA ObjectsStep == ASSUME TypeOK, Next PROVE ObjectsTyped'
<1> USE DEF TypeOK, ObjectsTyped, shared, resources, history
<1>1. CASE MainStep
  BY <1>1 DEF MainTyped, MainStep, Connect, CreateHandle, OpenObject, Register, Start, SeeEnd,
     DecideClosure, CloseArray, Unwind, Exit
<1>2. CASE CallbackStep
  BY <1>2 DEF CallbackStep, FormatEvent, SetFirstEvent, PrintEvent, Main
<1>3. ASSUME NEW o \in openObjects, Invocation(o) \/ MessageArrives(o) PROVE ObjectsTyped'
  BY <1>3 DEF Invocation, MessageRemoved, NoMessage, TroubleReported, MessageArrives, Main,
     Program, Reactivated
<1>4. CASE BatchLeaves \/ ConnectionBreaks \/ TroubleBegins \/ PressEnter \/ Exited
  BY <1>4 DEF BatchLeaves, ConnectionBreaks, TroubleBegins, PressEnter, Exited, Main, Program,
     vars
<1> QED
  BY <1>1, <1>2, <1>3, <1>4 DEF Next

\* Messages are counted by natural numbers.
LEMMA MessagesStep == ASSUME TypeOK, Next PROVE MessagesTyped'
<1> USE DEF TypeOK, MessagesTyped
<1>0. logged \in Nat
  BY DEF OutputTyped
<1>1. CASE UNCHANGED <<waiting, produced, taken, reported, dropped>>
  BY <1>1
<1>2. CASE Unwind
  <2>1. UNCHANGED <<waiting, produced, taken>>
    BY <1>2 DEF Unwind, outside
  <2>2. CASE ShutdownOTel
    <3>1. PICK n \in 0 .. logged : reported' = reported + n /\ dropped' = dropped + (logged - n)
      BY <2>2 DEF ShutdownOTel
    <3> QED
      BY <1>0, <2>1, <3>1
  <2>3. CASE UNCHANGED <<reported, dropped>>
    BY <2>1, <2>3
  <2> QED
    BY <1>2, <2>2, <2>3 DEF Unwind
<1>3. CASE PrintEvent
  <2>1. reported' = reported + 1 /\ UNCHANGED <<waiting, produced, taken, dropped>>
    BY <1>3 DEF PrintEvent, outside
  <2> QED
    BY <2>1
<1>4. ASSUME NEW o \in openObjects, MessageRemoved(o) PROVE MessagesTyped'
  <2>1. waiting[o] - 1 \in Nat
    BY <1>4 DEF MessageRemoved
  <2>2. waiting' \in [openObjects -> Nat]
    BY <1>4, <2>1 DEF MessageRemoved
  <2>3. taken' \in Nat /\ UNCHANGED <<produced, reported, dropped>>
    BY <1>4 DEF MessageRemoved
  <2> QED
    BY <2>2, <2>3
<1>5. ASSUME NEW o \in openObjects, MessageArrives(o) PROVE MessagesTyped'
  <2>1. waiting' \in [openObjects -> Nat] /\ produced' \in 0 .. MaxEvents
    BY <1>5 DEF MessageArrives
  <2>2. UNCHANGED <<taken, reported, dropped>>
    BY <1>5 DEF MessageArrives, Program, history
  <2> QED
    BY <2>1, <2>2
<1>6. ASSUME MainStep, ~Unwind PROVE UNCHANGED <<waiting, produced, taken, reported, dropped>>
  BY <1>6 DEF MainStep, Connect, CreateHandle, OpenObject, Register, Start, SeeEnd,
     DecideClosure, CloseArray, Exit, outside, history
<1>7. ASSUME NEW o \in openObjects, NoMessage(o) \/ TroubleReported(o)
      PROVE  UNCHANGED <<waiting, produced, taken, reported, dropped>>
  BY <1>7 DEF NoMessage, TroubleReported, outside, history
<1>8. ASSUME \/ FormatEvent \/ SetFirstEvent
             \/ ConnectionBreaks \/ TroubleBegins \/ PressEnter \/ Exited
      PROVE  UNCHANGED <<waiting, produced, taken, reported, dropped>>
  BY <1>8 DEF FormatEvent, SetFirstEvent, ConnectionBreaks, TroubleBegins, PressEnter, Exited,
     vars, outside, history, Program
<1>9. CASE BatchLeaves
  <2>1. /\ UNCHANGED <<waiting, produced, taken>>
        /\ \E n \in 1 .. logged : reported' \in {reported, reported + n}
                                  /\ dropped' \in {dropped, dropped + n}
    BY <1>9 DEF BatchLeaves, outside
  <2> QED
    BY <1>0, <2>1
<1> QED
  BY <1>1, <1>2, <1>3, <1>4, <1>5, <1>6, <1>7, <1>8, <1>9 DEF Next, CallbackStep, Invocation

\* The program starts typed ...
LEMMA TypeInit == ASSUME Init PROVE TypeOK
<1>1. FlagsTyped
  BY DEF Init, FlagsTyped
<1>2. MainTyped
  <2>1. pc = "connect" /\ i = 1
    BY Zenon DEF Init
  <2>0. pc \in PCs /\ i \in openObjects
    BY <2>1 DEF PCs, openObjects
  <2>2. [call |-> "shutdownOTel", obj |-> 1] \in [call : Calls, obj : openObjects]
    BY DEF Calls, openObjects
  <2>3. deferred = <<>> \/ deferred = <<[call |-> "shutdownOTel", obj |-> 1]>>
    BY DEF Init
  <2> DEFINE S == [call : Calls, obj : openObjects]
  <2> HIDE DEF S
  <2>4. \A e \in S : <<>> \in Seq(S) /\ <<e>> \in Seq(S)
    OBVIOUS
  <2>5. deferred \in Seq(S)
    BY <2>2, <2>3, <2>4 DEF S
  <2> QED
    BY <2>0, <2>5 DEF MainTyped, S
<1>3. OutputTyped
  <2>1. out = <<>> /\ logged = 0
    BY Zenon DEF Init
  <2>3. out \in Seq(Tokens) /\ logged \in Nat
    BY <2>1
  <2>2. output \in Output /\ separator \in {"", ","} /\ step \in Steps
    BY DEF Init, Steps
  <2> QED
    BY <2>2, <2>3 DEF OutputTyped
<1>4. ObjectsTyped
  BY DEF Init, ObjectsTyped
<1>5. MessagesTyped
  <2>1. waiting \in [openObjects -> Nat]
    BY DEF Init
  <2>2. produced = 0 /\ taken = 0 /\ reported = 0 /\ dropped = 0
    BY Zenon DEF Init
  <2> QED
    BY <2>1, <2>2 DEF MessagesTyped
<1> QED
  BY <1>1, <1>2, <1>3, <1>4, <1>5 DEF TypeOK

\* ... and stays so.
LEMMA TypeStep == ASSUME TypeOK, [Next]_vars PROVE TypeOK'
<1>1. CASE Next
  BY <1>1, FlagsStep, MainStepTyped, OutputStep, ObjectsStep, MessagesStep DEF TypeOK
<1>2. CASE UNCHANGED vars
  <2> USE <1>2 DEF TypeOK, vars, options, shared, printed, resources, outside, history
  <2>1. FlagsTyped' /\ ObjectsTyped'
    BY DEF FlagsTyped, ObjectsTyped
  <2>2. MainTyped' /\ OutputTyped'
    BY DEF MainTyped, OutputTyped
  <2>3. MessagesTyped'
    BY DEF MessagesTyped
  <2> QED
    BY <2>1, <2>2, <2>3
<1> QED
  BY <1>1, <1>2

\* Every variable of the program stays in its type; in particular the deferred
\* calls and the output stay sequences of what they are made of.
THEOREM TypeOKTheorem == Spec => []TypeOK
<1>1. Init => TypeOK
  BY TypeInit
<1>2. TypeOK /\ [Next]_vars => TypeOK'
  BY TypeStep
<1> QED
  BY <1>1, <1>2, PTL DEF Spec

-----------------------------------------------------------------------------
(* The deferred calls                                                      *)

\* The order in which things are set up
Rank(call) ==
    IF call = "shutdownOTel" THEN 0 ELSE IF call = "disc" THEN 1 ELSE IF call = "dltMh" THEN 2
    ELSE IF call = "close" THEN 3 ELSE IF call = "dereg" THEN 4 ELSE 5
RankAt(k) == Rank(deferred[k].call)
SettingUp == pc \in {"connect", "handles", "open", "register", "start"}

\* Calls are deferred in that order.
Ordered ==
    /\ \A j, k \in DOMAIN deferred : j <= k => RankAt(j) <= RankAt(k)
    /\ \A k \in DOMAIN deferred :
           /\ pc = "connect" => RankAt(k) = 0
           /\ pc = "handles" => RankAt(k) <= 2
           /\ pc = "open" => RankAt(k) <= 3
           /\ pc \in {"register", "start"} => RankAt(k) <= 4
    /\ pc = "exited" => deferred = <<>>

\* Nothing is deferred after stopCB, so it runs at most once; when it failed the
\* callbacks go on.
StopOnce ==
    /\ \A k \in DOMAIN deferred :
           RankAt(k) = 5 => k = Len(deferred) /\ started /\ ~stopFailed
    /\ stopFailed => started /\ pc \in {"unwind", "exited"}

\* What is set up has a deferred call; after a failed stopCB that call does not help.
DeferredCalls == {deferred[k] : k \in DOMAIN deferred}
Call(call, obj) == [call |-> call, obj |-> obj]
Covered ==
    /\ otel => \E o \in openObjects : Call("shutdownOTel", o) \in DeferredCalls
    /\ ~stopFailed =>
           /\ connected => \E o \in openObjects : Call("disc", o) \in DeferredCalls
           /\ \A o \in handles : Call("dltMh", o) \in DeferredCalls
           /\ \A o \in opened : Call("close", o) \in DeferredCalls
           /\ \A o \in registered : Call("dereg", o) \in DeferredCalls
           /\ started => \E o \in openObjects : Call("stopCB", o) \in DeferredCalls

\* The set-up goes through the objects one by one.
Progress ==
    /\ SettingUp => ~started /\ active = opened
    /\ pc = "connect" => i = 1 /\ handles = {} /\ opened = {}
    /\ pc \in {"handles", "open", "register", "start"} => connected
    /\ pc = "handles" => (\A o \in openObjects : o < i => o \in handles) /\ opened = {}
    /\ pc \in {"open", "register", "start"} => handles = openObjects
    /\ pc = "register" => \A o \in opened : o < i => o \in registered
    /\ pc \in {"connect", "handles", "open"} => registered = {}
    /\ pc = "start" => opened \subseteq registered
    /\ SettingUp \/ (started /\ ~stopFailed) => (otel <=> output = "otel")
Nested ==
    /\ registered \subseteq opened /\ opened \subseteq handles
    /\ handles # {} => connected
    /\ started => connected /\ opened \subseteq registered

StackInv == TypeOK /\ Ordered /\ StopOnce /\ Covered /\ Progress /\ Nested

\* The stack with one call more.
LEMMA Pushed ==
    ASSUME MainTyped, NEW call \in Calls, NEW o \in openObjects,
           deferred' = Deferred(call, o)
    PROVE  /\ Len(deferred) \in Nat /\ DOMAIN deferred = 1 .. Len(deferred)
           /\ DOMAIN deferred' = 1 .. Len(deferred) + 1
           /\ \A k \in 1 .. Len(deferred) : deferred'[k] = deferred[k]
           /\ deferred'[Len(deferred) + 1].call = call
           /\ deferred'[Len(deferred) + 1].obj = o
<1> DEFINE S == [call : Calls, obj : openObjects]
           e == [call |-> call, obj |-> o]
<1>1. deferred \in Seq(S) /\ e \in S /\ deferred' = Append(deferred, e)
  BY DEF MainTyped, Deferred
<1>2. e.call = call /\ e.obj = o
  OBVIOUS
<1> HIDE DEF S, e
<1> QED
  BY <1>1, <1>2

\* The stack with its last call gone.
LEMMA Popped ==
    ASSUME MainTyped, deferred # <<>>,
           deferred' = SubSeq(deferred, 1, Len(deferred) - 1)
    PROVE  /\ Len(deferred) \in Nat \ {0} /\ DOMAIN deferred = 1 .. Len(deferred)
           /\ DOMAIN deferred' = 1 .. Len(deferred) - 1
           /\ \A k \in 1 .. Len(deferred) - 1 : deferred'[k] = deferred[k]
<1> DEFINE S == [call : Calls, obj : openObjects]
<1>1. deferred \in Seq(S)
  BY DEF MainTyped
<1> HIDE DEF S
<1> QED
  BY <1>1

\* A deferred call more is added to those there were ...
LEMMA CallsPushed ==
    ASSUME MainTyped, NEW call \in Calls, NEW o \in openObjects, deferred' = Deferred(call, o)
    PROVE  DeferredCalls' = DeferredCalls \union {Call(call, o)}
<1>1. PICK n \in Nat :
          /\ DOMAIN deferred = 1 .. n /\ DOMAIN deferred' = 1 .. n + 1
          /\ \A k \in 1 .. n : deferred'[k] = deferred[k]
          /\ deferred'[n + 1] = Call(call, o)
  <2>1. deferred \in Seq([call : Calls, obj : openObjects])
    BY DEF MainTyped
  <2>2. deferred' = Append(deferred, Call(call, o))
    BY DEF Deferred, Call
  <2>3. deferred'[Len(deferred) + 1] = Call(call, o)
    BY <2>1, <2>2
  <2> QED
    BY <2>3, Pushed
<1>2. \A k \in 1 .. n + 1 : k \in 1 .. n \/ k = n + 1
  OBVIOUS
<1> QED
  BY <1>1, <1>2 DEF DeferredCalls

\* ... and only the last one is removed.
LEMMA CallsPopped ==
    ASSUME MainTyped, deferred # <<>>, deferred' = SubSeq(deferred, 1, Len(deferred) - 1)
    PROVE  DeferredCalls \subseteq DeferredCalls' \union {LastDeferred}
<1>1. PICK n \in Nat :
          /\ DOMAIN deferred = 1 .. n /\ DOMAIN deferred' = 1 .. n - 1
          /\ \A k \in 1 .. n - 1 : deferred'[k] = deferred[k]
          /\ LastDeferred = deferred[n]
  BY Popped DEF LastDeferred
<1>2. \A k \in 1 .. n : k \in 1 .. n - 1 \/ k = n
  OBVIOUS
<1> QED
  BY <1>1, <1>2 DEF DeferredCalls

\* Ranks are numbers.
LEMMA RankType == \A call : Rank(call) \in 0 .. 5
BY DEF Rank

\* A call of the highest rank so far keeps the order.
LEMMA OrderedPushed ==
    ASSUME MainTyped, Ordered, NEW call \in Calls, NEW o \in openObjects,
           deferred' = Deferred(call, o),
           \A k \in DOMAIN deferred : RankAt(k) <= Rank(call)
    PROVE  /\ \A j, k \in DOMAIN deferred' : j <= k => RankAt(j)' <= RankAt(k)'
           /\ \A k \in DOMAIN deferred' : RankAt(k)' <= Rank(call)
<1>0. PICK n \in Nat :
          /\ n - 1 \in Nat /\ DOMAIN deferred = 1 .. n - 1 /\ DOMAIN deferred' = 1 .. n
          /\ \A k \in 1 .. n - 1 : deferred'[k] = deferred[k]
          /\ deferred'[n].call = call
  BY Pushed
<1>1. \A k \in 1 .. n - 1 : RankAt(k)' = RankAt(k)
  BY <1>0 DEF RankAt
<1>2. RankAt(n)' = Rank(call)
  BY <1>0 DEF RankAt
<1>3. \A k \in DOMAIN deferred' : RankAt(k)' <= Rank(call)
  BY <1>0, <1>1, <1>2, RankType
<1>4. ASSUME NEW j \in DOMAIN deferred', NEW k \in DOMAIN deferred', j <= k
      PROVE  RankAt(j)' <= RankAt(k)'
  <2>1. CASE k = n
    BY <1>2, <1>3, <2>1
  <2>2. CASE k # n
    <3>1. j \in DOMAIN deferred /\ k \in DOMAIN deferred
      BY <1>0, <1>4, <2>2
    <3> QED
      BY <1>0, <1>1, <1>4, <3>1 DEF Ordered
  <2> QED
    BY <2>1, <2>2
<1> QED
  BY <1>3, <1>4

\* The start has the OTel logger at most.
LEMMA StackInit == ASSUME Init PROVE StackInv
<1>1. TypeOK
  BY TypeInit
<1>2. deferred = <<>> \/ deferred = <<[call |-> "shutdownOTel", obj |-> 1]>>
  BY DEF Init
<1>3. \A k \in DOMAIN deferred : RankAt(k) = 0
  <2>1. CASE deferred = <<>>
    BY <2>1
  <2>2. CASE deferred = <<[call |-> "shutdownOTel", obj |-> 1]>>
    BY <2>2 DEF RankAt, Rank
  <2> QED
    BY <1>2, <2>1, <2>2
<1>4. pc = "connect" /\ i = 1 /\ active = {} /\ ~connected /\ ~started /\ handles = {}
          /\ opened = {} /\ registered = {} /\ (otel <=> output = "otel") /\ ~stopFailed
  BY Zenon DEF Init
<1>5. Ordered /\ StopOnce
  BY <1>3, <1>4 DEF Ordered, StopOnce
<1>6. Covered
  <2>1. otel => Call("shutdownOTel", 1) \in DeferredCalls
    <3>1. otel => deferred = <<[call |-> "shutdownOTel", obj |-> 1]>>
      BY Zenon DEF Init
    <3> QED
      BY <3>1 DEF DeferredCalls, Call
  <2>2. 1 \in openObjects
    BY DEF openObjects
  <2> QED
    BY <1>4, <2>1, <2>2 DEF Covered
<1>7. Progress /\ Nested
  BY <1>4 DEF Progress, Nested, SettingUp
<1> QED
  BY <1>1, <1>5, <1>6, <1>7 DEF StackInv

\* A deferred call is one.
LEMMA CallsListed ==
    {"shutdownOTel", "disc", "dltMh", "close", "dereg", "stopCB"} = Calls
BY DEF Calls

\* A set-up step that defers nothing more, and one that does: the order stays.
LEMMA OrderedStep == ASSUME StackInv, MainStep PROVE Ordered'
<1> USE DEF StackInv, TypeOK
<1>1. ASSUME NEW call \in Calls, deferred' = Deferred(call, i),
             \A k \in DOMAIN deferred : RankAt(k) <= Rank(call),
             pc' \in {"return", "wait", "handles", "open", "register", "start"},
             pc' = "handles" => Rank(call) <= 2, pc' = "open" => Rank(call) <= 3,
             pc' \in {"register", "start"} => Rank(call) <= 4
      PROVE  Ordered'
  <2>1. /\ \A j, k \in DOMAIN deferred' : j <= k => RankAt(j)' <= RankAt(k)'
        /\ \A k \in DOMAIN deferred' : RankAt(k)' <= Rank(call) /\ RankAt(k)' \in 0 .. 5
    BY <1>1, OrderedPushed, RankType DEF MainTyped, RankAt
  <2>2. Rank(call) \in 0 .. 5
    BY RankType
  <2> QED
    BY <1>1, <2>1, <2>2 DEF Ordered
<1>2. CASE Connect
  <2>1. CASE deferred' = Deferred("disc", i)
    <3>1. \A k \in DOMAIN deferred : RankAt(k) <= Rank("disc")
      BY <1>2 DEF Connect, Ordered, Rank
    <3>2. pc' \in {"return", "handles"} /\ Rank("disc") <= 2
      BY <1>2 DEF Connect, Fail, Rank
    <3> QED
      BY <1>1, <2>1, <3>1, <3>2, CallsListed
  <2>2. CASE deferred' = deferred /\ pc' = "return"
    BY <2>2 DEF Ordered, RankAt
  <2> QED
    BY <1>2, <2>1, <2>2 DEF Connect, Fail
<1>3. CASE CreateHandle
  <2>1. CASE deferred' = Deferred("dltMh", i)
    <3>1. \A k \in DOMAIN deferred : RankAt(k) <= Rank("dltMh")
      BY <1>3 DEF CreateHandle, Ordered, Rank
    <3>2. pc' \in {"return", "handles", "open"} /\ Rank("dltMh") = 2
      BY <1>3 DEF CreateHandle, Fail, Advance, Rank
    <3> QED
      BY <1>1, <2>1, <3>1, <3>2, CallsListed
  <2>2. CASE deferred' = deferred /\ pc' = "return"
    BY <2>2 DEF Ordered, RankAt
  <2> QED
    BY <1>3, <2>1, <2>2 DEF CreateHandle, Fail
<1>4. CASE OpenObject
  <2>1. CASE deferred' = Deferred("close", i)
    <3>1. \A k \in DOMAIN deferred : RankAt(k) <= Rank("close")
      BY <1>4 DEF OpenObject, Ordered, Rank
    <3>2. pc' \in {"return", "open", "register"} /\ Rank("close") = 3
      BY <1>4 DEF OpenObject, Fail, Advance, Rank
    <3> QED
      BY <1>1, <2>1, <3>1, <3>2, CallsListed
  <2>2. CASE deferred' = deferred /\ pc = "open" /\ pc' \in {"open", "register", "return"}
    <3>1. \A k \in DOMAIN deferred : RankAt(k)' = RankAt(k) /\ RankAt(k) \in 0 .. 5
      BY <2>2, RankType DEF RankAt
    <3> QED
      BY <2>2, <3>1 DEF Ordered
  <2> QED
    BY <1>4, <2>1, <2>2 DEF OpenObject, Fail, Advance
<1>5. CASE Register
  <2>1. CASE deferred' = Deferred("dereg", i)
    <3>1. \A k \in DOMAIN deferred : RankAt(k) <= Rank("dereg")
      BY <1>5 DEF Register, Ordered, Rank
    <3>2. pc' \in {"return", "register", "start"} /\ Rank("dereg") <= 4
      BY <1>5 DEF Register, Fail, Advance, Rank
    <3>3. "dereg" \in Calls
      BY CallsListed
    <3>4. pc' \notin {"handles", "open"}
      BY <3>2
    <3> QED
      BY <1>1, <2>1, <3>1, <3>2, <3>3, <3>4
  <2>2. CASE deferred' = deferred /\ pc = "register" /\ pc' \in {"register", "start", "return"}
    BY <2>2 DEF Ordered, RankAt
  <2> QED
    BY <1>5, <2>1, <2>2 DEF Register, Fail, Advance, DeregDeferred
<1>6. CASE Start
  <2>1. CASE deferred' = Deferred("stopCB", i)
    <3>1. \A k \in DOMAIN deferred : RankAt(k) <= Rank("stopCB")
      BY RankType DEF Rank, RankAt
    <3>2. pc' \in {"return", "wait"}
      BY <1>6 DEF Start, Fail
    <3>3. "stopCB" \in Calls
      BY CallsListed
    <3>4. pc' \notin {"handles", "open"} /\ pc' \notin {"register", "start"}
      BY <3>2
    <3> QED
      BY <1>1, <2>1, <3>1, <3>2, <3>3, <3>4
  <2>2. CASE deferred' = deferred /\ pc' = "return"
    BY <2>2 DEF Ordered, RankAt
  <2> QED
    BY <1>6, <2>1, <2>2 DEF Start, Fail, StopDeferred
<1>7. CASE Unwind
  <2>1. /\ \A k \in DOMAIN deferred' : k \in DOMAIN deferred /\ deferred'[k] = deferred[k]
        /\ pc' = "unwind"
    BY <1>7, Popped DEF Unwind
  <2>2. \A k \in DOMAIN deferred' : RankAt(k)' = RankAt(k)
    BY <2>1 DEF RankAt
  <2> QED
    BY <2>1, <2>2 DEF Ordered
<1>8. CASE SeeEnd \/ DecideClosure \/ CloseArray \/ Exit
  <2>1. deferred' = deferred /\ pc' \in {"return", "close", "unwind", "exited"}
            /\ (pc' = "exited" => deferred = <<>>)
    BY <1>8 DEF SeeEnd, DecideClosure, CloseArray, Exit
  <2> QED
    BY <2>1 DEF Ordered, RankAt
<1> QED
  BY <1>2, <1>3, <1>4, <1>5, <1>6, <1>7, <1>8 DEF MainStep

\* stopCB is the last call to be deferred, and the first to run.
LEMMA StopOnceStep == ASSUME StackInv, MainStep PROVE StopOnce'
<1> USE DEF StackInv, TypeOK
<1>0. \A k \in DOMAIN deferred : RankAt(k) \in 0 .. 5
  BY RankType DEF RankAt
<1>1. ASSUME NEW call \in Calls, deferred' = Deferred(call, i), SettingUp,
             \A k \in DOMAIN deferred : RankAt(k) <= 4, stopFailed' = stopFailed,
             Rank(call) = 5 => started'
      PROVE  StopOnce'
  <2>1. i \in openObjects
    BY DEF MainTyped
  <2>2. /\ Len(deferred) \in Nat /\ DOMAIN deferred = 1 .. Len(deferred)
        /\ DOMAIN deferred' = 1 .. Len(deferred) + 1
        /\ \A k \in 1 .. Len(deferred) : deferred'[k] = deferred[k]
        /\ deferred'[Len(deferred) + 1].call = call
    BY <1>1, <2>1, Pushed
  <2>3. Len(deferred') = Len(deferred) + 1
    <3> DEFINE S == [call : Calls, obj : openObjects]
    <3>1. deferred \in Seq(S) /\ deferred' = Append(deferred, [call |-> call, obj |-> i])
      BY <1>1 DEF MainTyped, Deferred
    <3> HIDE DEF S
    <3> QED
      BY <3>1
  <2>4. \A k \in 1 .. Len(deferred) : RankAt(k)' # 5
    BY <1>0, <1>1, <2>2 DEF RankAt
  <2>5. ~stopFailed
    BY <1>1 DEF StopOnce, SettingUp
  <2>6. \A k \in DOMAIN deferred' :
            RankAt(k)' = 5 => k = Len(deferred') /\ Rank(call) = 5
    BY <2>2, <2>3, <2>4 DEF RankAt
  <2>7. ~stopFailed'
    BY <1>1, <2>5
  <2> QED
    BY <1>1, <2>6, <2>7 DEF StopOnce
<1>2. ASSUME UNCHANGED <<deferred, stopFailed, started>>,
             pc \in {"unwind", "exited"} => pc' \in {"unwind", "exited"}
      PROVE  StopOnce'
  BY <1>2 DEF StopOnce, RankAt
<1>3. ASSUME SettingUp PROVE \A k \in DOMAIN deferred : RankAt(k) <= 4
  BY <1>0, <1>3 DEF Ordered, SettingUp
<1>4. CASE Connect \/ CreateHandle \/ OpenObject \/ Register \/ Start
  <2>1. SettingUp /\ stopFailed' = stopFailed
    BY <1>4 DEF Connect, CreateHandle, OpenObject, Register, Start, SettingUp, history
  <2>2. ASSUME NEW call \in Calls, deferred' = Deferred(call, i), Rank(call) = 5 => started'
        PROVE  StopOnce'
    BY <1>1, <1>3, <2>1, <2>2
  <2>3. CASE deferred' = deferred
    <3>1. ~stopFailed /\ \A k \in DOMAIN deferred : RankAt(k)' # 5
      BY <1>0, <1>3, <2>1, <2>3 DEF StopOnce, SettingUp, RankAt
    <3> QED
      BY <2>1, <2>3, <3>1 DEF StopOnce
  <2>4. /\ Rank("disc") # 5 /\ Rank("dltMh") # 5 /\ Rank("close") # 5 /\ Rank("dereg") # 5
        /\ {"disc", "dltMh", "close", "dereg", "stopCB"} \subseteq Calls
    BY DEF Rank, Calls
  <2>5. \/ deferred' = deferred
        \/ \E call \in {"disc", "dltMh", "close", "dereg"} : deferred' = Deferred(call, i)
        \/ deferred' = Deferred("stopCB", i) /\ started'
    BY <1>4 DEF Connect, CreateHandle, OpenObject, Register, Start, DeregDeferred, StopDeferred
  <2> QED
    BY <2>2, <2>3, <2>4, <2>5
<1>5. CASE SeeEnd \/ DecideClosure \/ CloseArray \/ Exit
  BY <1>2, <1>5 DEF SeeEnd, DecideClosure, CloseArray, Exit, resources, history
<1>6. CASE Unwind
  <2>1. /\ Len(deferred) \in Nat \ {0} /\ DOMAIN deferred = 1 .. Len(deferred)
        /\ DOMAIN deferred' = 1 .. Len(deferred) - 1
        /\ \A k \in 1 .. Len(deferred) - 1 : deferred'[k] = deferred[k]
    BY <1>6, Popped DEF Unwind
  <2>2. \A k \in DOMAIN deferred' : RankAt(k)' # 5
    BY <2>1 DEF StopOnce, RankAt
  <2>3. stopFailed' => started' /\ pc' \in {"unwind", "exited"}
    <3>1. pc' = "unwind"
      BY <1>6 DEF Unwind
    <3>2. CASE LastDeferred.call = "stopCB"
      <4>1. RankAt(Len(deferred)) = 5
        BY <3>2 DEF RankAt, Rank, LastDeferred
      <4>2. ~stopFailed /\ started
        BY <2>1, <4>1 DEF StopOnce
      <4> QED
        BY <1>6, <3>1, <3>2, <4>2 DEF Unwind, StopCallbacks
    <3>3. CASE LastDeferred.call # "stopCB"
      BY <1>6, <3>1, <3>3 DEF Unwind, StopOnce
    <3> QED
      BY <3>2, <3>3
  <2> QED
    BY <2>2, <2>3 DEF StopOnce
<1> QED
  BY <1>4, <1>5, <1>6 DEF MainStep

\* The last deferred call has the highest rank, so what is set up later is gone.
LEMMA LastIsHighest ==
    ASSUME StackInv, deferred # <<>>, ~stopFailed
    PROVE  /\ Rank(LastDeferred.call) < 5 => ~started
           /\ Rank(LastDeferred.call) < 4 => registered = {}
           /\ Rank(LastDeferred.call) < 3 => opened = {}
           /\ Rank(LastDeferred.call) < 2 => handles = {}
           /\ Rank(LastDeferred.call) < 1 => ~connected
<1>1. ASSUME NEW call, NEW o, Call(call, o) \in DeferredCalls
      PROVE  Rank(call) <= Rank(LastDeferred.call)
  <2>1. PICK k \in DOMAIN deferred : deferred[k].call = call
    BY <1>1 DEF DeferredCalls, Call
  <2> DEFINE S == [call : Calls, obj : openObjects]
  <2>2. deferred \in Seq(S)
    BY DEF StackInv, TypeOK, MainTyped
  <2> HIDE DEF S
  <2>3. Len(deferred) \in DOMAIN deferred /\ k <= Len(deferred)
    BY <2>2
  <2>4. RankAt(k) <= RankAt(Len(deferred))
    BY <2>3 DEF StackInv, Ordered
  <2> QED
    BY <2>1, <2>4 DEF RankAt, LastDeferred
<1>2. Rank(LastDeferred.call) \in 0 .. 5
  BY RankType
<1>3. /\ Rank("stopCB") = 5 /\ Rank("dereg") = 4 /\ Rank("close") = 3
      /\ Rank("dltMh") = 2 /\ Rank("disc") = 1
  BY DEF Rank
<1> QED
  BY <1>1, <1>2, <1>3 DEF StackInv, Covered

\* What is set up gets a deferred call, and keeps it until it is undone.
LEMMA CoveredStep == ASSUME StackInv, MainStep PROVE Covered'
<1> USE DEF StackInv, TypeOK
<1>0. i \in openObjects
  BY DEF MainTyped
<1>1. ASSUME NEW call \in Calls, deferred' = Deferred(call, i)
      PROVE  DeferredCalls' = DeferredCalls \union {Call(call, i)}
  BY <1>0, <1>1, CallsPushed
<1>2. CASE Connect
  <2>1. UNCHANGED <<otel, handles, opened, registered, started, stopFailed>>
    BY <1>2 DEF Connect, history
  <2>2. CASE deferred' = Deferred("disc", i)
    BY <1>0, <1>1, <2>1, <2>2, CallsListed DEF Covered
  <2>3. CASE UNCHANGED <<connected, deferred>>
    BY <2>1, <2>3 DEF Covered, DeferredCalls
  <2> QED
    BY <1>2, <2>2, <2>3 DEF Connect
<1>3. CASE CreateHandle
  <2>1. UNCHANGED <<otel, connected, opened, registered, started, stopFailed>>
    BY <1>3 DEF CreateHandle, history
  <2>2. CASE handles' = handles \union {i} /\ deferred' = Deferred("dltMh", i)
    BY <1>0, <1>1, <2>1, <2>2, CallsListed DEF Covered
  <2>3. CASE UNCHANGED <<handles, deferred>>
    BY <2>1, <2>3 DEF Covered, DeferredCalls
  <2> QED
    BY <1>3, <2>2, <2>3 DEF CreateHandle
<1>4. CASE OpenObject
  <2>1. UNCHANGED <<otel, connected, handles, registered, started, stopFailed>>
    BY <1>4 DEF OpenObject, history
  <2>2. CASE opened' = opened \union {i} /\ deferred' = Deferred("close", i)
    BY <1>0, <1>1, <2>1, <2>2, CallsListed DEF Covered
  <2>3. CASE UNCHANGED <<opened, deferred>>
    BY <2>1, <2>3 DEF Covered, DeferredCalls
  <2> QED
    BY <1>4, <2>2, <2>3 DEF OpenObject
<1>5. CASE Register
  <2>1. UNCHANGED <<otel, connected, handles, opened, started, stopFailed>>
    BY <1>5 DEF Register, history
  <2>2. CASE registered' = registered \union {i} /\ deferred' = Deferred("dereg", i)
    BY <1>0, <1>1, <2>1, <2>2, CallsListed DEF Covered
  <2>3. CASE UNCHANGED <<registered, deferred>>
    BY <2>1, <2>3 DEF Covered, DeferredCalls
  <2> QED
    BY <1>5, <2>2, <2>3 DEF Register, DeregDeferred
<1>6. CASE Start
  <2>1. UNCHANGED <<otel, connected, handles, opened, registered, stopFailed>>
    BY <1>6 DEF Start, history
  <2>2. CASE deferred' = Deferred("stopCB", i)
    BY <1>0, <1>1, <2>1, <2>2, CallsListed DEF Covered
  <2>3. CASE UNCHANGED <<started, deferred>>
    BY <2>1, <2>3 DEF Covered, DeferredCalls
  <2> QED
    BY <1>6, <2>2, <2>3 DEF Start, StopDeferred
<1>7. CASE Unwind
  <2>1. DeferredCalls \subseteq DeferredCalls' \union {LastDeferred}
    BY <1>7, CallsPopped DEF Unwind
  <2>2. ASSUME NEW call, NEW o, Call(call, o) \in DeferredCalls,
               call # LastDeferred.call \/ o # LastDeferred.obj
        PROVE  Call(call, o) \in DeferredCalls'
    BY <2>1, <2>2 DEF Call
  <2>5. otel' => otel /\ LastDeferred.call # "shutdownOTel"
    BY <1>7 DEF Unwind, ShutdownOTel
  <2>6. CASE stopFailed'
    BY <2>2, <2>5, <2>6 DEF Covered
  <2>7. CASE ~stopFailed'
    <3>1. ~stopFailed
      BY <1>7, <2>7 DEF Unwind, StopCallbacks
    <3>2. LastDeferred.call # "stopCB" => ~started
      <4>1. deferred # <<>>
        BY <1>7 DEF Unwind
      <4>2. LastDeferred \in [call : Calls, obj : openObjects]
        BY <4>1, DeferredTyped
      <4>3. LastDeferred.call # "stopCB" => Rank(LastDeferred.call) < 5
        BY <4>2 DEF Rank, Calls
      <4> QED
        BY <3>1, <4>1, <4>3, LastIsHighest
    <3>3. /\ started' => started /\ LastDeferred.call # "stopCB"
          /\ connected' => connected /\ LastDeferred.call # "disc"
      BY <1>7, <2>7, <3>1, <3>2 DEF Unwind, StopCallbacks
    <3>4. /\ \A o \in registered' :
                 o \in registered /\ (LastDeferred.call # "dereg" \/ o # LastDeferred.obj)
          /\ \A o \in opened' :
                 o \in opened /\ (LastDeferred.call # "close" \/ o # LastDeferred.obj)
          /\ \A o \in handles' :
                 o \in handles /\ (LastDeferred.call # "dltMh" \/ o # LastDeferred.obj)
      BY <1>7, <3>2 DEF Unwind
    <3> QED
      BY <2>2, <2>5, <3>1, <3>3, <3>4 DEF Covered
  <2> QED
    BY <2>6, <2>7
<1>8. CASE SeeEnd \/ DecideClosure \/ CloseArray \/ Exit
  BY <1>8 DEF SeeEnd, DecideClosure, CloseArray, Exit, resources, history, Covered,
     DeferredCalls
<1> QED
  BY <1>2, <1>3, <1>4, <1>5, <1>6, <1>7, <1>8 DEF MainStep

\* The set-up goes on in its order, and is undone in the opposite one.
LEMMA ProgressStep == ASSUME StackInv, MainStep PROVE Progress' /\ Nested'
<1> USE DEF StackInv, TypeOK
<1>0. i \in openObjects /\ i \in Nat /\ \A o \in openObjects : o \in Nat
          /\ (More <=> i < NumObjects)
  BY DEF MainTyped, openObjects, More
<1>1. handles \subseteq openObjects /\ opened \subseteq openObjects
  BY DEF ObjectsTyped
<1> USE DEF Progress, Nested, SettingUp, Fail
<1>2. CASE Connect
  <2>1. /\ UNCHANGED <<output, active, handles, opened, registered, started, otel>>
        /\ pc = "connect"
        /\ pc' = "return" \/ (pc' = "handles" /\ connected' /\ i' = i)
    BY <1>2 DEF Connect, shared, options
  <2>2. pc' = "handles" => \A o \in openObjects : ~(o < i')
    BY <1>0, <2>1 DEF openObjects
  <2>3. Progress'
    BY <2>1, <2>2
  <2>4. Nested'
    BY <2>1
  <2> QED
    BY <2>3, <2>4
<1>3. CASE CreateHandle
  <2>1. CASE pc' = "return"
    BY <1>3, <2>1 DEF CreateHandle
  <2>2. CASE handles' = handles \union {i} /\ More /\ i' = i + 1 /\ pc' = pc
    BY <1>0, <1>3, <2>2 DEF CreateHandle, options, shared
  <2>3. CASE handles' = handles \union {i} /\ ~More /\ i' = 1 /\ pc' = "open"
    <3>1. pc = "handles" /\ i = NumObjects
      BY <1>0, <1>3, <2>3 DEF CreateHandle, openObjects
    <3>2. \A o \in openObjects : o < i \/ o = i
      BY <1>0, <3>1 DEF openObjects
    <3>3. openObjects \subseteq handles'
      BY <2>3, <3>1, <3>2
    <3>4. handles' = openObjects
      BY <1>0, <1>1, <2>3, <3>3
    <3> QED
      BY <1>3, <2>3, <3>4 DEF CreateHandle, options, shared
  <2> QED
    BY <1>3, <2>1, <2>2, <2>3 DEF CreateHandle, Advance
<1>4. CASE OpenObject
  <2>1. /\ UNCHANGED <<output, connected, handles, registered, started, otel>>
        /\ pc = "open"
        /\ \/ UNCHANGED <<opened, active>>
           \/ opened' = opened \union {i} /\ active' = active \union {i}
        /\ \/ pc' = "return" /\ UNCHANGED <<opened, active>>
           \/ pc' = "open"
           \/ pc' = "register" /\ i' = 1
    BY <1>4 DEF OpenObject, Advance, options
  <2>2. \A o \in openObjects : ~(o < 1)
    BY DEF openObjects
  <2> QED
    BY <1>0, <1>1, <2>1, <2>2
<1>5. CASE Register
  <2>1. /\ UNCHANGED <<output, connected, handles, opened, active, started, otel>>
        /\ pc = "register" /\ registered \subseteq registered'
        /\ registered' \subseteq registered \union ({i} \intersect active)
    BY <1>5 DEF Register, shared, options
  <2>2. CASE pc' = "return"
    BY <2>1, <2>2
  <2>3. CASE pc' # "return"
    <3>1. i \in opened => i \in registered'
      BY <1>5, <2>1, <2>3 DEF Register
    <3>2. \A o \in opened : o <= i => o \in registered'
      BY <1>0, <1>1, <2>1, <3>1
    <3>3. CASE pc' = pc /\ i' = i + 1
      BY <1>0, <1>1, <2>1, <3>2, <3>3
    <3>4. CASE ~More /\ pc' = "start"
      <4>1. opened \subseteq registered'
        BY <1>0, <1>1, <3>2, <3>4 DEF openObjects
      <4> QED
        BY <2>1, <3>4, <4>1
    <3> QED
      BY <1>5, <2>3, <3>3, <3>4 DEF Register, Advance
  <2> QED
    BY <2>2, <2>3
<1>6. CASE Start
  BY <1>6 DEF Start, options, shared
<1>7. CASE Unwind
  <2>1. /\ Rank("stopCB") = 5 /\ Rank("dereg") = 4 /\ Rank("close") = 3
        /\ Rank("dltMh") = 2 /\ Rank("disc") = 1 /\ Rank("shutdownOTel") = 0
    BY DEF Rank
  <2>0. pc = "unwind" /\ deferred # <<>> /\ pc' = "unwind" /\ output' = output
    BY <1>7 DEF Unwind, options
  <2>7. CASE started' /\ stopFailed'
    <3>1. started
      BY <1>7, <2>7 DEF Unwind, StopCallbacks
    <3>2. UNCHANGED <<registered, opened, handles>> /\ (connected' <=> connected)
      BY <1>7, <3>1 DEF Unwind
    <3> QED
      BY <2>0, <2>7, <3>1, <3>2
  <2> SUFFICES ASSUME ~(started' /\ stopFailed') PROVE Progress' /\ Nested'
    BY <2>7
  <2>8. ~stopFailed
    <3>1. CASE LastDeferred.call = "stopCB"
      <4>1. Len(deferred) \in DOMAIN deferred
        BY <1>7, Popped DEF Unwind
      <4>2. RankAt(Len(deferred)) = 5
        BY <2>1, <3>1 DEF RankAt, LastDeferred
      <4> QED
        BY <4>1, <4>2 DEF StopOnce
    <3>2. CASE LastDeferred.call # "stopCB"
      BY <1>7, <3>2 DEF Unwind, StopOnce
    <3> QED
      BY <3>1, <3>2
  <2>2. /\ pc' = "unwind" /\ output' = output
        /\ started' => started
        /\ registered' \subseteq registered
        /\ LastDeferred.call # "shutdownOTel" => (otel' <=> otel)
        /\ LastDeferred.call # "disc" => (connected' <=> connected)
        /\ LastDeferred.call # "dltMh" => handles' = handles
        /\ LastDeferred.call # "close" => opened' = opened
        /\ LastDeferred.call # "dereg" => registered' = registered
        /\ handles' \subseteq handles /\ opened' \subseteq opened
    BY <1>7, <2>0 DEF Unwind, StopCallbacks, ShutdownOTel
  <2>3. pc = "unwind" /\ deferred # <<>>
    BY <1>7 DEF Unwind
  <2>4. /\ LastDeferred.call = "shutdownOTel" => ~started
        /\ LastDeferred.call = "disc" => handles = {} /\ ~started
        /\ LastDeferred.call = "dltMh" => opened = {} /\ ~started
        /\ LastDeferred.call = "close" => registered = {} /\ ~started
        /\ LastDeferred.call = "dereg" => ~started
    BY <2>1, <2>3, <2>8, LastIsHighest
  <2>5. Progress'
    BY <2>2, <2>3, <2>4, <2>8
  <2>6. Nested'
    BY <2>2, <2>4
  <2> QED
    BY <2>5, <2>6
<1>8. CASE SeeEnd \/ DecideClosure \/ CloseArray \/ Exit
  BY <1>8 DEF SeeEnd, DecideClosure, CloseArray, Exit, resources, options, shared, history
<1> QED
  BY <1>2, <1>3, <1>4, <1>5, <1>6, <1>7, <1>8 DEF MainStep

\* Steps of others change the activity of objects only while callbacks run.
LEMMA OthersStep ==
    ASSUME StackInv, [Next]_vars, ~MainStep
    PROVE  Ordered' /\ StopOnce' /\ Covered' /\ Progress' /\ Nested'
<1>1. UNCHANGED <<options, pc, i, deferred, resources, stopFailed>>
  <2>1. ASSUME NEW o \in openObjects, Invocation(o) \/ MessageArrives(o)
        PROVE  UNCHANGED stopFailed
    BY <2>1 DEF Invocation, MessageRemoved, NoMessage, TroubleReported, MessageArrives,
       Program, history
  <2>2. UNCHANGED stopFailed
    BY <2>1 DEF Next, CallbackStep, FormatEvent, SetFirstEvent, PrintEvent, BatchLeaves,
       ConnectionBreaks, TroubleBegins, PressEnter, Program, Exited, history, vars
  <2> QED
    BY <2>2, OutsideMain DEF vars
<1>2. active' = active \/ started
  BY DEF Next, CallbackStep, FormatEvent, SetFirstEvent, PrintEvent, Invocation, MessageRemoved,
     NoMessage, TroubleReported, CanCall, MessageArrives, BatchLeaves, ConnectionBreaks,
     TroubleBegins, PressEnter, Program, shared, Exited, vars
<1>3. Ordered' /\ StopOnce' /\ Covered'
  BY <1>1 DEF StackInv, Ordered, StopOnce, Covered, DeferredCalls, RankAt, resources
<1>4. Progress' /\ Nested'
  BY <1>1, <1>2 DEF StackInv, Progress, Nested, SettingUp, resources, options
<1> QED
  BY <1>3, <1>4

\* A step keeps the deferred calls in order and complete.
LEMMA StackStep == ASSUME StackInv, [Next]_vars PROVE StackInv'
<1>1. TypeOK'
  BY TypeStep DEF StackInv
<1>2. CASE MainStep
  BY <1>1, <1>2, OrderedStep, StopOnceStep, CoveredStep, ProgressStep DEF StackInv
<1>3. CASE ~MainStep
  BY <1>1, <1>3, OthersStep DEF StackInv
<1> QED
  BY <1>2, <1>3

\* Nothing is given back while something that needs it is there, and everything
\* is at the end if the callbacks could be stopped, whatever step of the set-up
\* failed and however many objects there are: every resource has a deferred call,
\* and they are in the order of the set-up.
THEOREM CleanupInOrderTheorem == Spec => []CleanupInOrder
<1>1. Init => StackInv
  BY StackInit
<1>2. StackInv /\ [Next]_vars => StackInv'
  BY StackStep
<1>3. StackInv => CleanupInOrder
  <2> SUFFICES ASSUME StackInv PROVE CleanupInOrder
    OBVIOUS
  <2>1. pc = "exited" => ~otel /\ (stopFailed \/ (~connected /\ ~started))
    <3>1. deferred = <<>> => DeferredCalls = {}
      BY DEF DeferredCalls
    <3> QED
      BY <3>1 DEF StackInv, Ordered, Covered
  <2> QED
    BY <2>1 DEF StackInv, Nested, CleanupInOrder
<1> QED
  BY <1>1, <1>2, <1>3, PTL DEF Spec

-----------------------------------------------------------------------------
(* Events that were taken from their queues                                *)

\* Unless the callbacks could not be stopped, an event is reported, with the OTel
\* SDK or dropped by it, or with the callback, which runs only between the start
\* and the stop of callbacks.
InHand == IF step = "idle" THEN 0 ELSE 1
Balance ==
    /\ ~stopFailed => taken = reported + logged + dropped + InHand
    /\ step # "idle" => started
    /\ logged # 0 => otel
    /\ otel => output = "otel"
    /\ output # "otel" => dropped = 0
BalanceInv == StackInv /\ Balance

\* A step neither loses nor invents an event.
LEMMA BalanceStep == ASSUME BalanceInv, [Next]_vars PROVE Balance'
<1> USE DEF BalanceInv, Balance
<1>0. /\ taken \in Nat /\ reported \in Nat /\ logged \in Nat /\ dropped \in Nat
      /\ InHand \in {0, 1}
  BY DEF StackInv, TypeOK, MessagesTyped, OutputTyped, InHand
<1>1. CASE /\ UNCHANGED <<output, taken, reported, logged, dropped, step, otel, stopFailed>>
           /\ started => started'
  <2>1. InHand' = InHand
    BY <1>1 DEF InHand
  <2> QED
    BY <1>1, <2>1
<1>2. CASE Unwind
  <2>1. UNCHANGED <<output, taken, step>> /\ InHand' = InHand
    BY <1>2 DEF Unwind, InHand, options
  <2>2. (started' \/ step = "idle") /\ (stopFailed => stopFailed')
    BY <1>2 DEF Unwind, StopCallbacks
  <2>3. CASE LastDeferred.call = "shutdownOTel"
    <3>1. ~otel' /\ logged' = 0
      BY <1>2, <2>3 DEF Unwind, ShutdownOTel
    <3>2. PICK n \in 0 .. logged : reported' = reported + n /\ dropped' = dropped + (logged - n)
      BY <1>2, <2>3 DEF Unwind, ShutdownOTel
    <3>3. output # "otel" => logged = 0
      OBVIOUS
    <3> QED
      BY <1>0, <2>1, <2>2, <3>1, <3>2, <3>3
  <2>4. CASE LastDeferred.call # "shutdownOTel"
    <3>1. UNCHANGED <<reported, logged, dropped, otel>>
      BY <1>2, <2>4 DEF Unwind
    <3> QED
      BY <1>0, <2>1, <2>2, <3>1
  <2> QED
    BY <2>3, <2>4
<1>3. CASE FormatEvent
  <2>1. /\ UNCHANGED <<output, taken, reported, dropped, started, otel, stopFailed>>
        /\ step = "format" /\ step' # "format"
    BY <1>3 DEF FormatEvent, Main, options, resources, history
  <2>2. CASE output = "otel"
    <3>1. step' = "idle" /\ logged' = IF otel THEN logged + 1 ELSE logged
      BY <1>3, <2>2 DEF FormatEvent
    <3>2. ~stopFailed => otel
      BY <2>1, <2>2 DEF StackInv, Progress
    <3> QED
      BY <1>0, <2>1, <3>1, <3>2 DEF InHand
  <2>3. CASE output # "otel"
    <3>1. step' # "idle" /\ logged' = logged
      BY <1>3, <2>3 DEF FormatEvent
    <3> QED
      BY <2>1, <3>1 DEF InHand
  <2> QED
    BY <2>2, <2>3
<1>4. CASE SetFirstEvent
  <2>1. /\ UNCHANGED <<output, taken, reported, logged, dropped, started, otel, stopFailed>>
        /\ step = "flag" /\ step' = "print"
    BY <1>4 DEF SetFirstEvent, Main, options, resources, history, printed
  <2> QED
    BY <2>1 DEF InHand
<1>5. CASE PrintEvent
  <2>1. /\ UNCHANGED <<output, taken, logged, dropped, started, otel, stopFailed>>
        /\ step = "print" /\ step' = "idle" /\ reported' = reported + 1
    BY <1>5 DEF PrintEvent, Main, options, resources
  <2> QED
    BY <1>0, <2>1 DEF InHand
<1>6. ASSUME NEW o \in openObjects, MessageRemoved(o) PROVE Balance'
  <2>1. /\ UNCHANGED <<output, reported, logged, dropped, started, otel, stopFailed>>
        /\ step = "idle" /\ started
    BY <1>6 DEF MessageRemoved, CanCall, Main, options, resources, printed
  <2>2. \/ step' = "format" /\ taken' = taken + 1
        \/ UNCHANGED <<step, taken>>
    BY <1>6 DEF MessageRemoved
  <2> QED
    BY <1>0, <2>1, <2>2 DEF InHand
<1>7. CASE BatchLeaves
  <2>1. UNCHANGED <<output, taken, step, started, otel, stopFailed>> /\ otel /\ InHand' = InHand
    BY <1>7 DEF BatchLeaves, Main, options, resources, InHand
  <2>2. PICK n \in 1 .. logged :
            /\ logged' = logged - n
            /\ \/ reported' = reported + n /\ dropped' = dropped
               \/ dropped' = dropped + n /\ reported' = reported
    BY <1>7 DEF BatchLeaves
  <2> QED
    BY <1>0, <2>1, <2>2
<1>8. ASSUME NEW o \in openObjects,
             NoMessage(o) \/ TroubleReported(o) \/ MessageArrives(o)
      PROVE  UNCHANGED <<output, taken, reported, logged, dropped, step, started, otel,
                         stopFailed>>
  BY <1>8 DEF NoMessage, TroubleReported, MessageArrives, Main, Program, options, resources,
     printed, history
<1>9. ASSUME ConnectionBreaks \/ TroubleBegins \/ PressEnter \/ UNCHANGED vars
      PROVE  UNCHANGED <<output, taken, reported, logged, dropped, step, started, otel,
                         stopFailed>>
  BY <1>9 DEF ConnectionBreaks, TroubleBegins, PressEnter, Program, vars, options, resources,
     printed, history
<1>10. ASSUME MainStep, ~Unwind
       PROVE  /\ UNCHANGED <<output, taken, reported, logged, dropped, step, otel, stopFailed>>
              /\ started => started'
  BY <1>10 DEF MainStep, Connect, CreateHandle, OpenObject, Register, Start, SeeEnd,
     DecideClosure, CloseArray, Exit, options, resources, printed, history
<1> QED
  BY <1>1, <1>2, <1>3, <1>4, <1>5, <1>6, <1>7, <1>8, <1>9, <1>10
     DEF Next, CallbackStep, Invocation, Exited

\* Whatever the interleaving of main() and the callback: if the callbacks could be
\* stopped, every event that was removed from its queue was printed, or handed to
\* the OTel SDK before its last flush, because main() waits for the callback that
\* runs before it shuts the SDK down; only the SDK drops events, and of printed
\* output none is lost.
THEOREM NothingLostTheorem == Spec => []NothingLost
<1>1. Init => BalanceInv
  <2> SUFFICES ASSUME Init PROVE BalanceInv
    OBVIOUS
  <2>1. /\ taken = 0 /\ reported = 0 /\ logged = 0 /\ dropped = 0 /\ step = "idle"
        /\ otel => output = "otel"
    BY Zenon DEF Init
  <2>2. InHand = 0
    BY <2>1 DEF InHand
  <2>3. Balance
    BY <2>1, <2>2 DEF Balance
  <2> QED
    BY <2>3, StackInit DEF BalanceInv
<1>2. BalanceInv /\ [Next]_vars => BalanceInv'
  BY StackStep, BalanceStep DEF BalanceInv
<1>3. BalanceInv => NothingLost
  <2> SUFFICES ASSUME BalanceInv, pc = "exited", ~stopFailed
               PROVE  reported = taken \/ (output = "otel" /\ reported + dropped = taken)
    BY DEF NothingLost
  <2>1. DeferredCalls = {}
    BY DEF BalanceInv, StackInv, Ordered, DeferredCalls
  <2>2. ~started /\ ~otel
    BY <2>1 DEF BalanceInv, StackInv, Covered
  <2>3. logged = 0 /\ InHand = 0
    BY <2>2 DEF BalanceInv, Balance, InHand
  <2> QED
    BY <2>3 DEF BalanceInv, Balance, StackInv, TypeOK, MessagesTyped
<1> QED
  BY <1>1, <1>2, <1>3, PTL DEF Spec

-----------------------------------------------------------------------------
(* The end of the program                                                  *)

\* An object is inactive only after a wait interval without messages.
InactiveIsIdle == registered \ active \subseteq idle

\* A step keeps it so.
LEMMA IdleStep == ASSUME InactiveIsIdle, [Next]_vars PROVE InactiveIsIdle'
<1> USE DEF InactiveIsIdle
<1>1. CASE UNCHANGED <<registered, active, idle>>
  BY <1>1
<1>2. CASE MainStep
  BY <1>2 DEF MainStep, Connect, CreateHandle, OpenObject, Register, Start, SeeEnd,
     DecideClosure, CloseArray, Unwind, Exit, resources, shared, history
<1>3. ASSUME NEW o \in openObjects, MessageRemoved(o) PROVE InactiveIsIdle'
  BY <1>3 DEF MessageRemoved, Reactivated, Main, resources
<1>4. ASSUME NEW o \in openObjects, NoMessage(o) PROVE InactiveIsIdle'
  BY <1>4 DEF NoMessage, Main, resources
<1>5. ASSUME NEW o \in openObjects, TroubleReported(o) \/ MessageArrives(o)
      PROVE  UNCHANGED <<registered, active, idle>>
  BY <1>5 DEF TroubleReported, MessageArrives, Main, Program, resources, shared, history
<1>6. ASSUME \/ CallbackStep \/ BatchLeaves \/ ConnectionBreaks \/ TroubleBegins
             \/ PressEnter \/ UNCHANGED vars
      PROVE  UNCHANGED <<registered, active, idle>>
  BY <1>6 DEF CallbackStep, FormatEvent, SetFirstEvent, PrintEvent, BatchLeaves,
     ConnectionBreaks, TroubleBegins, PressEnter, Main, Program, vars, resources, shared,
     history
<1> QED
  BY <1>1, <1>2, <1>3, <1>4, <1>5, <1>6 DEF Next, Invocation, Exited

\* "Only exit when all the queues have become inactive": without trouble, and
\* without ENTER, the callback ends the program only when no object it reads
\* from has had a message since its last wait interval, for any number of
\* objects.
THEOREM EndsWhenIdleTheorem == Spec => EndsWhenIdle
<1>1. Init => InactiveIsIdle
  BY Zenon DEF Init, InactiveIsIdle
<1>2. InactiveIsIdle /\ [Next]_vars => InactiveIsIdle'
  BY IdleStep
<1>3. InactiveIsIdle /\ [Next]_vars =>
          [~endProgram /\ endProgram' /\ ~troubled /\ entered' = entered
              => registered \subseteq idle']_vars
  <2> SUFFICES ASSUME InactiveIsIdle, Next, ~endProgram, endProgram', ~troubled,
                      entered' = entered
               PROVE  registered \subseteq idle'
    OBVIOUS
  <2>1. ASSUME MainStep \/ CallbackStep \/ BatchLeaves \/ ConnectionBreaks \/ TroubleBegins
                 \/ PressEnter \/ Exited
          PROVE  FALSE
    BY <2>1 DEF MainStep, Connect, CreateHandle, OpenObject, Register, Start, SeeEnd,
       DecideClosure, CloseArray, Unwind, Exit, CallbackStep, FormatEvent, SetFirstEvent,
       PrintEvent, BatchLeaves, ConnectionBreaks, TroubleBegins, PressEnter, Program, Exited,
       vars, shared
  <2>2. ASSUME NEW o \in openObjects, MessageRemoved(o) \/ TroubleReported(o) \/ MessageArrives(o)
        PROVE  FALSE
    BY <2>2 DEF MessageRemoved, TroubleReported, CanCall, MessageArrives, Program, shared
  <2>3. ASSUME NEW o \in openObjects, NoMessage(o) PROVE registered \subseteq idle'
    BY <2>3 DEF NoMessage, SomeActive, InactiveIsIdle
  <2> QED
    BY <2>1, <2>2, <2>3 DEF Next, Invocation
<1> QED
  BY <1>1, <1>2, <1>3, PTL DEF Spec, EndsWhenIdle

-----------------------------------------------------------------------------
(* The array                                                               *)

\* What firstEvent, separator and the place of the callback tell of the output
EventsOut == EventAmong(out, Len(out))
FlagsTell ==
    /\ firstEvent /\ step # "flag" => out = <<>>
    /\ firstEvent => separator = "" /\ step # "print"
    /\ step = "flag" => firstEvent /\ out = <<"[">>
    /\ ~firstEvent => out # <<>>
    /\ separator = "," => EventsOut
    /\ step = "print" => (EventsOut <=> separator = ",")
    /\ step # "print" /\ ~firstEvent => EventsOut
NotClosed ==
    /\ pc = "close" => ~firstEvent
    /\ pc \notin {"unwind", "exited"} => \A k \in DOMAIN out : out[k] # "]"
ArrayInv == TypeOK /\ (output = "array" => FlagsTell /\ NotClosed) /\ ArrayInOrder

\* Output with one token more: it has the events it had, and that one, and it is
\* in order if that one is.
LEMMA Extended ==
    ASSUME NEW n \in Nat, n > 0, NEW s, NEW t, NEW token,
           DOMAIN s = 1 .. n, DOMAIN t = 1 .. n + 1,
           \A k \in 1 .. n : t[k] = s[k], t[n + 1] = token
    PROVE  /\ EventAmong(t, n + 1) <=> EventAmong(s, n) \/ token \in Events
           /\ token # "]" /\ (\A k \in DOMAIN s : s[k] # "]") => \A k \in DOMAIN t : t[k] # "]"
           /\ /\ InOrder(s) /\ token # "["
              /\ token \in Events => (token = ",event" <=> EventAmong(s, n))
              => InOrder(t)
<1>1. \A k \in 1 .. n + 1 : k \in 1 .. n \/ k = n + 1
  OBVIOUS
<1>2. \A k \in 0 .. n : EventAmong(t, k) <=> EventAmong(s, k)
  BY DEF EventAmong
<1>3. EventAmong(t, n + 1) <=> EventAmong(s, n) \/ token \in Events
  BY <1>1, Z3 DEF EventAmong
<1>4. (\A k \in DOMAIN s : s[k] # "]") /\ token # "]" => \A k \in DOMAIN t : t[k] # "]"
  BY <1>1
<1>5. ASSUME InOrder(s), token # "[",
             token \in Events => (token = ",event" <=> EventAmong(s, n)),
             NEW k \in DOMAIN t
      PROVE  /\ t[k] = "[" <=> k = 1
             /\ t[k] \in Events => (t[k] = ",event" <=> EventAmong(t, k - 1))
  <2>1. CASE k = n + 1
    <3>1. t[k] = token /\ k # 1 /\ k - 1 = n
      BY <2>1
    <3>2. EventAmong(t, k - 1) <=> EventAmong(s, n)
      BY <1>2, <3>1
    <3> QED
      BY <1>5, <3>1, <3>2
  <2>2. CASE k \in 1 .. n
    <3>1. EventAmong(t, k - 1) <=> EventAmong(s, k - 1)
      BY <1>2, <2>2
    <3>2. t[k] = s[k] /\ k \in DOMAIN s
      BY <2>2
    <3> QED
      BY <1>5, <3>1, <3>2 DEF InOrder
  <2> QED
    BY <1>1, <2>1, <2>2
<1> QED
  BY <1>3, <1>4, <1>5 DEF InOrder

\* An array that has just been opened
LEMMA OpenedOnly ==
    /\ InOrder(<<"[">>) /\ ~EventAmong(<<"[">>, Len(<<"[">>))
    /\ \A k \in DOMAIN <<"[">> : <<"[">>[k] # "]"
<1>1. DOMAIN <<"[">> = {1} /\ Len(<<"[">>) = 1 /\ <<"[">>[1] = "["
  OBVIOUS
<1>2. "[" \notin Events /\ "[" # "]"
  BY DEF Events
<1>3. InOrder(<<"[">>)
  BY <1>1, <1>2 DEF InOrder
<1>4. ~EventAmong(<<"[">>, 1)
  BY <1>1, <1>2 DEF EventAmong
<1>5. \A k \in DOMAIN <<"[">> : <<"[">>[k] # "]"
  BY <1>1, <1>2
<1> QED
  BY <1>1, <1>3, <1>4, <1>5

\* What appending a token to the output does.
LEMMA OutAppended ==
    ASSUME OutputTyped, NEW token \in Tokens, out' = Append(out, token), out # <<>>
    PROVE  /\ out' # <<>>
           /\ EventsOut' <=> EventsOut \/ token \in Events
           /\ token # "]" /\ (\A k \in DOMAIN out : out[k] # "]")
                  => \A k \in DOMAIN out' : out'[k] # "]"
           /\ /\ InOrder(out) /\ token # "["
              /\ token \in Events => (token = ",event" <=> EventsOut)
              => InOrder(out')
<1>1. out \in Seq(Tokens)
  BY DEF OutputTyped
<1>2. PICK n \in Nat : /\ n > 0 /\ Len(out) = n /\ DOMAIN out = 1 .. n
                       /\ Len(out') = n + 1 /\ DOMAIN out' = 1 .. n + 1
                       /\ \A k \in 1 .. n : out'[k] = out[k]
                       /\ out'[n + 1] = token
  BY <1>1
<1>3. (EventsOut <=> EventAmong(out, n)) /\ (EventsOut' <=> EventAmong(out', n + 1))
  BY <1>2 DEF EventsOut
<1>4. out' # <<>>
  BY <1>2
<1>5. EventAmong(out', n + 1) <=> EventAmong(out, n) \/ token \in Events
  BY <1>2, Extended
<1>6. token # "]" /\ (\A k \in DOMAIN out : out[k] # "]")
          => \A k \in DOMAIN out' : out'[k] # "]"
  <2> SUFFICES ASSUME token # "]", \A k \in DOMAIN out : out[k] # "]", NEW k \in DOMAIN out'
               PROVE  out'[k] # "]"
    OBVIOUS
  <2>1. k \in 1 .. n \/ k = n + 1
    BY <1>2
  <2> QED
    BY <1>2, <2>1
<1>7. /\ InOrder(out) /\ token # "["
      /\ token \in Events => (token = ",event" <=> EventAmong(out, n))
      => InOrder(out')
  BY <1>2, Extended
<1> QED
  BY <1>3, <1>4, <1>5, <1>6, <1>7

\* A step of main() closes the array at most.
LEMMA ArrayMainStep == ASSUME ArrayInv, output = "array", MainStep PROVE ArrayInv'
<1> USE DEF ArrayInv
<1>0. TypeOK' /\ output' = output
  BY TypeStep, Zenon DEF Next, MainStep, Connect, CreateHandle, OpenObject, Register, Start,
     SeeEnd, DecideClosure, CloseArray, Unwind, Exit, options
<1>1. UNCHANGED <<firstEvent, separator, step>>
  BY DEF MainStep, Connect, CreateHandle, OpenObject, Register, Start, SeeEnd, DecideClosure,
     CloseArray, Unwind, Exit, shared
<1>2. CASE CloseArray
  <2>1. pc = "close" /\ out' = Append(out, "]") /\ pc' = "unwind"
    BY <1>2 DEF CloseArray
  <2>2. "]" \in Tokens /\ "]" \notin Events /\ "]" # "["
    BY DEF Tokens, Events
  <2>3. ~firstEvent /\ out # <<>> /\ FlagsTell
    BY <2>1 DEF FlagsTell, NotClosed
  <2>5. (EventsOut <=> EventsOut') /\ out' # <<>> /\ (InOrder(out) => InOrder(out'))
    BY <2>1, <2>2, <2>3, OutAppended DEF TypeOK
  <2>6. FlagsTell' /\ NotClosed'
    BY <1>1, <2>1, <2>3, <2>5 DEF FlagsTell, NotClosed
  <2>7. ArrayInOrder'
    BY <1>0, <2>5 DEF ArrayInOrder
  <2> QED
    BY <1>0, <2>6, <2>7
<1>3. CASE ~CloseArray
  <2>1. out' = out /\ (pc' = "close" => ~firstEvent)
            /\ (pc \in {"unwind", "exited"} => pc' \in {"unwind", "exited"})
    BY <1>3 DEF MainStep, Connect, CreateHandle, OpenObject, Register, Start, SeeEnd,
       DecideClosure, ClosureDue, Unwind, Exit, printed, Fail, Advance, NotClosed
  <2>2. FlagsTell' /\ NotClosed'
    BY <1>1, <2>1 DEF FlagsTell, NotClosed, EventsOut
  <2>3. ArrayInOrder'
    BY <1>0, <2>1 DEF ArrayInOrder
  <2> QED
    BY <1>0, <2>2, <2>3
<1> QED
  BY <1>2, <1>3

\* The callback opens the array before its first event, and separates the others.
LEMMA ArrayPrintStep ==
    ASSUME ArrayInv, output = "array", FormatEvent \/ PrintEvent, TypeOK',
           UNCHANGED <<output, pc, firstEvent>>
    PROVE  ArrayInv'
<1> USE DEF ArrayInv
<1>1. CASE FormatEvent /\ ~firstEvent
  <2>1. step = "format" /\ separator' = "," /\ step' = "print" /\ out' = out
    BY <1>1 DEF FormatEvent
  <2>2. EventsOut /\ EventsOut'
    BY <1>1, <2>1 DEF FlagsTell, EventsOut
  <2>3. FlagsTell' /\ NotClosed'
    BY <1>1, <2>1, <2>2 DEF FlagsTell, NotClosed
  <2> QED
    BY <2>1, <2>3 DEF ArrayInOrder
<1>2. CASE FormatEvent /\ firstEvent
  <2>1. step = "format" /\ separator' = separator /\ step' = "flag" /\ out' = Append(out, "[")
    BY <1>2 DEF FormatEvent
  <2>2. out = <<>>
    BY <1>2, <2>1 DEF FlagsTell
  <2>3. out' = <<"[">>
    BY <2>1, <2>2
  <2>4. "[" \notin Events /\ "[" # "]"
    BY DEF Events
  <2>5. ~EventsOut' /\ InOrder(out')
    BY <2>3, <2>4, OpenedOnly DEF EventsOut
  <2>6. FlagsTell' /\ NotClosed'
    <3>1. FlagsTell'
      <4>1. separator = ""
        BY <1>2 DEF FlagsTell
      <4>2. out' # <<>> /\ ~EventsOut'
        BY <2>3, <2>5
      <4> QED
        BY <1>2, <2>1, <2>3, <4>1, <4>2 DEF FlagsTell
    <3>2. NotClosed'
      BY <1>2, <2>3, OpenedOnly DEF NotClosed
    <3> QED
      BY <3>1, <3>2
  <2>7. ArrayInOrder'
    BY <2>5 DEF ArrayInOrder
  <2> QED
    BY <2>6, <2>7
<1>3. CASE PrintEvent
  <2> DEFINE token == IF separator = "," THEN ",event" ELSE "event"
  <2>1. step = "print" /\ separator' = separator /\ step' = "idle" /\ out' = Append(out, token)
    BY <1>3 DEF PrintEvent, shared
  <2>2. /\ token \in Tokens /\ token \in Events /\ token # "[" /\ token # "]"
        /\ token = ",event" <=> EventsOut
    BY <2>1 DEF Tokens, Events, FlagsTell
  <2>3. ~firstEvent /\ out # <<>>
    BY <2>1 DEF FlagsTell
  <2> HIDE DEF token
  <2>5. EventsOut' /\ out' # <<>> /\ (InOrder(out) => InOrder(out'))
            /\ ((\A k \in DOMAIN out : out[k] # "]") => \A k \in DOMAIN out' : out'[k] # "]")
    BY <2>1, <2>2, <2>3, OutAppended DEF TypeOK
  <2>6. FlagsTell' /\ NotClosed'
    <3>1. FlagsTell'
      BY <2>1, <2>3, <2>5 DEF FlagsTell
    <3>2. NotClosed'
      BY <2>3, <2>5 DEF NotClosed
    <3> QED
      BY <3>1, <3>2
  <2>7. ArrayInOrder'
    BY <2>5 DEF ArrayInOrder
  <2> QED
    BY <2>6, <2>7
<1> QED
  BY <1>1, <1>2, <1>3

\* A step keeps the array in order, and open until main() closes it.
LEMMA ArrayStep == ASSUME ArrayInv, [Next]_vars PROVE ArrayInv'
<1>0. TypeOK'
  BY TypeStep DEF ArrayInv
<1>1. output' = output
  BY DEF Next, MainStep, Connect, CreateHandle, OpenObject, Register, Start, SeeEnd,
     DecideClosure, CloseArray, Unwind, Exit, CallbackStep, FormatEvent, SetFirstEvent,
     PrintEvent, Invocation, MessageRemoved, NoMessage, TroubleReported, MessageArrives,
     BatchLeaves, ConnectionBreaks, TroubleBegins, PressEnter, Exited, Main, Program, options,
     vars
<1>2. CASE output # "array"
  BY <1>0, <1>1, <1>2 DEF ArrayInv, ArrayInOrder
<1> SUFFICES ASSUME output = "array" PROVE ArrayInv'
  BY <1>2
<1>3. CASE MainStep
  BY <1>3, ArrayMainStep
<1>4. CASE FormatEvent \/ PrintEvent
  <2>1. UNCHANGED <<pc, firstEvent>>
    BY <1>4 DEF FormatEvent, PrintEvent, Main, shared
  <2> QED
    BY <1>0, <1>1, <1>4, <2>1, ArrayPrintStep
<1>5. CASE SetFirstEvent
  <2>1. UNCHANGED <<pc, separator, out>> /\ step = "flag" /\ step' = "print" /\ ~firstEvent'
    BY <1>5 DEF SetFirstEvent, FirstDone, Main, printed
  <2>2. out = <<"[">> /\ separator = ""
    BY <2>1 DEF ArrayInv, FlagsTell
  <2>3. ~EventsOut'
    BY <2>1, <2>2, OpenedOnly DEF EventsOut
  <2>4. FlagsTell' /\ NotClosed'
    BY <2>1, <2>2, <2>3 DEF ArrayInv, FlagsTell, NotClosed
  <2> QED
    BY <1>0, <1>1, <2>1, <2>4 DEF ArrayInv, ArrayInOrder
<1>6. CASE UNCHANGED <<pc, firstEvent, separator, out>>
               /\ (step' = step \/ (step = "idle" /\ step' = "format"))
  BY <1>0, <1>1, <1>6 DEF ArrayInv, FlagsTell, NotClosed, EventsOut, ArrayInOrder
<1>7. ASSUME NEW o \in openObjects, Invocation(o) \/ MessageArrives(o)
      PROVE  UNCHANGED <<pc, firstEvent, separator, out>>
                 /\ (step' = step \/ (step = "idle" /\ step' = "format"))
  BY <1>7 DEF Invocation, MessageRemoved, NoMessage, TroubleReported, CanCall, MessageArrives,
     Main, Program, shared, printed
<1>8. ASSUME \/ BatchLeaves \/ ConnectionBreaks \/ TroubleBegins \/ PressEnter
             \/ UNCHANGED vars
      PROVE  UNCHANGED <<pc, firstEvent, separator, out, step>>
  BY <1>8 DEF BatchLeaves, ConnectionBreaks, TroubleBegins, PressEnter, Main, Program, vars,
     shared, printed
<1> QED
  BY <1>3, <1>4, <1>5, <1>6, <1>7, <1>8 DEF Next, CallbackStep, Exited

\* The array starts empty.
LEMMA ArrayInit == ASSUME Init PROVE ArrayInv
<1>1. pc = "connect" /\ firstEvent /\ separator = "" /\ step = "idle" /\ out = <<>>
  BY Zenon DEF Init
<1>2. FlagsTell /\ NotClosed
  <2>1. DOMAIN out = {}
    <3>1. out = <<>>
      BY <1>1
    <3> QED
      BY <3>1
  <2>2. FlagsTell
    BY <1>1 DEF FlagsTell
  <2>3. NotClosed
    BY <1>1, <2>1 DEF NotClosed
  <2> QED
    BY <2>2, <2>3
<1>3. InOrder(out)
  <2>1. DOMAIN out = {}
    <3>1. out = <<>>
      BY <1>1
    <3> QED
      BY <3>1
  <2> QED
    BY <2>1 DEF InOrder
<1> QED
  BY <1>2, <1>3, TypeInit DEF ArrayInv, ArrayInOrder

\* The array is opened once, before everything else, and every event but the
\* first has its comma, for any number of events, although main() and the
\* callback share firstEvent, separator and the output without a lock.
THEOREM ArrayInOrderTheorem == Spec => []ArrayInOrder
<1>1. Init => ArrayInv
  BY ArrayInit
<1>2. ArrayInv /\ [Next]_vars => ArrayInv'
  BY ArrayStep
<1>3. ArrayInv => ArrayInOrder
  BY DEF ArrayInv
<1> QED
  BY <1>1, <1>2, <1>3, PTL DEF Spec

\* "The array closure needs to be printed to stdout, provided we've printed at
\* least one event already": if no callback runs when main() turns to the
\* deferred calls, the output is a complete array, or empty.
THEOREM ClosedIfQuietTheorem == Spec => ClosedIfQuiet
<1>1. Init => ArrayInv
  BY ArrayInit
<1>2. ArrayInv /\ [Next]_vars => ArrayInv'
  BY ArrayStep
<1>3. ArrayInv /\ [Next]_vars =>
          [pc # "unwind" /\ pc' = "unwind" /\ output = "array" /\ step = "idle"
              => CompleteArray(out')]_vars
  <2> SUFFICES ASSUME ArrayInv, Next, pc # "unwind", pc' = "unwind", output = "array",
                      step = "idle"
               PROVE  CompleteArray(out')
    OBVIOUS
  <2>1. CASE DecideClosure
    <3>1. out' = out /\ firstEvent
      BY <2>1 DEF DecideClosure, ClosureDue, printed
    <3> QED
      BY <3>1 DEF ArrayInv, FlagsTell, CompleteArray
  <2>2. CASE CloseArray
    <3>1. out' = Append(out, "]") /\ pc = "close"
      BY <2>2 DEF CloseArray
    <3>2. \A k \in DOMAIN out : out[k] # "]"
      BY <3>1 DEF ArrayInv, NotClosed
    <3>3. out \in Seq(Tokens) /\ "]" \in Tokens
      BY DEF ArrayInv, TypeOK, OutputTyped, Tokens
    <3>4. PICK n \in Nat : /\ Len(out') = n + 1 /\ DOMAIN out' = 1 .. n + 1
                           /\ DOMAIN out = 1 .. n /\ (n = 0 => out = <<>>)
                           /\ \A k \in 1 .. n : out'[k] = out[k] /\ out'[k] # "]"
                           /\ out'[n + 1] = "]"
      BY <3>1, <3>2, <3>3
    <3>5. out # <<>>
      BY <3>1 DEF ArrayInv, FlagsTell, NotClosed
    <3>6. n \in Nat \ {0}
      BY <3>4, <3>5
    <3>7. out[1] = "["
      <4>1. InOrder(out) /\ 1 \in DOMAIN out
        BY <3>4, <3>6 DEF ArrayInv, ArrayInOrder
      <4> QED
        BY <4>1 DEF InOrder
    <3>8. out'[1] = "["
      BY <3>4, <3>6, <3>7
    <3> QED
      BY <3>4, <3>6, <3>8 DEF CompleteArray
  <2>3. pc' = pc \/ MainStep
    BY OutsideMain
  <2> QED
    BY <2>1, <2>2, <2>3 DEF MainStep, Connect, CreateHandle, OpenObject, Register, Start,
       SeeEnd, Unwind, Exit, Fail, Advance
<1> QED
  BY <1>1, <1>2, <1>3, PTL DEF Spec, ClosedIfQuiet
=============================================================================
