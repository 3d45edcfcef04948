-------------------------- MODULE TraceRoute_proofs --------------------------
(***************************************************************************)
(* Theorems of TraceRoute, for any number of messages, any limits, and     *)
(* routes of any length with any number of branches.                       *)
(***************************************************************************)
EXTENDS TraceRoute, TLAPS, FiniteSetTheorems, SequenceTheorems

\* Something stays in the unit of work only after a MQBACK that failed.
LeftByFailure == uow # {} => backFailed

\* "Back it out so it doesn't go anywhere": whatever fails, and for any number of
\* messages, nothing but tracer messages to other queue managers is committed, by
\* the program or by MQDISC, unless the last MQBACK failed: every message that is
\* not to go is followed by a MQBACK before anything is committed.
THEOREM TestGoesNowhereTheorem == Spec => TestGoesNowhere
<1>1. Init => LeftByFailure
  BY DEF Init, LeftByFailure
<1>2. LeftByFailure /\ [Next]_vars => LeftByFailure'
  <2> SUFFICES ASSUME LeftByFailure, [Next]_vars PROVE LeftByFailure'
    OBVIOUS
  <2> USE DEF LeftByFailure
  <2>1. CASE PutTestMessage
    BY <2>1 DEF PutTestMessage, Back
  <2>2. CASE PutMessage
    BY <2>2 DEF PutMessage, Back, work
  <2>3. CASE Shutdown
    BY <2>3 DEF Shutdown, Back
  <2>4. CASE Disconnect
    BY <2>4 DEF Disconnect
  <2>5. CASE UNCHANGED work
    BY <2>5 DEF work
  <2> QED
    BY <2>1, <2>2, <2>3, <2>4, <2>5 DEF Next, Step, Progress, vars, SetUp, BeginTrace, NotSetUp,
       GetReport, GetOther, NoReport, GetFails, PrintSummary
<1>3. LeftByFailure /\ [Next]_vars
          => [committed' \ committed \subseteq {"tracer"} \/ backFailed]_vars
  <2> SUFFICES ASSUME LeftByFailure, Next
               PROVE  committed' \ committed \subseteq {"tracer"} \/ backFailed
    OBVIOUS
  <2>1. CASE PutMessage
    BY <2>1 DEF PutMessage, work, LeftByFailure
  <2>2. CASE Disconnect
    BY <2>2 DEF Disconnect, LeftByFailure
  <2>3. CASE UNCHANGED committed
    BY <2>3
  <2> QED
    BY <2>1, <2>2, <2>3 DEF Next, Step, Progress, vars, work, SetUp, BeginTrace, NotSetUp,
       PutTestMessage, GetReport, GetOther, NoReport, GetFails, PrintSummary, Shutdown
<1> QED
  BY <1>1, <1>2, <1>3, PTL DEF Spec, TestGoesNowhere

-----------------------------------------------------------------------------
(* Types                                                                   *)

\* main() prints one summary per turn of its loop
LoopCount ==
    /\ i = Len(summaries)
    /\ pc \in {"trace", "test", "put", "get", "print"} => i < MsgCount
TypeInv == TypeOK /\ LoopCount

\* A trace has as many branches as its domain has elements, and positions.
LEMMA TraceTyped ==
    ASSUME NEW trace \in Traces
    PROVE  /\ Cardinality(DOMAIN trace) \in 0 .. Branches
           /\ DOMAIN trace = 1 .. Cardinality(DOMAIN trace)
           /\ \A b \in DOMAIN trace : trace[b] \in Ends
<1>1. PICK n \in 0 .. Branches : trace \in [1 .. n -> Ends]
  BY DEF Traces
<1>2. Cardinality(1 .. n) = n
  BY FS_Interval, BoundAssumption
<1> QED
  BY <1>1, <1>2

\* The reports about a message are reports.
LEMMA ReportedTyped ==
    ASSUME NEW msg \in Messages, NEW trace \in Traces
    PROVE  Reported(msg, trace) \subseteq Reports
<1> SUFFICES ASSUME NEW b \in DOMAIN trace, NEW pos \in 1 .. trace[b].pos
             PROVE  Report(msg, b, pos, trace[b]) \in Reports
  BY DEF Reported
<1>1. b \in 1 .. Branches /\ trace[b] \in Ends
  BY TraceTyped, BoundAssumption
<1>2. trace[b].pos \in 1 .. RouteLength /\ trace[b].arrives \in BOOLEAN
  BY <1>1 DEF Ends, Positions
<1>3. pos \in Positions
  BY <1>2, BoundAssumption DEF Positions
<1> QED
  BY <1>1, <1>2, <1>3 DEF Report, Reports

\* The program starts typed.
LEMMA TypeInit == ASSUME Init PROVE TypeInv
<1> USE CountAssumption, LimitsAssumption, BoundAssumption
<1>1. traces \in [Messages -> Traces]
  <2>1. <<>> \in [1 .. 0 -> Ends]
    OBVIOUS
  <2>2. <<>> \in Traces
    BY <2>1 DEF Traces
  <2> QED
    BY <2>2 DEF Init
<1>2. summaries \in Seq(Summaries) /\ Len(summaries) = 0
  BY DEF Init
<1>3. ControlTyped
  <2>1. {setUp, immediateFailure, firstActivity, traceErr, success, failure} \subseteq BOOLEAN
    BY DEF Init
  <2>2. i \in 0 .. MsgCount
    BY DEF Init
  <2> QED
    BY <2>1, <2>2 DEF Init, ControlTyped
<1>4. CollectedTyped
  <2>1. seenDiscard \in BOOLEAN
    BY DEF Init
  <2>2. DOMAIN activityMap = {} /\ highestActivity \in 0 .. RouteLength
    BY DEF Init
  <2> QED
    BY <2>1, <2>2 DEF CollectedTyped
<1>5. NetworkTyped
  <2>1. backoutRequired \in BOOLEAN
    BY DEF Init
  <2>2. other \in 0 .. MaxOther
    BY DEF Init
  <2> QED
    BY <1>1, <2>1, <2>2 DEF Init, NetworkTyped
<1>6. HistoryTyped
  BY <1>2 DEF Init, HistoryTyped, Endings
<1>7. LoopCount
  BY <1>2 DEF Init, LoopCount
<1> QED
  BY <1>3, <1>4, <1>5, <1>6, <1>7 DEF TypeInv, TypeOK

\* A step keeps the control state typed, and prints a summary per turn.
LEMMA ControlStep == ASSUME TypeInv, Step PROVE ControlTyped' /\ LoopCount'
<1> USE CountAssumption DEF TypeInv, TypeOK, ControlTyped, LoopCount
<1>1. CASE SetUp
  BY <1>1 DEF SetUp, NextMessage, info
<1>2. CASE BeginTrace
  BY <1>2 DEF BeginTrace, info
<1>3. CASE NotSetUp
  BY <1>3 DEF NotSetUp, result, info
<1>4. CASE PutTestMessage
  BY <1>4 DEF PutTestMessage, info
<1>5. CASE PutMessage
  BY <1>5 DEF PutMessage, info
<1>6. ASSUME NEW report \in reports, GetReport(report) PROVE ControlTyped' /\ LoopCount'
  BY <1>6 DEF GetReport, AfterMessage, result, info
<1>7. CASE GetOther
  BY <1>7 DEF GetOther, AfterMessage, result, info
<1>8. CASE NoReport \/ GetFails
  BY <1>8 DEF NoReport, GetFails, EndGet, result, info
<1>9. CASE PrintSummary
  <2>1. Len(summaries') = Len(summaries) + 1
    BY <1>9 DEF HistoryTyped, PrintSummary
  <2>2. success' \in BOOLEAN /\ failure' \in BOOLEAN
    BY <1>9 DEF PrintSummary
  <2> QED
    BY <1>9, <2>1, <2>2 DEF PrintSummary, NextMessage, result
<1>10. CASE Shutdown
  BY <1>10 DEF Shutdown, result, info
<1>11. CASE Disconnect
  BY <1>11 DEF Disconnect, result, info
<1> QED
  BY <1>1, <1>2, <1>3, <1>4, <1>5, <1>6, <1>7, <1>8, <1>9, <1>10, <1>11 DEF Step, Progress

\* A step keeps the collected activities typed.
LEMMA CollectedStep == ASSUME TypeInv, Step PROVE CollectedTyped'
<1> USE BoundAssumption DEF TypeInv, TypeOK, CollectedTyped
<1>1. CASE BeginTrace
  <2>1. seenDiscard' \in BOOLEAN
    BY <1>1 DEF BeginTrace
  <2>2. DOMAIN activityMap' = {} /\ highestActivity' \in 0 .. RouteLength
    BY <1>1 DEF BeginTrace
  <2> QED
    BY <2>1, <2>2
<1>2. ASSUME NEW report \in reports, GetReport(report) PROVE CollectedTyped'
  <2>1. report \in Reports /\ report.pos \in 1 .. RouteLength /\ report.discard \in BOOLEAN
    BY DEF NetworkTyped, Reports, Positions
  <2>2. highestActivity' \in 0 .. RouteLength /\ report.pos <= highestActivity'
            /\ highestActivity <= highestActivity'
    BY <1>2, <2>1 DEF GetReport, Highest
  <2>3. DOMAIN activityMap' = DOMAIN activityMap \union {report.pos}
    BY <1>2 DEF GetReport, Highest
  <2>4. DOMAIN activityMap' \subseteq 1 .. highestActivity'
    BY <2>1, <2>2, <2>3
  <2>5. \A pos \in DOMAIN activityMap' :
            activityMap'[pos] \in Reports /\ activityMap'[pos].pos = pos
    BY <1>2, <2>1, <2>3 DEF GetReport, Highest
  <2>6. seenDiscard' \in BOOLEAN
    BY <1>2, <2>1 DEF GetReport, Highest
  <2> QED
    BY <2>2, <2>4, <2>5, <2>6
<1>3. CASE UNCHANGED collected
  BY <1>3 DEF collected
<1> QED
  BY <1>1, <1>2, <1>3 DEF Step, Progress, SetUp, NotSetUp, PutTestMessage, PutMessage, GetOther,
     NoReport, GetFails, PrintSummary, Shutdown, Disconnect

\* A step keeps what is sent and reported typed.
LEMMA NetworkStep == ASSUME TypeInv, Step PROVE NetworkTyped'
<1> USE CountAssumption DEF TypeInv, TypeOK, NetworkTyped
<1>1. CASE PutTestMessage
  BY <1>1 DEF PutTestMessage, Back, Put, network
<1>2. CASE PutMessage
  <2>1. i \in Messages
    BY <1>2 DEF PutMessage, Messages, LoopCount, ControlTyped
  <2>2. traces' \in [Messages -> Traces] /\ reports' \subseteq Reports
    <3>1. CASE UNCHANGED <<traces, reports>>
      BY <3>1
    <3>2. CASE \E trace \in TracesAhead : /\ traces' = [traces EXCEPT ![i] = trace]
                                          /\ reports' = reports \union Reported(i, trace)
      <4>1. PICK trace \in TracesAhead : /\ traces' = [traces EXCEPT ![i] = trace]
                                         /\ reports' = reports \union Reported(i, trace)
        BY <3>2
      <4>2. trace \in Traces
        BY DEF TracesAhead
      <4> QED
        BY <2>1, <4>1, <4>2, ReportedTyped
    <3> QED
      BY <1>2, <3>1, <3>2 DEF PutMessage
  <2> QED
    BY <1>2, <2>2 DEF PutMessage, work, Back, Put
<1>3. ASSUME NEW report \in reports, GetReport(report) PROVE NetworkTyped'
  BY <1>3 DEF GetReport, work
<1>4. CASE GetOther
  BY <1>4 DEF GetOther, work
<1>5. CASE Shutdown \/ Disconnect
  BY <1>5 DEF Shutdown, Disconnect, Back, network
<1>6. CASE UNCHANGED <<work, network>>
  BY <1>6 DEF work, network
<1> QED
  BY <1>1, <1>2, <1>3, <1>4, <1>5, <1>6 DEF Step, Progress, SetUp, BeginTrace, NotSetUp, NoReport, GetFails,
     PrintSummary

\* A step keeps the reports that were read and the summaries typed.
LEMMA HistoryStep == ASSUME TypeInv, Step PROVE HistoryTyped'
<1> USE CountAssumption DEF TypeInv, TypeOK, HistoryTyped
<1>1. CASE PrintSummary
  <2>1. i \in Messages /\ Len(summaries) < MsgCount
    BY <1>1 DEF PrintSummary, Messages, LoopCount, ControlTyped
  <2>2. Cardinality(DOMAIN traces[i]) \in 0 .. Branches
    BY <2>1, TraceTyped DEF NetworkTyped
  <2>3. success' \in BOOLEAN /\ failure' \in BOOLEAN
    BY <1>1 DEF ControlTyped, PrintSummary
  <2> DEFINE s == [success |-> success', failure |-> failure', error |-> traceErr,
                   reached |-> \E report \in read : report.arrived,
                   stopped |-> \E report \in read : report.discard /\ ~report.arrived,
                   branches |-> Cardinality(DOMAIN traces[i])]
  <2>4. s \in Summaries
    BY <2>2, <2>3 DEF ControlTyped, Summaries
  <2>5. summaries' = Append(summaries, s) /\ UNCHANGED <<read, ended>>
    BY <1>1 DEF PrintSummary
  <2> HIDE DEF s
  <2> QED
    BY <2>1, <2>4, <2>5
<1>2. ASSUME NEW report \in reports, GetReport(report) PROVE HistoryTyped'
  BY <1>2 DEF NetworkTyped, GetReport, AfterMessage, EndOfWait, Endings
<1>3. CASE BeginTrace
  BY <1>3 DEF BeginTrace, Endings
<1>4. CASE ended' \in Endings /\ UNCHANGED <<read, summaries>>
  BY <1>4
<1> QED
  BY <1>1, <1>2, <1>3, <1>4 DEF Step, Progress, SetUp, NotSetUp, PutTestMessage, PutMessage, GetOther,
     AfterMessage, EndOfWait, NoReport, GetFails, Shutdown, Disconnect, Endings

\* A step keeps the types.
LEMMA TypeStep == ASSUME TypeInv, [Next]_vars PROVE TypeInv'
<1>1. CASE Step
  BY <1>1, ControlStep, CollectedStep, NetworkStep, HistoryStep DEF TypeInv, TypeOK
<1>2. CASE UNCHANGED vars
  BY <1>2 DEF TypeInv, TypeOK, LoopCount, ControlTyped, CollectedTyped, NetworkTyped,
     HistoryTyped, vars, result, info, collected, work, network
<1> QED
  BY <1>1, <1>2 DEF Next

\* Every variable of the program stays in its type, and there are never more
\* summaries than messages.
THEOREM TypeOKTheorem == Spec => []TypeOK
<1>1. Init => TypeInv
  BY TypeInit
<1>2. TypeInv /\ [Next]_vars => TypeInv'
  BY TypeStep
<1>3. TypeInv => TypeOK
  BY DEF TypeInv
<1> QED
  BY <1>1, <1>2, <1>3, PTL DEF Spec

-----------------------------------------------------------------------------
(* The reports and what is collected of them                               *)

\* The way is known of the messages that were put, and a limit bounds it.
Sent(k) == k < i \/ (k = i /\ pc \notin {"setup", "trace", "test", "put"})
TracesKnown ==
    \A k \in Messages :
        /\ ~Sent(k) => traces[k] = <<>>
        /\ \A b \in DOMAIN traces[k] : maxActivities > 0 => traces[k][b].pos <= maxActivities

\* A report is one that its message's route causes.
ReportsCaused == \A report \in reports \union read : report \in Reported(report.msg, traces[report.msg])

\* What is collected is what was read, by positions.
CollectedRead ==
    /\ \A pos \in DOMAIN activityMap : activityMap[pos] \in read
    /\ \A report \in read : report.pos \in DOMAIN activityMap
    /\ seenDiscard => \E report \in read : report.discard

\* What ended the wait is still so.
EndedRightly ==
    /\ ended = "limit" => Cardinality(DOMAIN activityMap) >= maxActivities
    /\ ended = "discard" => seenDiscard /\ Cardinality(DOMAIN activityMap) >= highestActivity

RouteInv == TypeInv /\ TracesKnown /\ ReportsCaused /\ CollectedRead /\ EndedRightly

\* The reports that a message causes, one by one.
LEMMA ReportedShape ==
    ASSUME NEW msg, NEW trace, NEW report
    PROVE  report \in Reported(msg, trace) <=>
               \E b \in DOMAIN trace : \E pos \in 1 .. trace[b].pos :
                   report = Report(msg, b, pos, trace[b])
BY DEF Reported

\* A message without a route has no reports.
LEMMA NothingReported == ASSUME NEW msg PROVE Reported(msg, <<>>) = {}
BY DEF Reported

\* The wait begins with nothing known and nothing read.
LEMMA RouteInit == ASSUME Init PROVE RouteInv
<1>1. TracesKnown
  BY DEF Init, TracesKnown
<1>2. ReportsCaused /\ CollectedRead
  BY DEF Init, ReportsCaused, CollectedRead
<1>3. EndedRightly
  BY DEF Init, EndedRightly
<1> QED
  BY <1>1, <1>2, <1>3, TypeInit DEF RouteInv

\* Putting a message makes its route known, which it was not before.
LEMMA PutStep == ASSUME RouteInv, PutMessage PROVE TracesKnown' /\ ReportsCaused'
<1> USE DEF RouteInv, TracesKnown, ReportsCaused
<1>1. i \in Messages /\ pc = "put" /\ i' = i /\ maxActivities' = maxActivities
          /\ read' = read /\ pc' \in {"print", "get"}
  BY CountAssumption DEF PutMessage, Messages, TypeInv, TypeOK, LoopCount, ControlTyped
<1>2. \A k \in Messages : k # i => (Sent(k) <=> Sent(k)')
  BY <1>1 DEF Sent
<1>3. CASE UNCHANGED <<traces, reports>>
  BY <1>1, <1>2, <1>3 DEF Sent
<1>4. CASE \E trace \in TracesAhead : /\ traces' = [traces EXCEPT ![i] = trace]
                                      /\ reports' = reports \union Reported(i, trace)
  <2>1. PICK trace \in TracesAhead : /\ traces' = [traces EXCEPT ![i] = trace]
                                     /\ reports' = reports \union Reported(i, trace)
    BY <1>4
  <2>2. traces'[i] = trace /\ \A k \in Messages : k # i => traces'[k] = traces[k]
    BY <1>1, <2>1 DEF TypeInv, TypeOK, NetworkTyped
  <2>3. maxActivities > 0 => \A b \in DOMAIN trace : trace[b].pos <= maxActivities
    BY LimitsAssumption DEF TracesAhead, Limit, TypeInv, TypeOK, ControlTyped
  <2>4. TracesKnown'
    BY <1>1, <1>2, <2>2, <2>3 DEF Sent
  <2>5. traces[i] = <<>>
    BY <1>1 DEF Sent, TypeInv, TypeOK, ControlTyped
  <2>6. ASSUME NEW report \in reports \union read
        PROVE  report \in Reported(report.msg, traces'[report.msg])
    <3>1. report \in Reported(report.msg, traces[report.msg])
      OBVIOUS
    <3>2. report.msg \in Messages
      BY DEF TypeInv, TypeOK, NetworkTyped, HistoryTyped, Reports
    <3>3. report.msg # i
      BY <2>5, <3>1, NothingReported
    <3> QED
      BY <2>2, <3>1, <3>2, <3>3
  <2>7. ASSUME NEW report \in Reported(i, trace)
        PROVE  report \in Reported(report.msg, traces'[report.msg])
    <3>1. report.msg = i
      BY ReportedShape DEF Report
    <3> QED
      BY <2>2, <2>7, <3>1
  <2> QED
    BY <1>1, <2>1, <2>4, <2>6, <2>7
<1> QED
  BY <1>3, <1>4 DEF PutMessage

\* Reading a report adds it to what is collected.
LEMMA GetStep ==
    ASSUME RouteInv, NEW report \in reports, GetReport(report)
    PROVE  ReportsCaused' /\ CollectedRead' /\ EndedRightly'
<1>1. ReportsCaused'
  BY DEF RouteInv, ReportsCaused, GetReport
<1>2. CollectedRead'
  <2>1. DOMAIN activityMap' = DOMAIN activityMap \union {report.pos}
    BY DEF GetReport, Highest
  <2>2. \A pos \in DOMAIN activityMap' : activityMap'[pos] \in read'
    BY <2>1 DEF GetReport, RouteInv, CollectedRead
  <2>3. \A r \in read' : r.pos \in DOMAIN activityMap'
    BY <2>1 DEF GetReport, RouteInv, CollectedRead
  <2>4. seenDiscard' => \E r \in read' : r.discard
    BY DEF GetReport, RouteInv, CollectedRead
  <2> QED
    BY <2>2, <2>3, <2>4 DEF CollectedRead
<1>3. EndedRightly'
  BY DEF GetReport, AfterMessage, EndOfWait, AllSeen, EndedRightly
<1> QED
  BY <1>1, <1>2, <1>3

\* A step keeps the relation between traces, reports and what is collected.
LEMMA RouteStep == ASSUME RouteInv, [Next]_vars PROVE RouteInv'
<1>1. TypeInv'
  BY TypeStep DEF RouteInv
<1>2. TracesKnown' /\ ReportsCaused'
  <2>1. CASE PutMessage
    BY <2>1, PutStep
  <2>2. ASSUME NEW report \in reports, GetReport(report) PROVE TracesKnown' /\ ReportsCaused'
    <3>1. ReportsCaused'
      BY <2>2, GetStep
    <3>2. TracesKnown'
      BY <2>2 DEF GetReport, AfterMessage, RouteInv, TracesKnown, Sent
    <3> QED
      BY <3>1, <3>2
  <2>3. CASE BeginTrace
    <3>1. pc = "trace" /\ pc' \in {"test", "put", "panic"}
              /\ UNCHANGED <<i, maxActivities, traces, reports>> /\ read' = {}
      BY <2>3 DEF BeginTrace, network
    <3>2. \A k \in Messages : Sent(k) => Sent(k)'
      BY <3>1 DEF Sent
    <3> QED
      BY <3>1, <3>2 DEF RouteInv, TracesKnown, ReportsCaused
  <2>4. CASE PrintSummary
    <3>1. pc = "print" /\ i' = i + 1 /\ UNCHANGED <<maxActivities, traces, reports, read>>
      BY <2>4 DEF PrintSummary, network
    <3>2. \A k \in Messages : Sent(k) => Sent(k)'
      BY <3>1 DEF Sent, Messages, RouteInv, TypeInv, TypeOK, ControlTyped
    <3> QED
      BY <3>1, <3>2 DEF RouteInv, TracesKnown, ReportsCaused
  <2>5. CASE UNCHANGED <<maxActivities, i, traces, reports, read>>
                /\ (pc \in {"setup", "trace", "test", "put"} \/ pc' = pc
                        \/ pc' \notin {"setup", "trace", "test", "put"})
    <3>1. \A k \in Messages : Sent(k) => Sent(k)'
      BY <2>5 DEF Sent
    <3> QED
      BY <2>5, <3>1 DEF RouteInv, TracesKnown, ReportsCaused
  <2> QED
    BY <2>1, <2>2, <2>3, <2>4, <2>5 DEF Next, Step, Progress, vars, network, SetUp, NotSetUp,
       PutTestMessage, GetOther, AfterMessage, NoReport, GetFails, EndGet, Shutdown, Disconnect
<1>3. CollectedRead' /\ EndedRightly'
  <2>1. ASSUME NEW report \in reports, GetReport(report) PROVE CollectedRead' /\ EndedRightly'
    BY <2>1, GetStep
  <2>2. CASE BeginTrace
    <3>1. CollectedRead'
      BY <2>2 DEF BeginTrace, CollectedRead
    <3>2. EndedRightly'
      BY <2>2 DEF BeginTrace, EndedRightly
    <3> QED
      BY <3>1, <3>2
  <2>3. CASE GetOther
    <3>1. CollectedRead'
      BY <2>3 DEF GetOther, collected, RouteInv, CollectedRead
    <3>2. EndedRightly'
      BY <2>3 DEF GetOther, collected, AfterMessage, EndOfWait, AllSeen, EndedRightly
    <3> QED
      BY <3>1, <3>2
  <2>4. CASE UNCHANGED <<maxActivities, collected, read>>
                /\ ended' \in {ended, "error", "timeout"}
    BY <2>4 DEF RouteInv, CollectedRead, EndedRightly, collected
  <2> QED
    BY <2>1, <2>2, <2>3, <2>4 DEF Next, Step, Progress, vars, SetUp, NotSetUp, PutTestMessage,
       PutMessage, NoReport, GetFails, PrintSummary, Shutdown, Disconnect
<1> QED
  BY <1>1, <1>2, <1>3 DEF RouteInv

\* From these relations: if the wait ends by count, what is collected of a message
\* without branches has all the positions of its way.
LEMMA Complete == ASSUME RouteInv PROVE RouteComplete
<1> SUFFICES ASSUME pc = "print", ended \in {"limit", "discard"}, maxActivities > 0,
                    Len(traces[i]) = 1, \A report \in read : report.msg = i
             PROVE  Shown = Reported(i, traces[i])
  BY DEF RouteComplete
<1> DEFINE end == traces[i][1]
           n == end.pos
<1>1. i \in Messages /\ traces[i] \in Traces
  BY CountAssumption
     DEF RouteInv, TypeInv, TypeOK, LoopCount, ControlTyped, NetworkTyped, Messages
<1>2. DOMAIN traces[i] = {1} /\ n \in Nat
  <2>1. PICK b \in 0 .. Branches : traces[i] \in [1 .. b -> Ends]
    BY <1>1 DEF Traces
  <2>2. traces[i] \in Seq(Ends)
    BY <2>1, BoundAssumption, SeqDef
  <2>3. DOMAIN traces[i] = 1 .. 1
    BY <2>2, LenProperties
  <2>4. end \in Ends
    BY <2>1, <2>3
  <2> QED
    BY <2>3, <2>4, BoundAssumption DEF Ends, Positions
<1>3. n <= maxActivities
  BY <1>1, <1>2 DEF RouteInv, TracesKnown
<1>4. \A report \in read :
          /\ report.pos \in 1 .. n
          /\ report = Report(i, 1, report.pos, end)
  <2> SUFFICES ASSUME NEW report \in read
               PROVE  report.pos \in 1 .. n /\ report = Report(i, 1, report.pos, end)
    OBVIOUS
  <2>1. report \in Reported(i, traces[i])
    BY DEF RouteInv, ReportsCaused
  <2>2. PICK b \in DOMAIN traces[i] : \E pos \in 1 .. traces[i][b].pos :
            report = Report(i, b, pos, traces[i][b])
    BY <2>1, ReportedShape
  <2>3. PICK pos \in 1 .. n : report = Report(i, 1, pos, end)
    BY <1>2, <2>2
  <2>4. report.pos = pos
    BY <2>3 DEF Report
  <2> QED
    BY <2>3, <2>4
<1>5. DOMAIN activityMap \subseteq 1 .. n
          /\ \A pos \in DOMAIN activityMap : activityMap[pos] \in read /\ activityMap[pos].pos = pos
  BY <1>4 DEF RouteInv, CollectedRead, TypeInv, TypeOK, CollectedTyped
<1>6. IsFiniteSet(DOMAIN activityMap) /\ Cardinality(DOMAIN activityMap) \in Nat
  <2>1. IsFiniteSet(1 .. n)
    BY <1>2, FS_Interval
  <2> QED
    BY <1>5, <2>1, FS_Subset, FS_CardinalityType
<1>7. Cardinality(DOMAIN activityMap) >= n
  <2>1. CASE ended = "limit"
    BY <1>2, <1>3, <1>6, <2>1, LimitsAssumption
       DEF RouteInv, EndedRightly, TypeInv, TypeOK, ControlTyped
  <2>2. CASE ended = "discard"
    <3>1. PICK report \in read : report.discard
      BY <2>2 DEF RouteInv, EndedRightly, CollectedRead
    <3>2. report.pos = n
      <4>1. report.discard = (report.pos = n)
        BY <1>4 DEF Report
      <4> QED
        BY <3>1, <4>1
    <3>3. n \in DOMAIN activityMap
      BY <3>2 DEF RouteInv, CollectedRead
    <3>4. n <= highestActivity /\ highestActivity \in Nat
      BY <3>3, BoundAssumption DEF RouteInv, TypeInv, TypeOK, CollectedTyped
    <3> QED
      BY <1>2, <1>6, <2>2, <3>4 DEF RouteInv, EndedRightly
  <2> QED
    BY <2>1, <2>2
<1>8. DOMAIN activityMap = 1 .. n
  <2>1. IsFiniteSet(1 .. n) /\ Cardinality(1 .. n) = n
    <3>1. n \in Nat
      BY <1>2
    <3> HIDE DEF n
    <3> QED
      BY <3>1, FS_Interval
  <2>2. DOMAIN activityMap \in SUBSET (1 .. n)
    BY <1>5
  <2>3. Cardinality(DOMAIN activityMap) <= Cardinality(1 .. n)
            /\ (Cardinality(1 .. n) = Cardinality(DOMAIN activityMap)
                    => 1 .. n = DOMAIN activityMap)
    BY <2>1, <2>2, FS_Subset
  <2>4. Cardinality(1 .. n) = Cardinality(DOMAIN activityMap)
    BY <1>2, <1>6, <1>7, <2>1, <2>3
  <2> QED
    BY <2>3, <2>4
<1>9. ASSUME NEW pos \in 1 .. n
      PROVE  activityMap[pos] = Report(i, 1, pos, end)
  BY <1>4, <1>5, <1>8
<1>10. Reported(i, traces[i]) =
           {Report(i, 1, pos, end) : pos \in 1 .. n}
  BY <1>2 DEF Reported
<1>11. Shown \subseteq Reported(i, traces[i])
  <2> SUFFICES ASSUME NEW pos \in DOMAIN activityMap
               PROVE  activityMap[pos] \in Reported(i, traces[i])
    BY DEF Shown
  <2>1. activityMap[pos] \in read /\ activityMap[pos].msg = i
    BY <1>5
  <2> QED
    BY <2>1 DEF RouteInv, ReportsCaused
<1>12. Reported(i, traces[i]) \subseteq Shown
  <2> SUFFICES ASSUME NEW pos \in 1 .. n
               PROVE  Report(i, 1, pos, end) \in Shown
    BY <1>10
  <2> QED
    BY <1>8, <1>9 DEF Shown
<1> QED
  BY <1>11, <1>12

\* When the program stops waiting because of what it has read, and no late
\* report is among it, it shows the whole way of a message without branches.
\* It counts and does not match reports to messages; this is why counting is
\* enough.
THEOREM RouteCompleteTheorem == Spec => []RouteComplete
<1>1. Init => RouteInv
  BY RouteInit
<1>2. RouteInv /\ [Next]_vars => RouteInv'
  BY RouteStep
<1>3. RouteInv => RouteComplete
  BY Complete
<1> QED
  BY <1>1, <1>2, <1>3, PTL DEF Spec

-----------------------------------------------------------------------------
(* The summaries                                                           *)

\* An immediate failure comes before the first activity, hence before anything
\* is read, and its error lasts until the program panics.
FailureFirst ==
    /\ pc = "setup" => ~setUp
    /\ pc \in {"setup", "test"} =>
           i = 0 /\ ~immediateFailure /\ ~firstActivity /\ read = {}
    /\ setUp /\ pc = "trace" /\ i = 0 => ~immediateFailure /\ ~firstActivity
    /\ pc \in {"put", "get"} => firstActivity
    /\ immediateFailure => ~firstActivity /\ read = {}
    /\ immediateFailure /\ pc # "panic" => traceErr

\* What o.Info says came from the messages so far.
InfoEarned ==
    /\ success => \E j \in 1 .. Len(summaries) : summaries[j].reached \/ summaries[j].stopped
    /\ Len(summaries) = 0 => ~success /\ ~failure

SummaryInv == RouteInv /\ FailureFirst /\ InfoEarned /\ SummariesTell

\* Nothing was read that a later message caused.
LEMMA ReadSoFar ==
    ASSUME RouteInv, pc \in {"get", "print"}, NEW report \in read
    PROVE  report.msg \in Messages /\ report.msg <= i
<1>1. report.msg \in Messages
  BY DEF RouteInv, TypeInv, TypeOK, HistoryTyped, Reports
<1>2. report \in Reported(report.msg, traces[report.msg])
  BY DEF RouteInv, ReportsCaused
<1>3. Sent(report.msg)
  BY <1>1, <1>2, NothingReported DEF RouteInv, TracesKnown
<1> QED
  BY <1>1, <1>3, CountAssumption
     DEF Sent, Messages, RouteInv, TypeInv, TypeOK, ControlTyped

\* The first message has reached its destination, and there is one branch: then
\* the discard is at its position and not overwritten.
LEMMA DiscardShown ==
    ASSUME RouteInv, pc = "print", i = 0, Cardinality(DOMAIN traces[0]) <= 1,
           NEW report \in read, report.discard
    PROVE  \E act \in Shown : act.discard
<1> DEFINE n == traces[0][1].pos
<1>1. 0 \in Messages /\ traces[0] \in Traces
  BY CountAssumption DEF RouteInv, TypeInv, TypeOK, LoopCount, NetworkTyped, Messages
<1>2. DOMAIN traces[0] \subseteq {1}
  BY <1>1, TraceTyped, BoundAssumption
<1>3. ASSUME NEW r \in read
      PROVE  r.discard = (r.pos = n)
  <2>1. r.msg = 0
    BY ReadSoFar DEF Messages
  <2>2. r \in Reported(0, traces[0])
    BY <2>1 DEF RouteInv, ReportsCaused
  <2>3. PICK b \in DOMAIN traces[0] : \E pos \in 1 .. traces[0][b].pos :
            r = Report(0, b, pos, traces[0][b])
    BY <2>2, ReportedShape
  <2>4. b = 1
    BY <1>2
  <2> QED
    BY <2>3, <2>4 DEF Report
<1>4. report.pos \in DOMAIN activityMap /\ activityMap[report.pos] \in read
          /\ activityMap[report.pos].pos = report.pos
  BY DEF RouteInv, CollectedRead, TypeInv, TypeOK, CollectedTyped
<1>5. report.pos = n
  <2>1. report.discard = (report.pos = n)
    BY <1>3
  <2> QED
    BY <2>1
<1>6. activityMap[report.pos].discard
  <2>1. activityMap[report.pos].discard = (activityMap[report.pos].pos = n)
    BY <1>3, <1>4
  <2> QED
    BY <1>4, <1>5, <2>1
<1>7. activityMap[report.pos] \in Shown
  BY <1>4 DEF Shown
<1> QED
  BY <1>6, <1>7

\* What is reported to have arrived is reported to be discarded.
LEMMA ArrivedDiscarded ==
    ASSUME RouteInv, NEW report \in read, report.arrived PROVE report.discard
<1>1. report \in Reported(report.msg, traces[report.msg])
  BY DEF RouteInv, ReportsCaused
<1>2. PICK b \in DOMAIN traces[report.msg] : \E pos \in 1 .. traces[report.msg][b].pos :
          report = Report(report.msg, b, pos, traces[report.msg][b])
  BY <1>1, ReportedShape
<1>3. PICK pos \in 1 .. traces[report.msg][b].pos :
          report = Report(report.msg, b, pos, traces[report.msg][b])
  BY <1>2
<1>4. ASSUME NEW msg, NEW end, report = Report(msg, b, pos, end) PROVE report.discard
  <2>1. report.arrived = (pos = end.pos /\ end.arrives) /\ report.discard = (pos = end.pos)
    BY <1>4 DEF Report
  <2> QED
    BY <2>1
<1> QED
  BY <1>3, <1>4

\* A step keeps the failures at the beginning.
LEMMA FailureStep == ASSUME TypeInv, FailureFirst, Step PROVE FailureFirst'
<1> USE DEF FailureFirst
<1>1. CASE SetUp
  BY <1>1 DEF SetUp, NextMessage
<1>2. CASE BeginTrace
  BY <1>2 DEF BeginTrace
<1>3. CASE NotSetUp
  BY <1>3 DEF NotSetUp, result
<1>4. CASE PutTestMessage
  BY <1>4 DEF PutTestMessage
<1>5. CASE PutMessage
  BY <1>5 DEF PutMessage
<1>6. ASSUME NEW report \in reports, GetReport(report) PROVE FailureFirst'
  BY <1>6 DEF GetReport, AfterMessage, result
<1>7. CASE GetOther
  BY <1>7 DEF GetOther, AfterMessage, result
<1>8. CASE NoReport \/ GetFails
  BY <1>8 DEF NoReport, GetFails, EndGet, result
<1>9. CASE PrintSummary
  <2>1. i' # 0
    BY <1>9 DEF PrintSummary, TypeInv, TypeOK, ControlTyped
  <2> QED
    BY <1>9, <2>1 DEF PrintSummary, NextMessage, result
<1>10. CASE Shutdown
  BY <1>10 DEF Shutdown, result
<1>11. CASE Disconnect
  BY <1>11 DEF Disconnect, result
<1> QED
  BY <1>1, <1>2, <1>3, <1>4, <1>5, <1>6, <1>7, <1>8, <1>9, <1>10, <1>11 DEF Step, Progress

\* A summary that is printed keeps what all summaries tell.
LEMMA SummaryStep ==
    ASSUME SummaryInv, PrintSummary PROVE InfoEarned' /\ SummariesTell'
<1> DEFINE reached == \E report \in read : report.arrived
           stopped == \E report \in read : report.discard /\ ~report.arrived
           n == Len(summaries) + 1
           s == [success |-> success', failure |-> failure', error |-> traceErr,
                 reached |-> reached, stopped |-> stopped,
                 branches |-> Cardinality(DOMAIN traces[i])]
<1>1. summaries \in Seq(Summaries) /\ summaries' = Append(summaries, s)
  BY DEF PrintSummary, SummaryInv, RouteInv, TypeInv, TypeOK, HistoryTyped
<1>2. s.success = success' /\ s.failure = failure' /\ s.error = traceErr
          /\ s.reached = reached /\ s.stopped = stopped
          /\ s.branches = Cardinality(DOMAIN traces[i])
  OBVIOUS
<1> HIDE DEF s
<1>3. /\ Len(summaries') = n /\ Len(summaries) \in Nat
      /\ summaries'[n] = s
      /\ \A k \in 1 .. Len(summaries) : summaries'[k] = summaries[k]
  BY <1>1
<1>4. success' => success \/ reached \/ stopped
  BY DEF PrintSummary, Shown, SummaryInv, RouteInv, CollectedRead
<1>5. success' => \E j \in 1 .. n : summaries'[j].reached \/ summaries'[j].stopped
  <2>1. CASE reached \/ stopped
    <3>1. (s.reached \/ s.stopped) /\ n \in 1 .. n
      BY <1>2, <1>3, <2>1
    <3> QED
      BY <1>3, <3>1
  <2>2. CASE success
    BY <1>3, <2>2 DEF SummaryInv, InfoEarned
  <2> QED
    BY <1>4, <2>1, <2>2
<1>6. InfoEarned'
  BY <1>3, <1>5 DEF InfoEarned
<1>7. s.success \/ s.failure \/ s.error
  <2>1. success' \/ failure' \/ traceErr
    BY DEF PrintSummary, SummaryInv, FailureFirst
  <2> QED
    BY <1>2, <2>1
<1>8. n = 1 /\ s.reached /\ s.branches <= 1 => s.success /\ ~s.failure
  <2> SUFFICES ASSUME n = 1, reached, Cardinality(DOMAIN traces[i]) <= 1
               PROVE  success' /\ ~failure'
    BY <1>2
  <2>1. i = 0 /\ pc = "print" /\ ~success /\ ~failure
    BY <1>3 DEF PrintSummary, SummaryInv, RouteInv, TypeInv, LoopCount, InfoEarned
  <2>2. \E act \in Shown : act.discard
    BY <2>1, ArrivedDiscarded, DiscardShown DEF SummaryInv
  <2>3. ~immediateFailure
    BY DEF SummaryInv, FailureFirst
  <2> QED
    BY <2>1, <2>2, <2>3 DEF PrintSummary
<1>9. SummariesTell'
  <2> SUFFICES ASSUME NEW k \in DOMAIN summaries'
               PROVE  /\ summaries'[k].success /\ (\A j \in 1 .. k : ~summaries'[j].stopped)
                             => \E j \in 1 .. k : summaries'[j].reached
                      /\ k = 1 /\ summaries'[k].reached /\ summaries'[k].branches <= 1
                             => summaries'[k].success /\ ~summaries'[k].failure
                      /\ \/ summaries'[k].success \/ summaries'[k].failure
                         \/ summaries'[k].error
    BY DEF SummariesTell
  <2>1. CASE k = n
    BY <1>2, <1>3, <1>5, <1>7, <1>8, <2>1
  <2>2. CASE k \in 1 .. Len(summaries)
    <3>1. summaries'[k] = summaries[k] /\ \A j \in 1 .. k : summaries'[j] = summaries[j]
      BY <1>3, <2>2
    <3>2. k \in DOMAIN summaries
      BY <1>1, <2>2, LenProperties
    <3> QED
      BY <3>1, <3>2 DEF SummaryInv, SummariesTell
  <2>3. summaries' \in Seq(Summaries)
    BY TypeStep DEF SummaryInv, RouteInv, Next, Step, Progress, TypeInv, TypeOK, HistoryTyped
  <2>4. k \in 1 .. n
    BY <1>3, <2>3, LenProperties
  <2> QED
    BY <1>3, <2>1, <2>2, <2>4
<1> QED
  BY <1>6, <1>9

\* "This will indicate whether or not the tracer message reached a final
\* destination" (README): a first summary reports every arrival that it was told
\* of, and success is never said without one unless a discard on the way was
\* taken for it, for every number of messages and order of reports.
THEOREM SummariesTellTheorem == Spec => []SummariesTell
<1>1. Init => SummaryInv
  <2> SUFFICES ASSUME Init PROVE SummaryInv
    OBVIOUS
  <2>1. FailureFirst
    BY DEF Init, FailureFirst
  <2>2. InfoEarned /\ SummariesTell
    BY DEF Init, InfoEarned, SummariesTell
  <2> QED
    BY <2>1, <2>2, RouteInit DEF SummaryInv
<1>2. SummaryInv /\ [Next]_vars => SummaryInv'
  <2> SUFFICES ASSUME SummaryInv, [Next]_vars PROVE SummaryInv'
    OBVIOUS
  <2>1. RouteInv'
    BY RouteStep DEF SummaryInv
  <2>2. FailureFirst'
    <3>1. CASE Step
      BY <3>1, FailureStep DEF SummaryInv, RouteInv
    <3>2. CASE UNCHANGED vars
      BY <3>2 DEF vars, result, SummaryInv, FailureFirst
    <3> QED
      BY <3>1, <3>2 DEF Next
  <2>3. InfoEarned' /\ SummariesTell'
    <3>1. CASE PrintSummary
      BY <3>1, SummaryStep
    <3>2. CASE UNCHANGED <<info, summaries>>
      BY <3>2 DEF info, SummaryInv, InfoEarned, SummariesTell
    <3> QED
      BY <3>1, <3>2 DEF Next, Step, Progress, vars, SetUp, BeginTrace, NotSetUp, PutTestMessage,
         PutMessage, GetReport, GetOther, NoReport, GetFails, Shutdown, Disconnect
  <2> QED
    BY <2>1, <2>2, <2>3 DEF SummaryInv
<1>3. SummaryInv => SummariesTell
  BY DEF SummaryInv
<1> QED
  BY <1>1, <1>2, <1>3, PTL DEF Spec

-----------------------------------------------------------------------------
(* Every message is tested.                                                *)

\* What became of the first message decides about the others: it was put; or
\* it comes next, or there is none; or it failed, and the second is where the
\* program panics.
FirstDecides ==
    setUp => \/ firstActivity
             \/ i = 0 /\ pc \in {"trace", "test", "shutdown", "disc", "exited"}
             \/ /\ immediateFailure
                /\ \/ i = 0 /\ pc = "print"
                   \/ i = 1 /\ pc \in {"trace", "panic", "shutdown", "disc", "exited"}

\* The loop is left after the last message; a panic is one that a failure of
\* the first message causes.
LoopEnds ==
    /\ pc \in {"shutdown", "disc", "exited"} => i = MsgCount
    /\ pc = "panic" => setUp /\ ~firstActivity
    /\ pc = "setup" => i = 0
    /\ pc = "test" => i = 0
    /\ pc \in {"put", "get"} => firstActivity

TestedInv == TypeInv /\ FirstDecides /\ LoopEnds

LEMMA TestedStep == ASSUME TestedInv, Step PROVE FirstDecides' /\ LoopEnds'
<1> USE CountAssumption DEF TestedInv, FirstDecides, LoopEnds, result
<1>1. i \in 0 .. MsgCount
  BY DEF TypeInv, TypeOK, ControlTyped
<1>2. pc \in {"trace", "test", "put", "get", "print"} => i < MsgCount
  BY DEF TypeInv, LoopCount
<1>3. CASE SetUp
  BY <1>1, <1>3 DEF SetUp, NextMessage
<1>4. CASE BeginTrace
  BY <1>4 DEF BeginTrace
<1>5. CASE NotSetUp
  BY <1>5 DEF NotSetUp
<1>6. CASE PutTestMessage
  BY <1>6 DEF PutTestMessage
<1>7. CASE PutMessage
  BY <1>7 DEF PutMessage
<1>8. CASE (\E report \in reports : GetReport(report)) \/ GetOther \/ NoReport \/ GetFails
  BY <1>8 DEF GetReport, GetOther, NoReport, GetFails, AfterMessage, EndGet
<1>9. CASE PrintSummary
  BY <1>1, <1>2, <1>9 DEF PrintSummary, NextMessage
<1>10. CASE Shutdown \/ Disconnect
  BY <1>10 DEF Shutdown, Disconnect
<1> QED
  BY <1>3, <1>4, <1>5, <1>6, <1>7, <1>8, <1>9, <1>10 DEF Step, Progress

\* "Ignore errors from the doTrace function as we still want to test all the
\* possible cluster destinations" (main.go): so it is for any number of messages
\* and whatever fails, but for the put of the test message.
THEOREM AllTestedTheorem == Spec => []AllTestedUnlessFirstFails
<1>1. Init => TestedInv
  <2>1. Init => FirstDecides /\ LoopEnds
    BY DEF Init, FirstDecides, LoopEnds
  <2> QED
    BY <2>1, TypeInit DEF TestedInv
<1>2. TestedInv /\ [Next]_vars => TestedInv'
  <2> SUFFICES ASSUME TestedInv, [Next]_vars PROVE TestedInv'
    OBVIOUS
  <2>1. CASE Step
    BY <2>1, TestedStep, TypeStep DEF TestedInv
  <2>2. CASE UNCHANGED vars
    BY <2>2, TypeStep DEF TestedInv, FirstDecides, LoopEnds, vars, result
  <2> QED
    BY <2>1, <2>2 DEF Next
<1>3. TestedInv => AllTestedUnlessFirstFails
  BY DEF TestedInv, FirstDecides, LoopEnds, TypeInv, LoopCount, AllTestedUnlessFirstFails,
     Stopped
<1> QED
  BY <1>1, <1>2, <1>3, PTL DEF Spec
=============================================================================
