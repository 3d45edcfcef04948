------------------------------ MODULE TraceRoute ------------------------------
(***************************************************************************)
(* dspmqrtj.  For each of MsgCount messages the program puts a tracer      *)
(* message to a queue or topic, reads the activity reports that the queue  *)
(* managers on its way send to the reply queue, and prints a summary.      *)
(* Reports come in any order, and late: nothing tells which message they   *)
(* belong to, and the wait ends by a count.  The first message is preceded *)
(* by a test message in a unit of work that is backed out.                 *)
(*                                                                         *)
(* A report is the message and the branch (of a publication) it is about,  *)
(* its recordedActivities, whether it tells that the tracer message was    *)
(* discarded, and whether that was at its destination: a tracer message is *)
(* also discarded on the way, after as many activities as it may have, or  *)
(* when it cannot be delivered.  A report that never comes is one that is  *)
(* still on its way when the program ends.                                 *)
(***************************************************************************)
EXTENDS Integers, Sequences, FiniteSets

CONSTANTS
    MsgCount,      \* -msgCount
    Limits,        \* values of -actCount
    Routes,        \* the activities on each branch from the queue to the destinations
    RouteLength,   \* bound on the activities of a branch
    Branches,      \* bound on the branches of a publication
    MaxOther       \* bound on messages in the reply queue that are no reports

ASSUME CountAssumption == MsgCount \in Nat /\ MaxOther \in Nat
ASSUME LimitsAssumption == Limits \subseteq Nat
ASSUME BoundAssumption == RouteLength \in Nat /\ Branches \in Nat

Messages == 0 .. MsgCount - 1
Positions == 1 .. RouteLength
AllRoutes == UNION {[1 .. b -> Positions] : b \in 0 .. Branches}
ASSUME RoutesAssumption == Routes \subseteq AllRoutes

\* Where the tracer message is discarded on each branch, and if it arrived there
Ends == [pos : Positions, arrives : BOOLEAN]
Traces == UNION {[1 .. b -> Ends] : b \in 0 .. Branches}

Reports == [msg : Messages, branch : 1 .. Branches, pos : Positions, discard : BOOLEAN,
            arrived : BOOLEAN]

VARIABLES
    maxActivities,                      \* cf.MaxActivities
    pc, i,                              \* the loop of main()
    setUp,                              \* err == nil after openOutput
    immediateFailure, firstActivity, traceErr,    \* o, and whether o.Error has entries
    success, failure,                   \* o.Info
    activityMap, highestActivity, seenDiscard,
    backoutRequired, uow, committed, backFailed,    \* the unit of work; what was sent; history
    traces, reports, other,             \* what the queue managers do
    read, ended, summaries              \* history of the wait; what was printed

info == <<success, failure>>
collected == <<activityMap, highestActivity, seenDiscard>>
work == <<backoutRequired, uow, committed, backFailed>>
network == <<traces, reports, other>>
result == <<setUp, immediateFailure, firstActivity, traceErr>>
vars == <<maxActivities, pc, i, result, info, collected, work, network, read, ended, summaries>>

\* A wait ends by the limit, by the discard, by a timeout or by an error
Endings == {"none", "limit", "discard", "timeout", "error"}
Summaries == [success : BOOLEAN, failure : BOOLEAN, error : BOOLEAN, reached : BOOLEAN,
              stopped : BOOLEAN, branches : 0 .. Branches]
Put == {"test", "local", "tracer"}

ControlTyped ==
    /\ maxActivities \in Limits
    /\ pc \in {"setup", "trace", "test", "put", "get", "print", "shutdown", "disc", "exited",
              "panic"}
    /\ i \in 0 .. MsgCount
    /\ {setUp, immediateFailure, firstActivity, traceErr, success, failure} \subseteq BOOLEAN
CollectedTyped ==
    /\ DOMAIN activityMap \subseteq 1 .. highestActivity
    /\ \A pos \in DOMAIN activityMap : activityMap[pos] \in Reports /\ activityMap[pos].pos = pos
    /\ highestActivity \in 0 .. RouteLength /\ seenDiscard \in BOOLEAN
NetworkTyped ==
    /\ backoutRequired \in BOOLEAN /\ backFailed \in BOOLEAN
    /\ uow \subseteq Put /\ committed \subseteq Put
    /\ traces \in [Messages -> Traces]
    /\ reports \subseteq Reports /\ other \in 0 .. MaxOther
HistoryTyped ==
    /\ read \subseteq Reports /\ ended \in Endings
    /\ summaries \in Seq(Summaries) /\ Len(summaries) <= MsgCount
TypeOK == ControlTyped /\ CollectedTyped /\ NetworkTyped /\ HistoryTyped

Init ==
    /\ maxActivities \in Limits
    /\ pc = "setup" /\ i = 0 /\ setUp = FALSE
    /\ immediateFailure = FALSE /\ firstActivity = FALSE /\ traceErr = FALSE
    /\ success = FALSE /\ failure = FALSE
    /\ activityMap = <<>> /\ highestActivity = 0 /\ seenDiscard = FALSE
    /\ backoutRequired = FALSE /\ uow = {} /\ committed = {} /\ backFailed = FALSE
    /\ traces = [k \in Messages |-> <<>>] /\ reports = {} /\ other = 0
    /\ read = {} /\ ended = "none" /\ summaries = <<>>

-----------------------------------------------------------------------------

\* Mutant: the last message is left out
LastLeftOut(k) == IF k + 1 < MsgCount THEN "trace" ELSE "shutdown"
NextMessage(k) == IF k < MsgCount THEN "trace" ELSE "shutdown"

\* connect, openReplyQ and openOutput, each only if those before it worked
SetUp ==
    /\ pc = "setup"
    /\ \/ setUp' = TRUE /\ UNCHANGED <<immediateFailure, traceErr>>
       \/ immediateFailure' = TRUE /\ traceErr' = TRUE /\ UNCHANGED setUp
    /\ pc' = NextMessage(i)
    /\ UNCHANGED <<maxActivities, i, firstActivity, info, collected, work, network, read,
                   ended, summaries>>

\* doTrace: initActivity, then the test message or the Operations of the first
\* activity, which is a nil pointer if the test message could not be put
BeginTrace ==
    /\ pc = "trace" /\ setUp
    /\ activityMap' = <<>> /\ highestActivity' = 0 /\ seenDiscard' = FALSE
    /\ traceErr' = FALSE
    /\ pc' = IF i = 0 THEN "test" ELSE IF firstActivity THEN "put" ELSE "panic"
    /\ read' = {} /\ ended' = "none"
    /\ UNCHANGED <<maxActivities, i, setUp, immediateFailure, firstActivity, info, work,
                   network, summaries>>

NotSetUp ==
    /\ pc = "trace" /\ ~setUp
    /\ pc' = "print"
    /\ UNCHANGED <<maxActivities, i, result, info, collected, work, network, read, ended,
                   summaries>>

\* Mutant: nothing is backed out
NoBack(messages) == uow' = messages /\ backFailed' = FALSE

\* MQBACK, whose error is ignored
Back(messages) ==
    \/ uow' = {} /\ backFailed' = FALSE
    \/ uow' = messages /\ backFailed' = TRUE

\* putTestMessage.  backoutRequired stays set if the put fails, not if MQBACK does.
PutTestMessage ==
    /\ pc = "test"
    /\ \/ /\ immediateFailure' = TRUE /\ traceErr' = TRUE
          /\ backoutRequired' = TRUE /\ ended' = "error" /\ pc' = "print"
          /\ UNCHANGED <<firstActivity, uow, backFailed>>
       \/ /\ firstActivity' = TRUE
          /\ Back(uow \union {"test"}) /\ backoutRequired' = FALSE
          /\ pc' = "put"
          /\ UNCHANGED <<immediateFailure, traceErr, ended>>
    /\ UNCHANGED <<maxActivities, i, setUp, info, collected, committed, network, read,
                   summaries>>

\* A tracer message goes no further than its MQIACF_MAX_ACTIVITIES, 1000 for a
\* limit of 0, and because of MQRO_DISCARD_MSG it may end anywhere before
Limit == IF maxActivities = 0 THEN 1000 ELSE maxActivities
TracesAhead ==
    {trace \in Traces : \E route \in Routes :
        /\ DOMAIN trace = DOMAIN route
        /\ \A b \in DOMAIN route :
               /\ trace[b].pos <= Limit /\ trace[b].pos <= route[b]
               /\ trace[b].arrives = (trace[b].pos = route[b])}
Report(msg, b, pos, end) ==
    [msg |-> msg, branch |-> b, pos |-> pos, discard |-> pos = end.pos,
     arrived |-> pos = end.pos /\ end.arrives]
Reported(msg, trace) ==
    UNION {{Report(msg, b, pos, trace[b]) : pos \in 1 .. trace[b].pos} : b \in DOMAIN trace}

\* putMessage: the put fails, it resolved to a local queue, where nothing reports
\* about it, or the message is committed; nobody looks whether the commit worked
\* or backed out what it should commit
PutMessage ==
    /\ pc = "put"
    /\ \/ /\ traceErr' = TRUE /\ ended' = "error" /\ pc' = "print"
          /\ UNCHANGED <<work, traces, reports>>
       \/ /\ Back(uow \union {"local"})
          /\ traceErr' = TRUE /\ ended' = "error" /\ pc' = "print"
          /\ backoutRequired' = FALSE
          /\ UNCHANGED <<committed, traces, reports>>
       \/ /\ uow' = {} /\ backoutRequired' = FALSE /\ pc' = "get"
          /\ \/ /\ committed' = committed \union uow \union {"tracer"}
                /\ \E trace \in TracesAhead :
                       /\ traces' = [traces EXCEPT ![i] = trace]
                       /\ reports' = reports \union Reported(i, trace)
             \/ UNCHANGED <<committed, traces, reports>>
          /\ UNCHANGED <<traceErr, ended, backFailed>>
    /\ UNCHANGED <<maxActivities, i, setUp, immediateFailure, firstActivity, info, collected,
                   other, read, summaries>>

\* Mutant: the discard ends the wait whatever is missing
DiscardSeen(map, highest, discard) == discard
AllSeen(map, highest, discard) == discard /\ Cardinality(DOMAIN map) >= highest

\* The test of the loop in doTrace after each message that was read
EndOfWait(map, highest, discard) ==
    IF Cardinality(DOMAIN map) >= maxActivities THEN "limit"
    ELSE IF AllSeen(map, highest, discard) THEN "discard"
    ELSE "none"
AfterMessage ==
    /\ ended' = EndOfWait(activityMap', highestActivity', seenDiscard')
    /\ pc' = IF ended' = "none" THEN "get" ELSE "print"

\* Mutant: the position of the last report
LatestPosition(pos) == pos
Highest(pos) == IF pos > highestActivity THEN pos ELSE highestActivity

\* getMessage and parseMsg of a report: addActivity at its position
GetReport(report) ==
    /\ pc = "get" /\ report \in reports
    /\ reports' = reports \ {report}
    /\ activityMap' = [pos \in DOMAIN activityMap \union {report.pos} |->
                           IF pos = report.pos THEN report ELSE activityMap[pos]]
    /\ highestActivity' = Highest(report.pos)
    /\ seenDiscard' = (seenDiscard \/ report.discard)
    /\ read' = read \union {report}
    /\ AfterMessage
    /\ UNCHANGED <<maxActivities, i, result, info, work, traces, other, summaries>>

\* parseMsg does not know the format: its error is ignored
GetOther ==
    /\ pc = "get" /\ other < MaxOther
    /\ other' = other + 1
    /\ UNCHANGED collected
    /\ AfterMessage
    /\ UNCHANGED <<maxActivities, i, result, info, work, traces, reports, read, summaries>>

\* Mutant: MQRC_NO_MSG_AVAILABLE is ignored altogether
StillGet == "get"
EndGet == "print"

\* MQRC_NO_MSG_AVAILABLE ends the wait without an error, anything else with one
NoReport ==
    /\ pc = "get"
    /\ pc' = EndGet /\ ended' = "timeout"
    /\ UNCHANGED <<maxActivities, i, result, info, collected, work, network, read, summaries>>

GetFails ==
    /\ pc = "get"
    /\ pc' = "print" /\ ended' = "error" /\ traceErr' = TRUE
    /\ UNCHANGED <<maxActivities, i, setUp, immediateFailure, firstActivity, info, collected,
                   work, network, read, summaries>>

\* Mutant: the last position is left out
ShownButLast == {activityMap[pos] : pos \in DOMAIN activityMap \ {highestActivity}}
Shown == {activityMap[pos] : pos \in DOMAIN activityMap}

\* printSummary.  o.Info is never reset: what it says is added to.
PrintSummary ==
    /\ pc = "print"
    /\ success' = (success \/ (~immediateFailure /\ \E act \in Shown : act.discard))
    /\ failure' = (failure \/ (~immediateFailure /\ ~success' /\ ~traceErr))
    /\ summaries' = Append(summaries,
           [success |-> success', failure |-> failure', error |-> traceErr,
            reached |-> \E report \in read : report.arrived,
            stopped |-> \E report \in read : report.discard /\ ~report.arrived,
            branches |-> Cardinality(DOMAIN traces[i])])
    /\ i' = i + 1
    /\ pc' = NextMessage(i + 1)
    /\ UNCHANGED <<maxActivities, result, collected, work, network, read, ended>>

Shutdown ==
    /\ pc = "shutdown"
    /\ IF backoutRequired THEN Back(uow) ELSE UNCHANGED <<uow, backFailed>>
    /\ pc' = "disc"
    /\ UNCHANGED <<maxActivities, i, result, info, collected, backoutRequired, committed,
                   network, read, ended, summaries>>

\* MQDISC commits what was not backed out
Disconnect ==
    /\ pc = "disc"
    /\ uow' = {} /\ committed' = committed \union uow
    /\ pc' = "exited"
    /\ UNCHANGED <<maxActivities, i, result, info, collected, backoutRequired, backFailed,
                   network, read, ended, summaries>>

Progress ==
    \/ SetUp \/ BeginTrace \/ NotSetUp \/ PutTestMessage \/ PutMessage
    \/ \E report \in reports : GetReport(report)
    \/ GetOther \/ NoReport \/ PrintSummary \/ Shutdown \/ Disconnect

Step == Progress \/ GetFails
Stopped == pc \in {"exited", "panic"}
Next == Step \/ (Stopped /\ UNCHANGED vars)

\* The program is sequential, and MQGET with a wait interval returns.  That it
\* returns an error is not assumed.
Spec == Init /\ [][Next]_vars /\ WF_vars(Progress)

-----------------------------------------------------------------------------
(* Properties.                                                             *)

\* "Back it out so it doesn't go anywhere": whatever is put and fails, however
\* many messages there are, nothing is sent but tracer messages to other queue
\* managers, neither the test message nor a message to a local queue, by the
\* program's MQCMIT or by MQDISC, unless the last MQBACK failed before it.  (If
\* it failed they are sent: its error is ignored and backoutRequired cleared.)
TestGoesNowhere == [][committed' \ committed \subseteq {"tracer"} \/ backFailed]_vars

\* When the program stops waiting because it has seen the discard and as many
\* activities as the highest position, it has the whole way of the message to
\* where it was discarded, in whatever order the reports arrived, provided that
\* it had no branches and that the program read no late report about an earlier
\* message.  The activities of earlier messages do not count.
RouteComplete ==
    pc = "print" /\ ended \in {"limit", "discard"} /\ maxActivities > 0
    /\ Len(traces[i]) = 1 /\ (\A report \in read : report.msg = i)
        => Shown = Reported(i, traces[i])

\* "This will indicate whether or not the tracer message reached a final
\* destination" (README): a first summary says so if a report told so and there is
\* one branch, in whatever order the reports came.  A summary says so only if a
\* report told so of this or of an earlier message, unless it was reported that
\* such a message was discarded on its way.  (The code takes any discard for
\* success and does not look at its feedback, so that the README is wrong there.)
\* Each summary tells success, failure or an error.
SummariesTell ==
    \A k \in DOMAIN summaries :
        LET s == summaries[k] IN
        /\ s.success /\ (\A j \in 1 .. k : ~summaries[j].stopped)
               => \E j \in 1 .. k : summaries[j].reached
        /\ k = 1 /\ s.reached /\ s.branches <= 1 => s.success /\ ~s.failure
        /\ s.success \/ s.failure \/ s.error

\* The wait for reports ends, also when none comes and when messages of other
\* formats are in the reply queue.
WaitEnds == <>Stopped

\* "Ignore errors from the doTrace function as we still want to test all the
\* possible cluster destinations" (main.go): a summary is printed for every
\* message, whatever happened to those before it.
AllTested == Stopped => Len(summaries) = MsgCount

\* It is so unless the test message, with which the first trace begins, could
\* not be put: a failure of the set-up, or of any later put or get, keeps no
\* other message from being tested.
AllTestedUnlessFirstFails ==
    Stopped => \/ Len(summaries) = MsgCount
               \/ pc = "panic" /\ setUp /\ immediateFailure /\ Len(summaries) = 1
=============================================================================
