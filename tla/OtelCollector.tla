---------------------------- MODULE OtelCollector ----------------------------
(***************************************************************************)
(* The OpenTelemetry collector, cmd/mq_otel: one goroutine that in every   *)
(* cycle reads the publications, polls for object status when that is due, *)
(* adds the values to counters and gauges of the SDK, and pushes what the  *)
(* SDK aggregated to an endpoint.  It does not reconnect: it tolerates     *)
(* some failed polls (pkg/errors) and some failed cycles (main.go), and    *)
(* then ends.                                                              *)
(*                                                                         *)
(* The data is one counter of each kind: a delta that the queue manager    *)
(* publishes (with a gauge published along with it), and the message count *)
(* of one channel, which CHSTATUS reports as a running total and mqmetric  *)
(* turns into a delta.  Counters are sent with delta temporality.          *)
(***************************************************************************)
EXTENDS Integers, FiniteSets

CONSTANTS
    MaxErrors,        \* config.ci.MaxErrors
    Deployments,      \* the configurations looked at
    MaxCount,         \* bound on what is published, and on the channel's messages
    MaxFaults         \* bound on failures of single calls

ASSUME MaxErrorsAssumption == MaxErrors \in Nat
ASSUME DeploymentAssumption ==
    Deployments \subseteq
        [usePublications : BOOLEAN, rediscovers : BOOLEAN, attrChannels : BOOLEAN]
ASSUME BoundAssumption == MaxCount \in Nat /\ MaxFaults \in Nat

maxStatusCollectionErrors == 3
NoValue == -1
Series == {"published", "channel"}
Gauges == {"depth", "status"}
PCs == {"start", "read", "poll", "status", "discover", "report", "collect",
        "export", "judge", "sleep", "gone"}
Exits == {"running", "0", "1", "30"}

VARIABLES
    pc, exit,
    deployment,                       \* how the collector is configured
    first, pollStatus, err,           \* the reader's flag; locals of a cycle
    elem,                             \* elem.Values of the published delta
    prevValue, chlDelta,              \* prevValues and Values of the channel status
    gaugeMap,                         \* what is stashed for the callbacks
    pending, rm, rmGauges,            \* aggregated by the SDK; collected for export
    statusErrors, totalErrorCount,
    pollDue, rediscoverDue,           \* what the clock says when a cycle starts
    connected, endpoint, interrupted, \* the outside world
    pubQ, chlCount, faults,
    chlFresh, produced, backlog, exported, lost   \* history

loop == <<pc, exit, first, pollStatus, err>>
data == <<elem, prevValue, chlDelta, chlFresh, gaugeMap>>
sdk == <<pending, rm, rmGauges>>
counts == <<statusErrors, totalErrorCount>>
clock == <<pollDue, rediscoverDue>>
world == <<connected, endpoint, interrupted>>
flow == <<pubQ, chlCount, produced>>
history == <<backlog, exported, lost>>
vars == <<deployment, loop, data, sdk, counts, clock, world, flow, faults, history>>

Zero == [c \in Series |-> 0]

UsePublications == deployment.usePublications  \* config.cf.CC.UsePublications
Rediscovers == deployment.rediscovers          \* config.cf.RediscoverDuration > 0
AttrChannels == deployment.attrChannels        \* AMQP or MQTT channels to rediscover

LoopTyped ==
    /\ pc \in PCs /\ exit \in Exits
    /\ first \in BOOLEAN /\ pollStatus \in BOOLEAN /\ err \in BOOLEAN
    /\ pollDue \in BOOLEAN /\ rediscoverDue \in BOOLEAN
WorldTyped ==
    /\ deployment \in Deployments
    /\ connected \in BOOLEAN /\ endpoint \in BOOLEAN /\ interrupted \in BOOLEAN
CountsTyped ==
    /\ statusErrors \in 0 .. maxStatusCollectionErrors + 1
    /\ totalErrorCount \in 0 .. MaxErrors + 1
    /\ faults \in 0 .. MaxFaults
ValuesTyped ==
    /\ elem \in Nat /\ pubQ \in Nat /\ chlCount \in Nat /\ backlog \in Nat
    /\ prevValue \in Nat \union {NoValue} /\ chlDelta \in Nat \union {NoValue}
    /\ pending \in [Series -> Nat] /\ rm \in [Series -> Nat]
    /\ produced \in [Series -> 0 .. MaxCount]
    /\ exported \in [Series -> Nat] /\ lost \in [Series -> Nat]
GaugesTyped ==
    /\ chlFresh \in BOOLEAN
    /\ gaugeMap \in [Gauges -> {"absent", "nil", "fresh", "stale"}]
    /\ rmGauges \subseteq Gauges \X {"fresh", "stale"}
TypeOK == LoopTyped /\ WorldTyped /\ CountsTyped /\ ValuesTyped /\ GaugesTyped

\* lastQueueDiscovery starts as the zero time: the first cycle rediscovers
Init ==
    /\ deployment \in Deployments
    /\ pc = "start" /\ exit = "running"
    /\ first = TRUE /\ pollStatus = FALSE /\ err = FALSE
    /\ elem = 0 /\ prevValue = NoValue /\ chlDelta = NoValue /\ chlFresh = FALSE
    /\ gaugeMap = [g \in Gauges |-> "absent"]
    /\ pending = Zero /\ rm = Zero /\ rmGauges = {}
    /\ statusErrors = 0 /\ totalErrorCount = 0
    /\ pollDue = FALSE /\ rediscoverDue = Rediscovers
    /\ connected = TRUE /\ endpoint = TRUE /\ interrupted = FALSE
    /\ pubQ = 0 /\ chlCount = 0 /\ faults = MaxFaults
    /\ produced = Zero /\ backlog = 0 /\ exported = Zero /\ lost = Zero

Gone == pc = "gone"
End(code) == pc' = "gone" /\ exit' = code

\* A call that may fail: for good reason, or by using up one of the faults
Fails(works) == IF works THEN faults > 0 /\ faults' = faults - 1
                         ELSE UNCHANGED faults

-----------------------------------------------------------------------------
\* Connection, discovery and set-up of the SDK: any error is fatal
Startup ==
    /\ pc = "start"
    /\ \/ connected /\ pc' = "read" /\ UNCHANGED <<exit, faults>>
       \/ Fails(connected) /\ \E code \in {"1", "30"} : End(code)
    /\ UNCHANGED <<first, pollStatus, err, data, sdk, counts, clock, world, flow,
                   history>>

\* Mutants: the values, or the gauges, of the last cycle are kept
KeptValues == elem
KeptGauge(g) == IF gaugeMap[g] = "fresh" THEN "stale" ELSE gaugeMap[g]
ClearedValues == 0
ClearedGauge(g) == IF gaugeMap[g] = "absent" THEN "absent" ELSE "nil"

\* GetMetrics up to the poll.  An error of ProcessPublications is fatal.
ReadPublications ==
    /\ pc = "read"
    /\ gaugeMap' = [g \in Gauges |-> ClearedGauge(g)]
    /\ chlFresh' = FALSE
    /\ err' = FALSE /\ pollStatus' = (pollDue \/ first)
    /\ \/ /\ connected \/ ~UsePublications
          /\ elem' = ClearedValues + pubQ /\ pubQ' = 0
          /\ backlog' = IF first THEN elem' ELSE backlog
          /\ pc' = "poll"
          /\ UNCHANGED <<exit, faults>>
       \/ /\ UsePublications /\ Fails(connected)
          /\ End("1")
          /\ UNCHANGED <<elem, pubQ, backlog>>
    /\ UNCHANGED <<first, prevValue, chlDelta, sdk, counts, clock, world, chlCount,
                   produced, exported, lost>>

\* Which stages of a poll fail: all of them without a connection
StageFailures(stages) ==
    IF connected THEN {f \in SUBSET stages : Cardinality(f) <= faults}
                 ELSE {stages}
UseFaults(f) == faults' = IF connected THEN faults - Cardinality(f) ELSE faults

\* Mutant: a cycle without a poll counts as a success
CountReset == 0
CountWithoutPoll == statusErrors

\* pkg/errors: a few consecutive failed polls are tolerated
HandleStatus(failed) ==
    /\ statusErrors' = IF failed THEN statusErrors + 1 ELSE 0
    /\ IF statusErrors' > maxStatusCollectionErrors
       THEN End("1") ELSE pc' = "discover" /\ UNCHANGED exit

SkipPoll ==
    /\ pc = "poll" /\ ~pollStatus
    /\ statusErrors' = CountWithoutPoll
    /\ pc' = "discover"
    /\ UNCHANGED <<exit, first, pollStatus, err, data, sdk, totalErrorCount, clock,
                   world, flow, faults, history>>

\* CollectQueueStatus and CollectQueueManagerStatus: both are tried; an error
\* of either skips the other stages, which keep the values of the last poll
PollObjects ==
    /\ pc = "poll" /\ pollStatus
    /\ \E f \in StageFailures({"queue", "qmgr"}) :
          /\ UseFaults(f)
          /\ err' = (f # {})
          /\ IF f = {} THEN pc' = "status" /\ UNCHANGED <<exit, statusErrors>>
                       ELSE HandleStatus(TRUE)
    /\ UNCHANGED <<first, pollStatus, data, sdk, totalErrorCount, clock, world, flow,
                   history>>

\* statusGetIntAttributes: the delta since the last poll, or the value itself
\* when it went down; a channel seen for the first time has no delta
Delta ==
    CASE prevValue = NoValue  -> 0
      [] chlCount < prevValue -> chlCount
      [] OTHER                -> chlCount - prevValue

\* CollectChannelStatus: empties the values, and forgets the channel if no
\* reply about it came before the error; the later stages do not depend on it
PollStatus ==
    /\ pc = "status"
    /\ \E f \in StageFailures({"channel", "other"}), answered \in BOOLEAN :
          /\ "channel" \notin f => answered
          /\ ~connected => ~answered
          /\ UseFaults(f)
          /\ prevValue' = IF answered THEN chlCount ELSE NoValue
          /\ chlDelta' = IF answered THEN Delta ELSE NoValue
          /\ chlFresh' = answered
          /\ err' = (f # {})
          /\ HandleStatus(f # {})
    /\ UNCHANGED <<first, pollStatus, elem, gaugeMap, sdk, totalErrorCount, clock,
                   world, flow, history>>

\* The error of the last rediscovery replaces the error of the poll
Rediscover ==
    /\ pc = "discover"
    /\ IF rediscoverDue
       THEN \/ err' = (AttrChannels /\ ~connected) /\ UNCHANGED faults
            \/ AttrChannels /\ connected /\ Fails(TRUE) /\ err' = TRUE
       ELSE UNCHANGED <<err, faults>>
    /\ pc' = "report"
    /\ UNCHANGED <<exit, first, pollStatus, data, sdk, counts, clock, world, flow,
                   history>>

\* Mutant: the first collection is published like any other
Always == TRUE
NotFirst == ~first

Stashed(g) ==
    CASE g = "depth" /\ NotFirst /\ elem > 0                  -> "fresh"
      [] g = "status" /\ pollStatus /\ chlDelta # NoValue     ->
            IF chlFresh THEN "fresh" ELSE "stale"
      [] OTHER                                                -> gaugeMap[g]
Evicted(stash) == [g \in Gauges |-> IF stash[g] = "nil" THEN "absent" ELSE stash[g]]

\* What is added to the counters: published values, and status values of a
\* cycle that polled, whether or not the poll succeeded
PublishedDelta == IF NotFirst THEN elem ELSE 0
StatusDelta == IF pollStatus /\ chlDelta # NoValue THEN chlDelta ELSE 0

\* The rest of GetMetrics: counters are added to at once, gauges are stashed,
\* keys of gauges without a value are evicted (the SDK keeps the instrument,
\* and ignores the callback of a second one of the same name)
Report ==
    /\ pc = "report"
    /\ first' = FALSE
    /\ pending' = [pending EXCEPT !["published"] = @ + PublishedDelta,
                                   !["channel"] = @ + StatusDelta]
    /\ gaugeMap' = Evicted([g \in Gauges |-> Stashed(g)])
    /\ pc' = IF err THEN "judge" ELSE "collect"
    /\ UNCHANGED <<exit, pollStatus, err, elem, prevValue, chlDelta, chlFresh, rm,
                   rmGauges, counts, clock, world, flow, faults, history>>

\* metricReader.Collect runs the callbacks and moves the deltas out of the
\* SDK, unless the context is done
Collect ==
    /\ pc = "collect"
    /\ IF interrupted
       THEN err' = TRUE /\ pc' = "judge" /\ UNCHANGED sdk
       ELSE /\ rm' = pending /\ pending' = Zero
            /\ rmGauges' = {<<g, gaugeMap[g]>> : g \in {k \in Gauges : gaugeMap[k] # "absent"}}
            /\ pc' = "export" /\ UNCHANGED err
    /\ UNCHANGED <<exit, first, pollStatus, data, counts, clock, world, flow, faults,
                   history>>

\* Mutant: the error is assigned to a variable of an inner scope
ErrorShadowed == FALSE
ExportError == TRUE

Export ==
    /\ pc = "export"
    /\ \/ /\ endpoint /\ ~interrupted
          /\ exported' = [c \in Series |-> exported[c] + rm[c]]
          /\ err' = FALSE /\ UNCHANGED <<lost, faults>>
       \/ /\ Fails(endpoint /\ ~interrupted)
          /\ lost' = [c \in Series |-> lost[c] + rm[c]]
          /\ err' = ExportError /\ UNCHANGED exported
    /\ rm' = Zero
    /\ pc' = "judge"
    /\ UNCHANGED <<exit, first, pollStatus, data, pending, rmGauges, counts, clock, world,
                   flow, backlog>>

\* Mutant: off by one
TooManyByOne(n) == n > MaxErrors + 1
TooManyErrors(n) == n > MaxErrors

\* The end of a cycle in main()
Judge ==
    /\ pc = "judge"
    /\ totalErrorCount' = IF err THEN totalErrorCount + 1 ELSE 0
    /\ IF TooManyErrors(totalErrorCount') \/ interrupted
       THEN End("1") ELSE pc' = "sleep" /\ UNCHANGED exit
    /\ rmGauges' = {}
    /\ UNCHANGED <<first, pollStatus, err, data, pending, rm, statusErrors, clock, world,
                   flow, faults, history>>

\* time.Sleep(d), after which the clock decides what is due
Sleep ==
    /\ pc = "sleep"
    /\ pc' = "read"
    /\ pollDue' \in BOOLEAN
    /\ rediscoverDue' \in {FALSE, Rediscovers}
    /\ UNCHANGED <<exit, first, pollStatus, err, data, sdk, counts, world, flow, faults,
                   history>>

MainStep ==
    /\ \/ Startup \/ ReadPublications \/ SkipPoll \/ PollObjects \/ PollStatus
       \/ Rediscover \/ Report \/ Collect \/ Export \/ Judge \/ Sleep
    /\ UNCHANGED deployment

-----------------------------------------------------------------------------
(* The queue manager, the endpoint and the operator.                       *)

Elsewhere == <<loop, data, sdk, counts, clock, history>>

QMgrPublishes ==
    /\ connected /\ UsePublications /\ produced["published"] < MaxCount
    /\ pubQ' = pubQ + 1
    /\ produced' = [produced EXCEPT !["published"] = @ + 1]
    /\ UNCHANGED <<Elsewhere, world, chlCount, faults>>

ChannelMovesMessage ==
    /\ produced["channel"] < MaxCount
    /\ chlCount' = chlCount + 1
    /\ produced' = [produced EXCEPT !["channel"] = @ + 1]
    /\ UNCHANGED <<Elsewhere, world, pubQ, faults>>

\* A new instance under the same key counts from 0
ChannelRestarts ==
    /\ chlCount > 0 /\ chlCount' = 0
    /\ UNCHANGED <<Elsewhere, world, pubQ, produced, faults>>

\* Failures that last: nothing in the collector repairs them
ConnectionBreaks ==
    /\ connected /\ connected' = FALSE
    /\ UNCHANGED <<Elsewhere, endpoint, interrupted, flow, faults>>

EndpointLost ==
    /\ endpoint /\ endpoint' = FALSE
    /\ UNCHANGED <<Elsewhere, connected, interrupted, flow, faults>>

Interrupt ==
    /\ ~interrupted /\ interrupted' = TRUE
    /\ UNCHANGED <<Elsewhere, connected, endpoint, flow, faults>>

EnvStep ==
    /\ \/ QMgrPublishes \/ ChannelMovesMessage \/ ChannelRestarts
       \/ ConnectionBreaks \/ EndpointLost \/ Interrupt
    /\ UNCHANGED deployment

ProcessGone == Gone /\ UNCHANGED vars

Next ==
    \/ ~Gone /\ (MainStep \/ EnvStep)
    \/ ProcessGone

Spec == Init /\ [][Next]_vars

\* The loop keeps running, and the poll interval elapses again and again
PollBecomesDue == Sleep /\ pollDue' /\ UNCHANGED deployment
FairSpec == Spec /\ WF_vars(MainStep) /\ SF_vars(PollBecomesDue)

-----------------------------------------------------------------------------
(* Properties.                                                             *)

\* What was published after the first collection is counted once, and what
\* was waiting for that collection ("accumulated stuff from a while ago") is
\* never counted, whatever polls, collections and exports fail in between: it
\* is on the queue, in the SDK, exported, or in an export that failed.
Unreported == IF ~first /\ pc \in {"poll", "status", "discover", "report"} THEN elem ELSE 0
PublishedCountedOnce ==
    Gone \/ produced["published"] =
        backlog + pubQ + Unreported + pending["published"] + rm["published"]
        + exported["published"] + lost["published"]

\* The promise about the counter of published deltas, and where this module
\* has the amounts.
DeliveryPhase ==
    IF Gone THEN "ended" ELSE IF first /\ pc \in {"start", "read"} THEN "new" ELSE "counting"
Held == Unreported + pending["published"] + rm["published"]

Delivery == INSTANCE CounterDelivery WITH
    phase <- DeliveryPhase,
    waiting <- pubQ,
    held <- IF Gone THEN 0 ELSE Held,
    skipped <- backlog,
    delivered <- exported["published"],
    dropped <- lost["published"]

\* Every behaviour of the collector moves the published deltas as promised: an
\* export delivers, or loses, all that cycles before it could not report.
DeliversAsPromised == Delivery!DeliverySpec

\* "A Counter is something that increases monotonically. For example, the
\* number of messages that have been put to a queue" (README of mq_otel): the
\* counter of a channel's messages never shows more than there were.
NeverOvercounts ==
    pending["channel"] + rm["channel"] + exported["channel"] + lost["channel"]
        <= produced["channel"]

\* "Clear out everything we know so far ... so the collection starts clean"
\* (GetMetrics): a gauge that is exported was read in the same cycle.
GaugesFresh == \A g \in rmGauges : g[2] = "fresh"

\* It is so in a deployment that does not rediscover objects, where nothing
\* replaces the error of a poll, whichever calls of the cycle fail.
GaugesFreshUnlessRediscovered == ~Rediscovers => GaugesFresh

\* pkg/errors allows "a small number of consecutive failures in collecting
\* status. If that's exceeded, then exit": with the connection gone for good
\* the process ends, however seldom it polls compared with its cycles.
BrokenEnds == ~connected ~> Gone

\* "Maximum number of errors communicating with server before considered
\* fatal" (config.go): with the endpoint gone for good the process ends.
OutageEnds == ~endpoint ~> Gone
=============================================================================
