---------------------------- MODULE PromCollector ----------------------------
(***************************************************************************)
(* The Prometheus collector, cmd/mq_prometheus: the main loop that keeps   *)
(* one connection to a queue manager, the web server started once that     *)
(* connection exists, and the scrapes the server runs concurrently.  Main  *)
(* loop and scrapes share `mutex`, five atomic flags (status.go), the      *)
(* gauges, the client library's registry and the session kept by mqmetric. *)
(*                                                                         *)
(* Main holds the mutex for a whole reconnection attempt, its sleep after  *)
(* a failure included; a scrape holds it for a whole Collect.  An action   *)
(* below is the code between two points where another goroutine, or the    *)
(* queue manager, can be observed.                                         *)
(***************************************************************************)
EXTENDS Integers, FiniteSets

CONSTANTS
    Scrapers,       \* concurrent HTTP requests for the metrics path
    Hosts,          \* hosts the queue manager may run on (failover)
    Levels,         \* command levels the queue manager may restart with
    Metrics,        \* names of qmgr-level metric families
    MetricsOf,      \* the families a queue manager of each level provides
    HostLevels,     \* the levels with the host_name status attribute (>= 9.3.2)
    KeepRunning,    \* config.keepRunning
    Warnings,       \* MQCONNX may complete with MQCC_WARNING
    CollectRCs,     \* reason codes the MQ calls of a Collect may fail with
    MaxFaults       \* bound on failures that happen while everything is up

ASSUME LevelsAssumption ==
    /\ Levels # {} /\ Hosts # {}
    /\ MetricsOf \in [Levels -> (SUBSET Metrics) \ {{}}]
    /\ HostLevels \subseteq Levels
ASSUME SwitchAssumption == KeepRunning \in BOOLEAN /\ Warnings \in BOOLEAN
ASSUME ReasonAssumption == CollectRCs \subseteq Int /\ 0 \notin CollectRCs
ASSUME FaultAssumption == MaxFaults \in Nat

Main == "main"
Nobody == "nobody"
Dummy == "-"                                  \* mqmetric.DUMMY_STRING
Unlabelled == "unlabelled"
ASSUME NamesAssumption ==
    /\ Scrapers \cap {Main, Nobody} = {}
    /\ Hosts \cap {Dummy, Unlabelled} = {}

MQRC_NONE == 0
\* MQRC_UNEXPECTED_ERROR | MQRC_STANDBY_Q_MGR | MQRC_RECONNECT_FAILED, that is
\* 2195 | 2543 | 2548: the second case of the switch on mqrc
QuitCase == 2559

Running == "running"
Exits == {"0", "1", "10", "30", "panic"}
MainPCs == {"top", "lock", "end", "init", "discover", "allocate", "register",
            "signal", "once", "failed"}
ServerPCs == {"waiting", "starting", "listening", "stopping"}
ScrapePCs == {"idle", "waiting", "publications", "poll", "publish", "replied"}

\* A publication is of the backlog when it reached the reply queue before the
\* first ProcessPublications of its connection
Ages == {"backlog", "recent"}
HostLabels == Hosts \union {Dummy}
SeriesOf == (HostLabels \union {Unlabelled}) \X {0, 1}
Kinds == {"none", "nothing", "error", "down", "data"}
NoReply == [kind |-> "none", pubs |-> {}, status |-> {}]

VARIABLES
    main, exit, mainErr,          \* the main goroutine, the process, its `err`
    mutex,                        \* who holds the package's mutex
    connectedQMgr, connectedOnce, collectorEnd, firstCollection,   \* status.go
    server,                       \* the web server goroutine
    descIDs, dims,                \* the registry: registered families, known labels
    hostLabel,                    \* *supportsHostnameLabelVal
    ruaVec,                       \* values in the gauges for publications
    statusVec,                    \* series in the gauge qmgr_status
    ci, hconns,                   \* mqmetric's session; MQ handles that are open
    values,                       \* elem.Values, filled by ProcessPublications
    hostName, lastHostname,       \* qMgrInfo.HostName; the copy for "qmgr down"
    pollStatus,                   \* local of the Collect that holds the mutex
    scrape, reply,                \* each request's progress and answer
    qmgr, live, pubQ, drained, pollDue, faults           \* the environment

flags == <<connectedQMgr, connectedOnce, collectorEnd, firstCollection>>
registry == <<descIDs, dims>>
gauges == <<hostLabel, ruaVec, statusVec>>
session == <<ci, hconns>>
info == <<values, hostName, lastHostname, pollStatus>>
env == <<qmgr, live, pubQ, drained, pollDue, faults>>
vars == <<main, exit, mainErr, mutex, flags, server, registry, gauges, session,
          info, scrape, reply, env>>

NoSession == [connected |-> FALSE, subs |-> FALSE, host |-> Dummy, level |-> "none"]
Sessions == [connected : BOOLEAN, subs : BOOLEAN, host : HostLabels,
             level : Levels \union {"none"}]

Replies == [kind : Kinds, pubs : SUBSET Ages, status : SUBSET SeriesOf]
QMgrs == [up : BOOLEAN, host : Hosts, level : Levels]

ControlTyped ==
    /\ main \in MainPCs /\ exit \in Exits \union {Running} /\ mainErr \in BOOLEAN
    /\ mutex \in Scrapers \union {Main, Nobody}
    /\ connectedQMgr \in BOOLEAN /\ connectedOnce \in BOOLEAN
    /\ collectorEnd \in BOOLEAN /\ firstCollection \in BOOLEAN
    /\ server \in ServerPCs
DataTyped ==
    /\ descIDs \subseteq Metrics
    /\ dims \in [Metrics -> {"none", "plain", "host"}]
    /\ hostLabel \in BOOLEAN /\ ruaVec \subseteq Ages /\ statusVec \subseteq SeriesOf
    /\ values \subseteq Ages /\ pollStatus \in BOOLEAN
    /\ hostName \in HostLabels /\ lastHostname \in HostLabels
SessionTyped == ci \in Sessions /\ hconns \in Nat
ScrapesTyped ==
    /\ scrape \in [Scrapers -> ScrapePCs]
    /\ reply \in [Scrapers -> Replies]
EnvTyped ==
    /\ qmgr \in QMgrs
    /\ live \in BOOLEAN /\ pubQ \subseteq Ages /\ drained \in BOOLEAN
    /\ pollDue \in BOOLEAN /\ faults \in 0 .. MaxFaults

TypeOK == ControlTyped /\ DataTyped /\ SessionTyped /\ ScrapesTyped /\ EnvTyped

Init ==
    /\ main = "top" /\ exit = Running /\ mainErr = FALSE /\ mutex = Nobody
    /\ connectedQMgr = FALSE /\ connectedOnce = FALSE
    /\ collectorEnd = FALSE /\ firstCollection = FALSE
    /\ server = "waiting"
    /\ descIDs = {} /\ dims = [m \in Metrics |-> "none"]
    /\ hostLabel = FALSE /\ ruaVec = {} /\ statusVec = {}
    /\ ci = NoSession /\ hconns = 0
    /\ values = {} /\ hostName = Dummy /\ lastHostname = Dummy /\ pollStatus = FALSE
    /\ scrape = [s \in Scrapers |-> "idle"]
    /\ reply = [s \in Scrapers |-> NoReply]
    /\ qmgr \in QMgrs
    /\ live = FALSE /\ pubQ = {} /\ drained = FALSE /\ pollDue = FALSE
    /\ faults = MaxFaults

Gone == exit # Running

\* A failure with no cause in the state uses up one of the faults; a failure
\* with a cause (a broken session, a queue manager that is down) does not.
Fails(works) == IF works THEN faults > 0 /\ faults' = faults - 1
                         ELSE UNCHANGED faults

\* Mutant: Collect and the reconnection attempt do not exclude each other
NeverLocked == TRUE
Unlocked == mutex = Nobody

-----------------------------------------------------------------------------
(* The main loop.                                                          *)

\* Each turn starts with err = nil; leaving the loop reports the last err
LoopTop ==
    /\ main = "top"
    /\ IF collectorEnd
       THEN /\ exit' = IF mainErr THEN "10" ELSE "0"
            /\ UNCHANGED <<main, mainErr>>
       ELSE /\ ~connectedQMgr
            /\ main' = "lock" /\ mainErr' = FALSE
            /\ UNCHANGED exit
    /\ UNCHANGED <<mutex, flags, server, registry, gauges, session, info, scrape,
                   reply, env>>

LockMutex ==
    /\ main = "lock" /\ Unlocked
    /\ mutex' = Main /\ main' = "end"
    /\ UNCHANGED <<exit, mainErr, flags, server, registry, gauges, session, info,
                   scrape, reply, env>>

\* Mutants: the session's flag is not looked at; the old connection is left open
DiscAlways == hconns - 1
DiscNever == hconns
\* MQDISC is issued only for a session that knows it is connected
HandlesAfterEnd == IF ci.connected THEN hconns - 1 ELSE hconns

EndConnection ==
    /\ main = "end"
    /\ hconns' = HandlesAfterEnd
    /\ live' = IF ci.connected THEN FALSE ELSE live
    /\ main' = "init"
    /\ UNCHANGED <<exit, mainErr, mutex, flags, server, registry, gauges, ci, info,
                   scrape, reply, qmgr, pubQ, drained, pollDue, faults>>

NewSession(connected) ==
    ci' = [connected |-> connected, subs |-> FALSE,
           host |-> qmgr.host, level |-> qmgr.level]

\* InitConnection replaces the session before it calls MQCONNX.  A connection
\* whose queues cannot be opened stays open until the next EndConnection; one
\* made with a warning is not recorded as connected, yet main goes on with it.
InitConnection ==
    /\ main = "init"
    /\ \/ /\ qmgr.up
          /\ NewSession(TRUE) /\ hconns' = hconns + 1 /\ live' = TRUE
          /\ pubQ' = {} /\ drained' = FALSE
          /\ \/ main' = "discover" /\ UNCHANGED <<faults, mainErr>>
             \/ Fails(TRUE) /\ main' = "failed" /\ mainErr' = TRUE
          /\ UNCHANGED exit
       \/ /\ qmgr.up /\ Warnings /\ Fails(TRUE)
          /\ NewSession(FALSE) /\ hconns' = hconns + 1
          /\ main' = "discover"
          /\ UNCHANGED <<exit, mainErr, live, pubQ, drained>>
       \/ /\ Fails(qmgr.up)
          /\ ci' = NoSession
          /\ main' = "failed" /\ mainErr' = TRUE
          /\ UNCHANGED <<exit, hconns, live, pubQ, drained>>
       \/ /\ Fails(TRUE)                        \* MQRC_STANDBY_Q_MGR
          /\ ci' = NoSession /\ exit' = "30"
          /\ UNCHANGED <<main, mainErr, hconns, live, pubQ, drained>>
    /\ UNCHANGED <<mutex, flags, server, registry, gauges, info, scrape, reply, qmgr,
                   pollDue>>

\* DiscoverAndSubscribe and VerifyConfig (whose warning is not an error)
Discover ==
    /\ main = "discover"
    /\ \/ /\ live /\ ci.connected
          /\ ci' = [ci EXCEPT !.subs = TRUE]
          /\ main' = "allocate"
          /\ UNCHANGED <<mainErr, faults>>
       \/ /\ Fails(live /\ ci.connected)
          /\ main' = "failed" /\ mainErr' = TRUE
          /\ UNCHANGED ci
    /\ UNCHANGED <<exit, mutex, flags, server, registry, gauges, hconns, info,
                   scrape, reply, qmgr, live, pubQ, drained, pollDue>>

\* Mutant: the old collector stays registered
StayRegistered(families) == descIDs
\* The old collector describes itself with the gauges just allocated, so
\* Unregister finds it only if it is registered for exactly these families
Unregister(families) == IF descIDs = families THEN {} ELSE descIDs

\* The families the gauges of this connection are described as
Described == MetricsOf[ci.level]
supportsHostnameLabel == ci.level \in HostLevels

\* allocateAllGauges, and Unregister of the collector of the last connection
Allocate ==
    /\ main = "allocate"
    /\ hostLabel' = supportsHostnameLabel
    /\ ruaVec' = {} /\ statusVec' = {}
    /\ descIDs' = Unregister(Described)
    /\ main' = "register"
    /\ UNCHANGED <<exit, mainErr, mutex, flags, server, dims, session, info, scrape,
                   reply, env>>

LabelsNow == IF hostLabel THEN "host" ELSE "plain"

\* Registry.Register: the label names of a family never change within a process
Registrable(families) ==
    /\ descIDs \cap families = {}
    /\ \A m \in families : dims[m] \in {"none", LabelsNow}

\* Mutant: every registration starts the server
EveryTime == TRUE
\* serverOnce: the server is started by the first registration only
ServerOnce == server = "waiting"

Register ==
    /\ main = "register"
    /\ IF Registrable(Described)
       THEN /\ descIDs' = descIDs \union Described
            /\ dims' = [m \in Metrics |-> IF m \in Described THEN LabelsNow ELSE dims[m]]
            /\ firstCollection' = TRUE /\ connectedQMgr' = TRUE
            /\ IF ServerOnce
               THEN main' = "signal" /\ UNCHANGED mutex
               ELSE main' = "top" /\ mutex' = Nobody
            /\ UNCHANGED exit
       ELSE /\ exit' = "panic" /\ firstCollection' = TRUE
            /\ UNCHANGED <<main, mutex, connectedQMgr, registry>>
    /\ UNCHANGED <<mainErr, connectedOnce, collectorEnd, server, gauges, session,
                   info, scrape, reply, env>>

\* startChannel is not buffered: main waits, mutex held, for the server
StartServer ==
    /\ main = "signal" /\ server = "waiting"
    /\ main' = "once" /\ server' = "starting"
    /\ UNCHANGED <<exit, mainErr, mutex, flags, registry, gauges, session, info,
                   scrape, reply, env>>

ConnectedOnce ==
    /\ main = "once"
    /\ connectedOnce' = TRUE
    /\ main' = "top" /\ mutex' = Nobody
    /\ UNCHANGED <<exit, mainErr, connectedQMgr, collectorEnd, firstCollection, server,
                   registry, gauges, session, info, scrape, reply, env>>

\* Mutants: any failure ends the collector; only the configuration decides
EndOnFailure == TRUE
EndUnlessKept == ~KeepRunning
NoRetry == ~connectedOnce \/ ~KeepRunning

\* A failed attempt ends the collector, or sleeps with the mutex held
AttemptFailed ==
    /\ main = "failed"
    /\ collectorEnd' = (collectorEnd \/ NoRetry)
    /\ main' = "top" /\ mutex' = Nobody
    /\ UNCHANGED <<exit, mainErr, connectedQMgr, connectedOnce, firstCollection, server,
                   registry, gauges, session, info, scrape, reply, env>>

MainStep ==
    \/ LoopTop \/ LockMutex \/ EndConnection \/ InitConnection \/ Discover
    \/ Allocate \/ Register \/ StartServer \/ ConnectedOnce \/ AttemptFailed

-----------------------------------------------------------------------------
(* The web server.                                                         *)

Listen ==
    /\ server = "starting"
    /\ server' = "listening"
    /\ UNCHANGED <<main, exit, mainErr, mutex, flags, registry, gauges, session, info,
                   scrape, reply, env>>

\* ListenAndServe returned: stopServer ends the main loop ...
StopServer ==
    /\ server \in {"starting", "listening"} /\ Fails(TRUE)
    /\ server' = "stopping" /\ collectorEnd' = TRUE
    /\ UNCHANGED <<main, exit, mainErr, mutex, connectedQMgr, connectedOnce,
                   firstCollection, registry, gauges, session, info, scrape, reply,
                   qmgr, live, pubQ, drained, pollDue>>

\* ... and log.Fatalf the process, if main has not done so first
ServerFatal ==
    /\ server = "stopping"
    /\ exit' = "1"
    /\ UNCHANGED <<main, mainErr, mutex, flags, server, registry, gauges, session, info,
                   scrape, reply, env>>

-----------------------------------------------------------------------------
(* The scrapes.                                                            *)

Answer(s, answer) ==
    /\ scrape' = [scrape EXCEPT ![s] = "replied"]
    /\ reply' = [reply EXCEPT ![s] = answer]

\* The handler asks the registry for its collectors before any of them runs
Gather(s) ==
    /\ server = "listening" /\ scrape[s] = "idle"
    /\ IF descIDs = {}
       THEN Answer(s, [NoReply EXCEPT !.kind = "nothing"])
       ELSE scrape' = [scrape EXCEPT ![s] = "waiting"] /\ UNCHANGED reply
    /\ UNCHANGED <<main, exit, mainErr, mutex, flags, server, registry, gauges, session,
                   info, env>>

\* GaugeVec.With(labels).Set(v): one value for each set of labels
SetSeries(vec, label, v) == {p \in vec : p[1] # label} \union {<<label, v>>}
Label(host) == IF hostLabel THEN host ELSE Unlabelled

\* Mutant: a scrape waits for the connection to come back
AwaitConnection(s) == FALSE
\* Collect while disconnected.  qmgr_status is set, not reset
CollectDown(s) ==
    /\ scrape[s] = "waiting" /\ Unlocked /\ ~connectedQMgr
    /\ statusVec' = SetSeries(statusVec, Label(lastHostname), 0)
    /\ Answer(s, [NoReply EXCEPT !.kind = "down", !.status = statusVec'])
    /\ UNCHANGED <<main, exit, mainErr, mutex, flags, server, registry, hostLabel,
                   ruaVec, session, info, env>>

CollectStart(s) ==
    /\ scrape[s] = "waiting" /\ Unlocked /\ connectedQMgr
    /\ mutex' = s
    /\ ruaVec' = {} /\ values' = {}
    /\ scrape' = [scrape EXCEPT ![s] = "publications"]
    /\ UNCHANGED <<main, exit, mainErr, flags, server, registry, hostLabel, statusVec,
                   session, hostName, lastHostname, pollStatus, reply, env>>

\* Mutants: errors are logged only; a broken connection is not seen as an error
AnyError(rc) == TRUE
BrokenIgnored(rc) == rc \in {MQRC_NONE, 2009}
StaysConnected(rc) == rc = MQRC_NONE

\* Any MQ error makes main reconnect: the second case of the switch is the
\* bitwise OR of three reason codes, none of which is equal to it
CollectFails(s) ==
    \E rc \in CollectRCs :
        /\ connectedQMgr' = StaysConnected(rc)
        /\ collectorEnd' = (collectorEnd \/ rc = QuitCase)
        /\ mutex' = Nobody
        /\ Answer(s, [NoReply EXCEPT !.kind = "error"])

\* ProcessPublications reads everything on the reply queue, or fails part-way
CollectPublications(s) ==
    /\ scrape[s] = "publications"
    /\ \/ /\ live
          /\ values' = pubQ /\ pubQ' = {} /\ drained' = TRUE
          /\ scrape' = [scrape EXCEPT ![s] = "poll"]
          /\ UNCHANGED <<mutex, connectedQMgr, collectorEnd, reply, faults>>
       \/ /\ Fails(live)
          /\ values' \in SUBSET pubQ /\ pubQ' = pubQ \ values'
          /\ CollectFails(s)
          /\ UNCHANGED drained
    /\ UNCHANGED <<main, exit, mainErr, connectedOnce, firstCollection, server, registry,
                   gauges, session, hostName, lastHostname, pollStatus, qmgr, live,
                   pollDue>>

\* CollectQueueManagerStatus learns the host only from levels that report it
StatusHost == IF ci.level \in HostLevels THEN ci.host ELSE Dummy

\* Mutant: only the interval decides, also on a new connection
PollByTimer == pollDue
PollNow == pollDue \/ firstCollection

\* lastPoll is moved on, and the gauges reset, before the object types are
\* inquired one after the other; the first failure ends the Collect
CollectPoll(s) ==
    /\ scrape[s] = "poll"
    /\ pollStatus' = PollNow
    /\ pollDue' = (pollDue /\ ~pollStatus')
    /\ statusVec' = IF pollStatus' THEN {} ELSE statusVec
    /\ \/ /\ pollStatus' => live
          /\ hostName' = IF pollStatus' THEN StatusHost ELSE hostName
          /\ scrape' = [scrape EXCEPT ![s] = "publish"]
          /\ UNCHANGED <<mutex, connectedQMgr, collectorEnd, reply, faults>>
       \/ /\ pollStatus' /\ Fails(live)
          /\ hostName' \in {hostName, StatusHost}
          /\ CollectFails(s)
    /\ UNCHANGED <<main, exit, mainErr, connectedOnce, firstCollection, server, registry,
                   hostLabel, ruaVec, session, values, lastHostname, qmgr, live, pubQ,
                   drained>>

\* Mutant: the first collection is published like any other
AllValues == values
Publishable == IF firstCollection THEN {} ELSE values

\* The gauges for object status keep their values until the next poll
StatusShown == IF pollStatus THEN SetSeries(statusVec, Label(hostName), 1) ELSE statusVec

\* Rediscovery (its errors are ignored) and the setting of the gauges.  The
\* first collection of a connection publishes no value of a publication.
CollectPublish(s) ==
    /\ scrape[s] = "publish"
    /\ firstCollection' = FALSE
    /\ ruaVec' = Publishable
    /\ lastHostname' = IF hostLabel /\ ruaVec' # {} THEN hostName ELSE lastHostname
    /\ statusVec' = StatusShown
    /\ mutex' = Nobody
    /\ Answer(s, [NoReply EXCEPT !.kind = "data", !.pubs = ruaVec', !.status = statusVec'])
    /\ UNCHANGED <<main, exit, mainErr, connectedQMgr, connectedOnce, collectorEnd, server,
                   registry, hostLabel, session, values, hostName, pollStatus, env>>

Respond(s) ==
    /\ scrape[s] = "replied"
    /\ scrape' = [scrape EXCEPT ![s] = "idle"]
    /\ reply' = [reply EXCEPT ![s] = NoReply]
    /\ UNCHANGED <<main, exit, mainErr, mutex, flags, server, registry, gauges, session,
                   info, env>>

EnterCollect(s) == CollectDown(s) \/ CollectStart(s)
InsideCollect(s) == CollectPublications(s) \/ CollectPoll(s) \/ CollectPublish(s)
ScrapeStep(s) == Gather(s) \/ EnterCollect(s) \/ InsideCollect(s) \/ Respond(s)

-----------------------------------------------------------------------------
(* The queue manager and the clock.                                        *)

Unaffected == <<main, exit, mainErr, mutex, flags, server, registry, gauges, session,
                info, scrape, reply>>

QMgrStops ==
    /\ qmgr.up /\ Fails(TRUE)
    /\ qmgr' = [qmgr EXCEPT !.up = FALSE]
    /\ live' = FALSE /\ pubQ' = {}
    /\ UNCHANGED <<Unaffected, drained, pollDue>>

\* Restart or failover: another host, or another level after an upgrade
QMgrStarts ==
    /\ ~qmgr.up
    /\ qmgr' \in [up : {TRUE}, host : Hosts, level : Levels]
    /\ UNCHANGED <<Unaffected, live, pubQ, drained, pollDue, faults>>

ConnectionBreaks ==
    /\ live /\ Fails(TRUE)
    /\ live' = FALSE /\ pubQ' = {}
    /\ UNCHANGED <<Unaffected, qmgr, drained, pollDue>>

QMgrPublishes ==
    /\ live /\ ci.subs
    /\ pubQ' = pubQ \union {IF drained THEN "recent" ELSE "backlog"}
    /\ UNCHANGED <<Unaffected, qmgr, live, drained, pollDue, faults>>

PollIntervalElapses ==
    /\ ~pollDue /\ pollDue' = TRUE
    /\ UNCHANGED <<Unaffected, qmgr, live, pubQ, drained, faults>>

EnvStep == QMgrStops \/ QMgrStarts \/ ConnectionBreaks \/ QMgrPublishes
           \/ PollIntervalElapses

-----------------------------------------------------------------------------
ProcessGone == Gone /\ UNCHANGED vars

Next ==
    \/ ~Gone /\ (MainStep \/ Listen \/ StopServer \/ ServerFatal
                 \/ (\E s \in Scrapers : ScrapeStep(s)) \/ EnvStep)
    \/ ProcessGone

Spec == Init /\ [][Next]_vars

\* The goroutines keep running, and sync.Mutex hands itself to a goroutine
\* that has waited for more than a millisecond: strong fairness of the two
\* actions that take it.  Responses are read by their clients.
CodeFairness ==
    /\ WF_vars(~Gone /\ MainStep) /\ SF_vars(~Gone /\ LockMutex)
    /\ WF_vars(~Gone /\ Listen) /\ WF_vars(~Gone /\ ServerFatal)
    /\ \A s \in Scrapers :
          /\ SF_vars(~Gone /\ EnterCollect(s))
          /\ WF_vars(~Gone /\ (InsideCollect(s) \/ Respond(s)))

\* What the deployment adds: queue managers are restarted, and Prometheus
\* keeps scraping
EnvFairness ==
    /\ WF_vars(~Gone /\ QMgrStarts)
    /\ \A s \in Scrapers : WF_vars(~Gone /\ Gather(s))

FairSpec == Spec /\ CodeFairness

-----------------------------------------------------------------------------
(* Properties.                                                             *)

InCollect(s) == scrape[s] \in {"publications", "poll", "publish"}
InAttempt == main \in MainPCs \ {"top", "lock"}

\* The mutex protects what it is meant to: a Collect past its first lines, or
\* a reconnection attempt, is the only one, and holds the mutex.
MutexProtects ==
    /\ InAttempt <=> mutex = Main
    /\ \A s \in Scrapers : InCollect(s) <=> mutex = s

\* "Always ignore the first loop through as there might be accumulated stuff
\* from a while ago" (exporter.go): no answer carries a value of a publication
\* that was waiting when its connection's publications were first read,
\* whatever errors and reconnections came in between.
NoBacklogPublished == \A s \in Scrapers : "backlog" \notin reply[s].pubs

\* Each attempt closes the connection of the one before: a reconnecting
\* collector never holds two queue manager connections.
OneConnection == hconns <= 1

\* With keepRunning, a collector that was connected once ends its main loop
\* for no other reason than the loss of its web server; and it reports
\* success only then.
KeepsRunning ==
    /\ collectorEnd \/ exit \in {"0", "10"} =>
          server = "stopping" \/ ~connectedOnce \/ ~KeepRunning
    /\ exit = "0" => server = "stopping"

\* Whoever holds the mutex is not waiting for it, and waits for nobody else:
\* main sends on the unbuffered startChannel only while the server's goroutine
\* waits for that.
HolderNeverStuck ==
    /\ mutex = Main => main # "lock" /\ (main = "signal" => server = "waiting")
    /\ \A s \in Scrapers : mutex = s => InCollect(s) /\ server # "waiting"

\* Registering the collector of a new connection never panics.
NoPanic == exit # "panic"

\* The answer to a scrape while connected always shows qmgr_status, once, as
\* running, under the host of the connection in use, whether or not this
\* scrape polled for it: never a status, or the "down" value, of an earlier
\* connection.
DataShowsStatus ==
    [][\A s \in Scrapers :
          reply[s].kind = "none" /\ reply'[s].kind = "data" =>
              reply'[s].status =
                  {<<IF ci.level \in HostLevels THEN ci.host ELSE Unlabelled, 1>>}]_vars

\* While a Collect runs, main neither replaces the session, the gauges or the
\* registered collector under it nor declares the queue manager connected.
CollectUndisturbed ==
    [][\A s \in Scrapers : InCollect(s) /\ InCollect(s)' =>
          UNCHANGED <<session, registry, hostLabel, connectedQMgr, firstCollection>>]_vars

\* Every scrape that reached the collector is answered, even one that waits
\* behind a series of failing reconnection attempts.
EveryScrapeAnswered ==
    \A s \in Scrapers : scrape[s] = "waiting" ~> (scrape[s] = "replied" \/ Gone)

\* A collector whose first connection fails, or that is not to keep running,
\* does not stay around after a failed attempt: the process ends.
FailureEnds == (main = "failed" /\ (~connectedOnce \/ ~KeepRunning)) ~> Gone

\* When failures stop, a collector that keeps running and is being scraped is
\* in the end connected to the queue manager for good, by a connection that
\* works: it is a scrape that notices that a connection is broken.
Reconnects == EnvFairness => <>[](Gone \/ (connectedQMgr /\ live))

\* The promise to the clients, and how this module's state shows it.
ServicePhase ==
    IF Gone THEN "ended"
    ELSE IF connectedQMgr THEN "up"
    ELSE IF server = "waiting" THEN "starting" ELSE "down"

RequestState(s) ==
    CASE scrape[s] = "idle" -> "none"
      [] scrape[s] = "replied" -> reply[s].kind
      [] OTHER -> "accepted"

Promise == INSTANCE ScrapeService WITH
    Clients <- Scrapers,
    phase <- ServicePhase,
    request <- [s \in Scrapers |-> RequestState(s)]

\* Every behaviour of the collector is one the clients were promised.
KeepsPromise == Promise!Service
=============================================================================
