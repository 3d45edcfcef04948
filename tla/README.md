# Formal models of the IBM MQ metric collectors

This directory holds TLA+ models of the programs of `mq-metric-samples`, the
TLC configurations that check them on small instances, and proofs, checked by
TLAPS, of the properties that hold for every instance. Paths below are relative
to the repository (`src/`); `PROJECT.json` maps every definition to the lines it
models, and lists the hazards at the lines where they bite.

## 1. Inventory

The repository holds three *collectors*, which differ in how values leave the
program, and two tools. All use the vendored library `mq-golang/v5`
(`ibmmq`, the MQI, and `mqmetric`, discovery and collection).

| Component | State it keeps | Operations | Talks to |
|---|---|---|---|
| `cmd/mq_prometheus/main.go` (main loop, web server) | position in the loop, `err`, `mutex`, `startChannel`, `serverOnce` | connect, discover, allocate, register, start server, retry or give up | mqmetric, registry, flags; the server goroutine through `startChannel` |
| `cmd/mq_prometheus/exporter.go` (scrapes) | the gauge maps, `lastPoll`, `lastQueueDiscovery`, `lastHostname`, `supportsHostnameLabelVal` | `Describe`, `Collect`, `allocateAllGauges` | called by the registry, on one goroutine for each HTTP request; mqmetric |
| `cmd/mq_prometheus/status.go` | atomic flags `connectedQMgr`, `connectedOnce`, `collectorEnd`, `firstCollection`, `collectorSilent` | one setter and getter each | main loop, scrapes, server |
| `client_golang` registry (vendored) | registered descriptors, label names known for each family | `Register`, `Unregister`, `Gather` | calls `Describe` and `Collect` |
| `cmd/mq_otel/main.go` | `totalErrorCount`, `err` | set-up, cycle of `GetMetrics` / `Collect` / `Export` / sleep | reader, SDK, exporter, signals |
| `cmd/mq_otel/reader.go` | `first`, `lastPoll`, `lastQueueDiscovery`, `counterMap`, `gaugeMap` | `GetMetrics`, `addMetric`, `observe` | mqmetric, SDK (callbacks) |
| OpenTelemetry SDK (vendored) | aggregated deltas | `Add`, `Collect`, `Export` | endpoint |
| `cmd/mq_json/main.go` | none | connect, discover, endless loop | exporter |
| `cmd/mq_json/exporter.go` | `first`, `AllPoints`, `lastPoll` | `Collect`, `chunk` | mqmetric, standard output |
| `pkg/errors` | count of consecutive failed polls | `HandleStatus` | called by mq_otel and mq_json |
| `pkg/config`, `*/config.go` | configuration | defaults, YAML, environment, flags, verification | everything, read only after start |
| mqmetric connection (`mqif.go`) | `connectionInfo`: handles, `qmgrConnected`, subscriptions | `InitConnection`, `EndConnection` | queue manager |
| mqmetric publications (`discover.go`) | classes, types, elements and their `Values`; known queues | `DiscoverAndSubscribe`, `RediscoverAndSubscribe`, `ProcessPublications` | reply queue |
| mqmetric object status (`status.go`, `qmgr.go`, `queue.go`, `channel.go`, ...) | `Values` and `prevValues` of each attribute | `Collect...Status` | command and status reply queue |
| `amqsevtg` | open objects, `endProgram`, `firstEvent` | start, event callback, formatting, end | queue manager's callback thread, OTLP logs |
| `dspmqrtj` | `activityMap`, `highestActivity`, `seenDiscard` | put the trace message, read replies, print | reply queue |
| deployment (`Dockerfile`, `scripts`, `cp4i`) | none of the program's | build and run | - |

What is hard, and the properties that make each part correct:

* **mq_prometheus** is the concurrent program. HTTP requests run `Collect` on
  goroutines of their own while the main loop reconnects; they share the mutex,
  five flags, the gauges, the registry and mqmetric's session. A queue manager
  may stop, fail over to another host, or come back upgraded, at any moment.
  Correct means: a `Collect` and a reconnection exclude each other; a connection
  is not leaked by a failed attempt; the backlog of a new connection is not
  published; an answer shows the state of one connection; the process ends only
  for the reasons it documents; every scrape is answered; the collector gets
  back to a working connection.
* **mq_otel** is sequential, but its cycle has many stages, each of which can
  fail after the stages before it have consumed or changed something, and two
  error counts which are reset at different places. Correct means: each
  published delta is counted once; a counter does not exceed the truth; exported
  gauges are fresh; failures that last end the process.
* **mq_json** has the same cycle, with an array of points that outlives a cycle
  and a poll that happens in some cycles only. Correct means: everything read is
  reported, in blocks of a limited size; nothing is reported twice; polls that
  fail for good end the program, and nothing else does.
* **mqmetric** is a request/reply client over queues, with timeouts and late
  replies, and turns running totals into deltas. Correct means: a reply is never
  taken for one to another request; a delta belongs to one instance; a partial
  failure leaves usable state.
* **amqsevtg**: callbacks of the MQ client change variables that main polls
  without synchronisation. Correct means: it ends when all queues are drained,
  and the JSON array is well-formed.
* **dspmqrtj**: replies arrive late, out of order or not at all. Correct means:
  the wait ends, not before the route is known if the replies do arrive.

## 2. Modules

| Module | What it is |
|---|---|
| `PromCollector` | mq_prometheus: main loop, web server, concurrent scrapes, registry, session, queue manager |
| `ScrapeService` | what mq_prometheus promises its clients: an abstract specification without goroutines, locks or MQ |
| `MCPromCollector` | constants of PromCollector for TLC |
| `OtelCollector` | mq_otel: main loop, reader, SDK, `pkg/errors` |
| `CounterDelivery` | what mq_otel promises about the counter of a published value: an abstract specification of where the amounts are, without polls, SDK or errors |
| `MCOtelCollector` | OtelCollector in deployments made by `Config`; the checks of `Config` |
| `JsonCollector` | mq_json: main loop, exporter, `pkg/errors` |
| `EventMonitor` | amqsevtg: main, the callback of the MQ client, the deferred calls |
| `TraceRoute` | dspmqrtj: tracer messages and the activity reports about them |
| `MCTraceRoute` | routes for TLC |
| `Config` | `pkg/config` and the `config.go` of the collectors: what a parameter is in the end |
| `PromCollector_proofs`, `PromPromise_proofs`, `PromStatus_proofs` | TLAPS proofs about PromCollector: types, mutex, connections, backlog; that it implements ScrapeService; the status it shows, and its registry |
| `OtelCollector_proofs`, `JsonCollector_proofs`, `EventMonitor_proofs`, `TraceRoute_proofs`, `Config_proofs` | TLAPS proofs about these modules |

`PromCollector` instantiates `ScrapeService` (as `Promise`) with a refinement
mapping, and `OtelCollector` instantiates `CounterDelivery` (as `Delivery`);
`MCOtelCollector` composes `OtelCollector` with `Config`: a deployment
is what `Effective` makes of what the environment, the command line and the YAML
file say. The proof modules extend the module they are about. The five programs
do not interact with each other. Where they use the same library operation, each
module has what it sees of it.

### PromCollector

`main` is the place in the loop of `main.go:94-212`. An action is the code
between two points at which another goroutine, or the queue manager, can be
observed: taking the mutex, each call that talks to the queue manager, each
write of a flag another goroutine reads without the mutex.

| Code | Model |
|---|---|
| `main.go:94-101`, loop condition and `mutex.Lock` | `LoopTop`, `LockMutex` |
| `EndConnection`, `InitConnection` and its errors | `EndConnection`, `InitConnection` |
| `DiscoverAndSubscribe`, `VerifyConfig` | `Discover` |
| `allocateAllGauges`, `Unregister` | `Allocate` |
| `MustRegister`, flags, `serverOnce`, `startChannel` | `Register`, `StartServer`, `ConnectedOnce` |
| give up, or sleep with the mutex held | `AttemptFailed` |
| `startServer`, `stopServer`, `log.Fatalf` | `Listen`, `StopServer`, `ServerFatal` |
| `Registry.Gather`, `Collect` | `Gather`, `CollectDown`, `CollectStart`, `CollectPublications`, `CollectPoll`, `CollectPublish`, `Respond` |
| queue manager, network, clock | `QMgrStops`, `QMgrStarts`, `ConnectionBreaks`, `QMgrPublishes`, `PollIntervalElapses` |

The gauges are reduced to one for publications (`ruaVec`, which holds the *age*
of the publications its values came from) and to `qmgr_status` (`statusVec`,
series of a host label and a value), the one gauge that is set both while
connected and while not. The registry is the set of registered families and the
label names known for each, because those decide whether registration panics.
`hconns` counts the queue manager connections that are open, and is what tells a
leaked one; `ci` is what mqmetric believes about its session, `live` whether it
works. `PollIntervalElapses` is the clock. An MQ call fails either because the
state says so (a broken session, a queue manager that is down) or by using up
one of `MaxFaults` failures without a cause.

### OtelCollector

One goroutine; `pc` walks through the stages of a cycle.

| Code | Model |
|---|---|
| `main.go:133-235`, `reader.go:348-358` (first pass) | `Startup`, `NotFirst` |
| `reader.go:186-237`, `ProcessPublications` | `ReadPublications` |
| `reader.go:239-329`, the `Collect...Status` calls, `HandleStatus` | `SkipPoll`, `PollObjects`, `PollStatus` |
| `reader.go:330-346`, its error assigned to the same `err` | `Rediscover` |
| `reader.go:348-855`, `addMetric`, `observe`, eviction | `Report` |
| `metricReader.Collect`, `exporter.Export`, the count of errors, sleep | `Collect`, `Export`, `Judge`, `Sleep` |
| queue manager, channel, endpoint, signal, clock | `QMgrPublishes`, `ChannelMovesMessage`, `ChannelRestarts`, `ConnectionBreaks`, `EndpointLost`, `Interrupt`, `PollBecomesDue` |

The data is one counter published by the queue manager with a gauge next to it,
and one channel with a message count (turned into a delta by mqmetric) and a
gauge. The variables `produced`, `backlog`, `exported`, `lost` and `chlFresh` are
history variables: no action's guard reads them, except that `produced` bounds
the environment.

### JsonCollector

One goroutine. A *point* is its object, the kinds of values it holds and whether
they were read in this cycle. Go iterates maps in an unspecified order; the
model uses one order for each set, which no property depends on. The map
`ptMapStats` of statistics events is left out: it is appended to the array like
`ptMapPub`. `badPolls` is a history variable.

| Code | Model |
|---|---|
| `main.go:88-173` | `Startup`, `Sleep` |
| `exporter.go:71-112` | `ReadPublications` |
| `exporter.go:114-213` | `PollQueues`, `PollChannels`, `SkipPoll`, `HandleStatus` |
| `queue.go:199-213`, `channel.go:236-252`: the loops over patterns keep the last error only | `EarlierPatternFails` |
| `exporter.go:219-696`: `ptMap`, `ptMapPub`, `AllPoints` | `MakePoints` |
| `exporter.go:698-788`: printing, `chunk` | `PrintReport`, `chunk`, `EndCollect` |

### EventMonitor

Two threads: `pc` is where `mainWithRc` is, `step` where a running callback is.
The steps are cut wherever one thread touches what the other reads without
synchronisation: `endProgram`, `firstEvent`, `separator`, the standard output.

| Code | Model |
|---|---|
| `amqsevtg.go:146-335`: Connx, CrtMH, Open or Sub, CB, Ctl, each followed by a `defer` | `Connect`, `CreateHandle`, `OpenObject`, `Register`, `Start`; `deferred` is the stack of deferred calls |
| `amqsevtg.go:341-351`: wait loop, goroutine for ENTER | `SeeEnd`, `PressEnter` |
| `amqsevtg.go:353-372`: read `firstEvent`, then print the bracket | `DecideClosure`, `CloseArray` |
| `amqsevtg.go:377-418` and the end of `main` | `Unwind`, `Exit` |
| `stopCB`, which ignores the error of MQOP_STOP | `StopCallbacks` |
| `otel.go:91-96`, which ignores the errors of `ForceFlush` and `Shutdown` | `ShutdownOTel`: any number of the records left is exported, the others are dropped |
| `callback.go:38-141` | `MessageRemoved`, `NoMessage`, `TroubleReported` |
| `callback.go:145-294` | `FormatEvent`, `SetFirstEvent`, `PrintEvent` |
| the batch processor of `otel.go:153-163` | `BatchLeaves`: exports some of its records, or drops them |
| the MQ client | `CanCall`: callbacks started, none running, the object registered |
| the queue manager | `MessageArrives`, `ConnectionBreaks`, `TroubleBegins` (quiescing, a changed object: messages may still come) |

If MQOP_STOP fails the callbacks go on while main closes what it opened: what
gives resources back fails then, and the callback may run until the process is
gone. `taken`, `reported`, `dropped`, `idle` and `stopFailed` are history
variables. How often records are dropped is not bounded.

### TraceRoute

One thread; what is not is the network: `reports` is the set of activity reports
that were sent and not read, of any message, and a read takes any of them. A
report that is lost is one that is never taken. Positions (`recordedActivities`),
the branches of a publication, the discard and its feedback stand for what a
report says. A tracer message goes to its destination on each branch, or is
discarded anywhere before: at its limit of activities (`MQIACF_MAX_ACTIVITIES`,
`tracert.go:233-244`), or because it could not be delivered (`MQRO_DISCARD_MSG`,
line 185). Either way the last report tells of a discard; only its feedback, which
the code copies into the output and does not look at, says which it was.

| Code | Model |
|---|---|
| `main.go:40-90` | `SetUp`, `NextMessage` |
| `tracert.go:70-104`: start of a message, loop of reads | `BeginTrace`, `NotSetUp`, `AfterMessage` |
| `tracert.go:121-323` | `PutTestMessage`, `PutMessage` |
| `hConn.Back()`, its error ignored (lines 135 and 301, `main.go:103`) | `Back`: `uow` is emptied, or stays and is committed with what comes next |
| the queue managers | `TracesAhead`, `Reported` |
| `tracert.go:90-115, 363-581`, `addActivity` | `GetReport`, `GetOther`, `NoReport`, `GetFails` |
| `main.go:93-174` | `PrintSummary`, `Shutdown`, `Disconnect` (MQDISC commits) |

`backFailed`, `committed`, `read`, `ended` and what `summaries` has besides the
three outcomes are history variables.

### Config

Operators only: a parameter is a record of how it is declared (`Parm`), and a
source a record of what the environment, the command line and the file say of
it. `Effective` is `InitConfig`, `ParseParms`, the YAML copy and the filling in
of what is left empty, one after the other. Texts are reduced to their kinds;
absent, empty and mistyped texts are told apart, because the code does.

## 3. Runs

| Run | Property | What it shows |
|---|---|---|
| `PromCollector` (284,716 states) | `TypeOK` | types; in particular `hconns` never goes below 0: no double MQDISC |
| | `MutexProtects` | a reconnection attempt and the Collects exclude each other, and whoever works holds the mutex |
| | `CollectUndisturbed` | main does not change session, registry or flags under a running Collect |
| | `NoBacklogPublished` | no answer carries a value of the backlog, whatever errors and reconnections came in between |
| | `OneConnection` | a failed attempt's connection is closed by the next attempt |
| | `KeepsRunning` | with keepRunning, after a first connection, only the loss of the web server ends the loop |
| | `NoPanic` | as long as the command level stays the same, registration after a failover works |
| | `HolderNeverStuck` | whoever holds the mutex can go on: main sends on `startChannel` only to a server that waits for it |
| | `DataShowsStatus` | an answer with data shows `qmgr_status` once, as running, for the host in use |
| | `KeepsPromise` | the collector implements `ScrapeService` |
| `PromLiveness` (39,418 states) | `EveryScrapeAnswered` | scrapes do not starve behind reconnection attempts that hold the mutex |
| | `FailureEnds` | a failure that should end the process does |
| | `Reconnects` | once failures stop, a scraped collector gets a working connection for good |
| `PromUpgrade` | `NoPanic` | *violated*: another command level after a restart |
| `OtelCollector` (546,805 states) | `TypeOK`, `PublishedCountedOnce` | deltas are conserved through failures of any stage, in what was exported, what waits and what is known to be lost |
| | `GaugesFreshUnlessRediscovered` | exported gauges are of their cycle when nothing is rediscovered |
| | `DeliversAsPromised` | mq_otel implements `CounterDelivery`: an export delivers, or drops, all that was taken since the one before |
| | `BrokenEnds`, `OutageEnds` | a lost connection, or a lost endpoint, ends the process |
| | the assumptions of `MCOtelCollector` | every parameter in every combination of sources: the README's order of precedence, and where it does not hold; `VerifyConfig` |
| `OtelCounter` | `NeverOvercounts` | *violated*: stale deltas are added again after a poll that failed early |
| `OtelStale` | `GaugesFresh` | *violated*: a rediscovery hides the error of a poll |
| `JsonCollector` (1,762,215 states) | `TypeOK`, `ReportsEverything`, `PolledReportIsOwn`, `FreshAfterGoodPoll`, `EndsForCause` | reports are complete and split correctly; a polling report repeats no publication, and one after a poll that worked repeats nothing; only the fourth failed poll in a row ends the program |
| `JsonEnds` | `FailedPollsEnd` | *violated*: cycles without a poll reset the count |
| `JsonInterval` | `OnlyThisInterval` | *violated*: reports between polls repeat earlier points |
| `EventMonitor` (170,882 states) | `TypeOK`, `ArrayInOrder`, `ClosedIfQuiet` | the array opens before the first event and every other event has its comma, in spite of the races; the closing bracket is right if no callback runs |
| | `NothingLost` | an event taken from its queue is printed before the program is gone, or reaches the OTel SDK in time for its flush, and what is missing then was dropped by the SDK; unless MQOP_STOP failed |
| | `CleanupInOrder` | the deferred calls undo a set-up that stopped anywhere, in an order MQ accepts |
| | `EndsWhenIdle`, `IdleEnds` | the program ends itself when all objects were idle, not before, and does end |
| | `TroubleEnds` | a broken connection, or other trouble with one that still delivers, ends it |
| `TraceRoute` (208,587 states) | `TypeOK`, `TestGoesNowhere` | neither the test message nor one to a local queue is in a unit of work that is committed, by MQDISC either, unless the last MQBACK failed |
| | `AllTestedUnlessFirstFails` | every message is tested, whatever fails, if the first could be put |
| | `RouteComplete` | a wait that ends by its count has the whole way of the tracer, to its destination or its discard, in any order of reports |
| | `SummariesTell` | each summary tells success, failure or an error; the first one tells success if an arrival was reported; success was reported, or is a discard on the way that the code takes for it |
| | `WaitEnds` | the wait ends |
| `TracePanic` | `AllTested` | *violated*: after a first message that cannot be put, the second is a nil pointer |

The violated properties are quoted from the repository's comments and READMEs;
`PROJECT.json` "findings" has the quotations and what happens in the code.

### Bounds, and why they are enough

* Two scrapes: what a scrape can meet is the main loop, another scrape, or one
  after another; a third has no state of its own beyond its place. The proofs
  remove the bound for the invariants. Symmetry over scrapes and hosts is used
  in the safety run only, where both are interchangeable; not under liveness.
* Two hosts: a failover is one change of host, a stale host is one that differs.
  One command level in the main run, because a change of level panics
  (`PromUpgrade` has two).
* `MaxFaults = 2` allows a failure during the recovery from another; a second
  reconnection while the values of the first are still around needs no more.
  Failures with a cause (calls on a broken session) are not counted.
* `KeepRunning = TRUE` in all runs. Without it a failed attempt ends in the branch
  that the failure before the first connection takes (`NoRetry`), which the runs
  have; the safety theorems are about both values. `PromLiveness` has connections
  with a warning (`Warnings`); that they leak a handle is not what its
  properties are about (section 5).
* mq_otel: `MaxErrors = 1` and `MaxCount = 1` (two in `OtelCounter`, whose
  counterexample needs them) reach every combination of the stages of two
  consecutive cycles; the number of cycles is not bounded. Lasting failures
  (`connected`, `endpoint`) cost no fault, so the limits of the counts are
  reached; `MaxFaults = 2` allows two passing ones on top. The two deployments of
  the passing run are the extremes: publications without rediscovery, and status
  only with it. The proofs cover all of them, and every number of messages: that an
  export takes what several failed cycles left, together, is in the proof of
  `DeliversAsPromised` and needs no larger run.
* mq_json: two queues, one channel and blocks of two give full, short and
  several blocks. `MaxFaults = 5` is more than the four failures the limit takes.
  `MaxPoints = 5` bounds the array, which otherwise grows without limit as long
  as no poll is due: a poll is due once there are that many points.
* amqsevtg: two objects tell "some active" from "none"; of two messages one is the
  event at the bracket and the other comes after it, before or while main ends, from
  the same object or the other. ENTER, trouble with and without a broken connection,
  a failing MQOP_STOP and a failure of any set-up step may happen in all runs. The
  proofs have any number of objects and messages.
* dspmqrtj: two messages let late reports of the first, and what a failed MQBACK
  left in the unit of work, meet the second; routes of up to three activities, cut
  anywhere; limits of none, less than a route and more than it;
  a publication whose shorter branch ends where the longer goes on; one message
  of another format.

`CHECK_DEADLOCK` stays on: a process that ended stutters explicitly
(`ProcessGone`), so a deadlock of goroutines would be found.

### Fairness

* Weak fairness of the main loop, the server and the steps of a Collect: they
  are goroutines that keep running and, past their locks, wait for nothing but
  calls that return.
* Strong fairness of the actions that take the mutex (`LockMutex`,
  `EnterCollect`): `sync.Mutex` passes to its starvation mode, where it is handed
  over first-come first-served, once a goroutine has waited for a millisecond;
  main sleeps for seconds with the mutex held.
* `ServerFatal` and `Listen` are weakly fair: code of a running goroutine. No
  failure, and no step of the queue manager, is fair.
* `Reconnects` alone assumes `EnvFairness`, inside the property: a stopped queue
  manager is started again, and Prometheus keeps scraping. Without scrapes the
  collector would not notice a broken connection; this is how it is built.
* `OtelCollector` and `JsonCollector`: weak fairness of the loop, and strong
  fairness of a sleep after which a poll is due: the poll interval elapses again
  and again, whatever it is compared with the interval of the loop.
* `EventMonitor`: weak fairness of main and of a running callback. Of the MQ client,
  strong fairness of the invocation for each object (it delivers what there is, and
  tells again and again that a wait interval is over), because a callback for the
  other object disables it for a moment; and, apart from that, of its event call when
  there is trouble, so that messages that go on do not keep it from being reported.
  Neither ENTER nor the batch processor is fair.
* `TraceRoute`: weak fairness of the program, whose MQGET has a wait interval; not of
  its failure.

## 4. Proofs

The theorems hold for every value of the constants under the named assumptions
of the modules, which say no more than their types (and, for `PromCollector`,
that no host is called like a dummy; for `JsonCollector`, that the sets of
objects are finite). TLC evaluates these assumptions in the runs.

### PromCollector

Any set of scrapers, hosts, levels and families, any number of faults, both
values of the switches.

| Theorem | Property | Argument |
|---|---|---|
| `TypeCorrect` | `TypeOK` | `TypeInv` = `TypeOK` with two facts typing rests on: a session that knows it is connected holds a handle (so that the count does not go below 0), and the families are looked up for a real level |
| `MutualExclusion` | `MutexProtects` | inductive with `TypeInv`: main gets the mutex only when nobody has it, and moves in or out of its attempt in the same step |
| `Undisturbed` | `CollectUndisturbed` | from `MutexProtects`: a step of main in its attempt has the mutex, so no Collect is running; other scrapes cannot be in theirs |
| `AtMostOneConnection` | `OneConnection` | `HandleIsSession`: the number of handles is 1 exactly if the session is recorded as connected, except between MQDISC and MQCONNX. Assumes that no MQCONNX completes with a warning: such a handle is not recorded and is leaked |
| `EndsWithServer` | `KeepsRunning` | `EndsForCause`: `collectorEnd` is set by a failing server, or by main in a failed attempt after which it is at the top of its loop with `mainErr` set. Assumes that no MQ call fails with 2559, the bitwise OR in the second case of the switch |
| `BacklogNeverPublished` | `NoBacklogPublished` | `BacklogInv`: a connection that is in use and not drained has `firstCollection` set; backlog in `values` implies `firstCollection`; so the publishing step of that Collect leaves it out. Needs `MutexProtects`: otherwise another scrape could clear the flag in between |
| `SendMeetsServer` | `HolderNeverStuck` | `Handshake`: main is at the send only for the first registration, when the server has not received; and before that no scrape exists that could hold the mutex |
| `DataShowsConnection` | `DataShowsStatus` | `StatusInv`: while connected, the gauges have the label of the session's level (`LabelMatches`); `qmgr_status` has the one series of this connection since its first poll, or a poll is still to come before the next answer (`StatusKept`, `StatusPolled`), because the first collection of a connection polls (`FirstPolled`). Needs the mutex: a reconnection between poll and publishing would mix two connections |
| `RegistrationNeverPanics` | `NoPanic` | `RegistryInv`: what is registered, and the labels known for each family, are those of one of the levels (`RegistryKnown`, `LabelsKnown`), so `Unregister` finds the old collector (`RegistryFree`). Assumes `SameOnEveryLevel`: all levels provide the same families, and all or none report the host. The finding of `PromUpgrade` is a violation of just this |
| `PromiseKept` | `KeepsPromise` | `AllInv` (types, mutex, `ConnectedWhenUsed`, `ServiceInv`) is inductive, and each action maps to an action of `ScrapeService` or to a stutter |
| `AnsweredAsPromised` | | an invariant of `ScrapeService`, which the collector has through `PromiseKept`: requests have the service's answers only, and there is none before the queue manager was first reached |

### OtelCollector

| Theorem | Property | Argument |
|---|---|---|
| `TypeOKTheorem` | `TypeOK` | `TypeInv` adds `BelowLimits` (a running process is below the limits of its counts, so one more error stays within their type) and `Evictions` (no gauge is left without a key when the SDK collects) |
| `CountedOnceTheorem` | `PublishedCountedOnce` | conservation is inductive with `Places`: the first cycle has no backlog before it reads one and ends in its report, and what the SDK collected is held for the export only |
| `DeliveryTheorem` | `DeliversAsPromised` | with `CountedOnceTheorem`'s invariant and `NothingLeft` (at an export the SDK holds nothing that is not in it) each action maps to an action of `CounterDelivery` or to a stutter |
| `ErrorsKeptTheorem` | `GaugesFresh` | `GaugesOfCycle`: in each stage, the gauges that are set are of this cycle, or the poll they miss has left its error in `err` (`StatusKnown`). Assumes of the behaviour that no rediscovery replaces an error by its own success (`ErrorsKept`): the step of the finding of `OtelStale` is the only one that breaks it |
| `GaugesFreshTheorem` | `GaugesFreshUnlessRediscovered` | the same invariant; without rediscovery none is ever due (`NeverDue`), so no error is replaced |
| `ChannelCountedTheorem` | `NeverOvercounts` | `CounterInv`: what was counted, what the cycle is about to add (`Unadded`) and what the next poll would find (`Delta`) are no more than the messages there were. Assumes of the behaviour that the polls of queues and queue manager succeed (`QueuesAnswer`): the finding of `OtelCounter` is the only way to overcount, polls of channels, collections and exports may fail in any way |

### JsonCollector

| Theorem | Property | Argument |
|---|---|---|
| `TypeOKTheorem` | `TypeOK` | with `BelowLimit` |
| `ReportsEverythingTheorem` | `ReportsEverything` | `ReportInv`: the array has what was read (`HasEverything`), and lemma `Chunked` says of `chunk`, for every slice and every size, 0 and negative ones included, that its blocks have the elements of the slice and no more than `recordmax` each |
| `PolledReportTheorem` | `PolledReportIsOwn` | `IsOwn` in `ReportInv`: a cycle that polls starts with an empty array |
| `FreshAfterGoodPollTheorem` | `FreshAfterGoodPoll` | a cycle that polls starts with an empty array and with no status value left, so what it reports was read in it; `OnlyThisInterval` itself fails between polls (`JsonInterval`) |
| `EndsForCauseTheorem` | `EndsForCause` | `CauseInv`: the count of the program is at most the history of failed polls in a row, and the error it handles is that of a poll of the cycle (`PollErrors`) |

### EventMonitor

| Theorem | Property | Argument |
|---|---|---|
| `TypeOKTheorem` | `TypeOK` | one lemma for each group of variables |
| `CleanupInOrderTheorem` | `CleanupInOrder` | `StackInv`: each resource that is held has its call among the deferred ones (`Covered`), calls are ranked and the stack is sorted by rank (`Ordered`), main pushes only calls of the rank it has come to (`Progress`), so what is popped is what nothing else needs (`Nested`). MQOP_STOP is tried once; if it fails, the calls after it give nothing back (`StopOnce`) |
| `NothingLostTheorem` | `NothingLost` | `Balance`: as long as MQOP_STOP has not failed, taken = reported + logged + dropped + what the running callback has in hand; only the OTel SDK drops; with `StackInv`, a program that is gone has stopped the callbacks, after the last call that was deferred (`StopOnce`), and flushed |
| `EndsWhenIdleTheorem` | `EndsWhenIdle` | `InactiveIsIdle`: an object that is registered and not active was idle since its last message. About a program without trouble |
| `ArrayInOrderTheorem` | `ArrayInOrder` | `ArrayInv`: `firstEvent` and `separator`, where they are read, tell what is in the output (`FlagsTell`); the bracket closes only once (`NotClosed`) |
| `ClosedIfQuietTheorem` | `ClosedIfQuiet` | from `ArrayInv` |

### TraceRoute

| Theorem | Property | Argument |
|---|---|---|
| `TypeOKTheorem` | `TypeOK` | inductive; the length of `summaries` follows the loop index |
| `TestGoesNowhereTheorem` | `TestGoesNowhere` | `LeftByFailure`: between two actions the unit of work is empty, or the last MQBACK failed; and `committed` grows by the unit of work and tracer messages alone |
| `AllTestedTheorem` | `AllTestedUnlessFirstFails` | `TestedInv`: the flag of an immediate failure and the activity of the test message are decided by the first message (`FirstDecides`), and the loop ends with one summary for each message (`LoopEnds`); without the exception the property fails (`TracePanic`) |
| `RouteCompleteTheorem` | `RouteComplete` | `RouteInv`: reports that exist were caused by the way of their message, which is no longer than the limit (`TracesKnown`, `ReportsCaused`), the map is what was read (`CollectedRead`), and a wait that ended did so with its count (`EndedRightly`): positions between 1 and the highest, as many as the highest, are all of them |
| `SummariesTellTheorem` | `SummariesTell` | `SummaryInv` adds that an immediate failure comes with the first message, of which nothing was read, and is reported as an error (`FailureFirst`), that `success` was earned by a summary for which a discard was read, at the destination or on the way (`InfoEarned`), and that of one branch the report of the arrival cannot be overwritten (`DiscardShown`) |

### Config

`PrecedenceTheorem` (the README's order of precedence holds for every parameter
that is declared as `WellFormed` says, and every source, outside the exceptions
that `PrecedenceKept` names). `DefaultLostTheorem`: a file without an entry for
a parameter that nobody else sets takes the hardcoded default away from exactly
`logLevel`, `topics`, `subscriptions` and `statisticsQueue` of the common
parameters, `port` and `keepRunning` of mq_prometheus, `interval` and `maxErrors` of
mq_otel, `interval` and `recordmax` of mq_json, and without a file from none. It
follows from what a silent file makes of one declaration (`SilentFile`) and of each
kind of them (`KindsDeclared`). `PasswordTheorem`, from the first: a
user is asked for a password exactly if neither it nor a file with it is given,
for all texts (`PasswordAsked` checks some). That all parameters of the three
collectors are well-formed is checked by TLC in `MCOtelCollector`.

### Only model-checked

All liveness: `EveryScrapeAnswered`, `FailureEnds`, `Reconnects`, `BrokenEnds`,
`OutageEnds`, `IdleEnds`, `TroubleEnds`, `WaitEnds`; fairness and ENABLED are
outside what the prover handles. Every invariant, action property and refinement
that a passing run checks is a theorem, some under the assumptions above.
Induction over data is outside too: `chunk` is
proved because it is written without recursion. No module declares a RECURSIVE
operator.

## 5. What is not modelled, and why

* What reads a password (terminal, file) and prints versions: sequential input
  and output before anything else. Which of them is asked is in `Config`
  (`PasswordFrom`).
* Of the configuration: the checks of patterns, selectors and durations, which
  end the program or do not; the deprecated places of parameters in the file.
* Labels and tags beyond the host name; names, descriptions and normalisation of
  metrics; formatting of JSON and of events (`amqsevtg/format.go`): no property
  is about them.
* Single queues, patterns and rediscovery inside mqmetric; its exchange of
  commands and replies, of which the models have the outcomes; statistics
  events; TLS of the web server; the exporters' protocols.
* `collectorSilent`: written and read by main alone, mutex held.
* Debug output of dspmqrtj; deployment files.

Seen while modelling, and not made into a run of its own:

* mq_prometheus: `exporter.go:245` speaks of a single metric in the answer while
  disconnected; the answer is `qmgr_status` with whatever series it still holds,
  which after a failover between two losses can be more than one.
* mq_prometheus: `exporter.go:496` combines reason codes with a bitwise OR, so the
  case it heads is not taken for any of the three (`QuitCase`).
* `main.go:90` of mq_prometheus defers `EndConnection`, and the function leaves
  through `os.Exit`, which does not run it.
* A connection made with `MQCC_WARNING` is used but not recorded as connected,
  so it is never disconnected (assumption of `AtMostOneConnection`).
* `mq_json/main.go:104` assigns the reason code to `mqcc`.
* mq_json: a queue with both published and status values appears twice in a
  report that polled: the merged point is in both maps.
* `mqmetric/queue.go:199` and `channel.go:236`: an earlier pattern's error is
  overwritten by the last pattern's success, so a poll without an error may be
  incomplete (`EarlierPatternFails`).
* amqsevtg: `firstEvent` is read, and the bracket closed, before the callbacks
  are stopped. A callback that runs at that moment may open an array that is
  never closed, or print an event after the bracket; `ClosedIfQuiet` has the
  condition under which it does not.
* amqsevtg: the errors of `ForceFlush` and `Shutdown` (`otel.go:94-95`) are ignored,
  and the batch processor drops records it cannot export in time. With output
  "otel" and an endpoint that is down, events that were read destructively are gone
  while the program ends normally; `NothingLost` counts them as dropped.
* amqsevtg: the error of MQOP_STOP (`amqsevtg.go:403`) is ignored. The callbacks go
  on then, deregistration, closing and MQDISC fail, and an event that the callback
  has in hand when the process ends is lost (condition of `NothingLost`).
* amqsevtg: if none of the default queues exists, no callback is registered, and
  only ENTER ends the program.
* dspmqrtj: what `o.Info` says of success and failure is kept from one message to
  the next, and replies are not told apart by message, so a late report of an
  earlier message counts for the next: `SummariesTell` is weaker for later
  messages.
* dspmqrtj: any `MQOPER_DISCARD` is taken for an arrival (`tracert.go:486-488`,
  `main.go:149-154`); the feedback, which would tell, is only printed (lines 466-471).
  A tracer that is discarded on the way, at its limit of activities or because it
  cannot be delivered, is reported as a success, although `dspmqrtj/README.md:130`
  says that the summary tells "whether or not the tracer message reached a final
  destination". Hence the exception in `SummariesTell`.
* dspmqrtj: the comment at `tracert.go:119` says of the test message "Back it out so it
  doesn't go anywhere"; the error of `hConn.Back()` (line 135) is ignored and
  `backoutRequired` cleared, so after a failed MQBACK the test message is sent with
  the tracer message (line 309), or by MQDISC. The same holds of line 301 for a
  message to a local queue. Hence the exception in `TestGoesNowhere`.
* dspmqrtj: `backoutRequired` is set when the unit of work is empty only, if one
  leaves failed MQBACKs aside: the test message could not be put. The MQBACK of
  `shutdown` (`main.go:103`) backs out nothing then.
* dspmqrtj: `-actCount 0` is no limit where the message is put (1000), but ends
  the wait after the first message that is read.
* dspmqrtj: with two branches of a publication, the discard of the shorter one
  may be overwritten by the longer one's activity at that position, or end the
  wait early: `RouteComplete` is about one branch.
* The configuration: `README.md:378-379` and `README.md:358` disagree about file
  and command line; the code does the former. A file takes the hardcoded default
  away from the parameters it does not mention (`Lost`, `DefaultLostTheorem`:
  port, topics, subscriptions, statistics queue, log level, limits, intervals of the
  loops, `keepRunning`), except those that are filled in again; `VerifyConfig` puts
  the statistics queue back if statistics are used (`StatisticsQ`). An entry of the
  wrong type makes `yaml.Unmarshal` refuse the whole file, also for a parameter the
  user has set otherwise (`Undecodable`). `-ibmmq.waitInterval` together with a file is a failed type
  assertion (`configyaml.go:171`). A `metadataMap` in the file overrides tags
  of the command line. A mistyped number or boolean in the environment becomes
  0 or false without a message.

## 6. Plan

1. `PromCollector`, `ScrapeService`, their runs and proofs: done.
2. `OtelCollector`, `JsonCollector`, their runs, and proofs of every invariant
   that holds: done.
3. `EventMonitor` (amqsevtg), its run and proofs: done.
4. `TraceRoute` (dspmqrtj), its runs and proofs: done.
5. `Config`, composed with `OtelCollector`, and its proofs: done.
6. Proofs of `NoPanic` and `DataShowsStatus`, and of what holds in spite of each
   finding; `CounterDelivery` and the proof that mq_otel implements it: done.
   Next: an abstract specification of what amqsevtg's output promises, and the
   proof that `EventMonitor` implements it.
7. mqmetric's command and reply exchange: `status.go` clears the reply queue
   before each command and matches replies by correlation identifier; an error
   reply for an object is no error. Properties: a reply is attributed to its own
   command; `prevValues` belongs to one instance.
8. mqmetric's discovery: what is known of the queues after a rediscovery that
   fails part-way.
