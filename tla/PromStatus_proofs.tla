-------------------------- MODULE PromStatus_proofs --------------------------
(***************************************************************************)
(* What the collector of mq_prometheus says of the connection in use: the  *)
(* gauge qmgr_status belongs to it, and so do the families and labels in   *)
(* the registry as long as a restarted queue manager brings the same ones. *)
(***************************************************************************)
EXTENDS PromPromise_proofs

USE DEF Main, Nobody, Dummy, Unlabelled, MQRC_NONE, Running, ServerOnce

-----------------------------------------------------------------------------
(* The gauge qmgr_status.                                                  *)

\* The queue manager of the session reports its host
ReportsHost == ci.level \in HostLevels
StatusLabel == IF ReportsHost THEN ci.host ELSE Unlabelled
Publishing == \E s \in Scrapers : scrape[s] = "publish"

\* The gauges were allocated for the level of the session.
LabelMatches == connectedQMgr \/ main = "register" => (hostLabel <=> ReportsHost)

\* Between the Collects of a connection, from the end of the first one on, and
\* during a Collect that did not poll, the gauge has the connection's series.
StatusKept ==
    connectedQMgr /\ ~firstCollection /\ ~(Publishing /\ pollStatus)
        => statusVec = {<<StatusLabel, 1>>}

\* A Collect that polled has emptied the gauge and learnt the host anew.
StatusPolled == Publishing /\ pollStatus => statusVec = {} /\ hostName = StatusHost

\* The first Collect of a connection does poll.
FirstPolled == Publishing /\ firstCollection => pollStatus

StatusInv == LabelMatches /\ StatusKept /\ StatusPolled /\ FirstPolled

\* At the start there is neither a connection nor a scrape.
LEMMA StatusInit == ASSUME Init PROVE StatusInv
BY DEF Init, StatusInv, LabelMatches, StatusKept, StatusPolled, FirstPolled, Publishing

\* While the queue manager is connected, main touches nothing of a Collect ...
LEMMA MainConnected ==
    ASSUME TypeInv, ConnectedWhenUsed, MainStep, connectedQMgr
    PROVE  UNCHANGED <<ci, hostLabel, statusVec, hostName, pollStatus, firstCollection,
                       connectedQMgr>> /\ main' # "register"
BY DEF ConnectedWhenUsed, MainStep, LoopTop, LockMutex, EndConnection, InitConnection,
   Discover, Allocate, Register, StartServer, ConnectedOnce, AttemptFailed, flags,
   gauges, session, info, TypeInv, TypeOK, ControlTyped, MainPCs

\* ... and when it is not, main connects it with a Register only, which makes
\* the next collection the first.
LEMMA MainDisconnected ==
    ASSUME MainStep, ~connectedQMgr
    PROVE  connectedQMgr' => Register /\ firstCollection'
BY DEF MainStep, LoopTop, LockMutex, EndConnection, InitConnection, Discover, Allocate,
   Register, StartServer, ConnectedOnce, AttemptFailed, flags

\* main moves to the registration after it allocated the gauges, and stays
\* there when that panics.
LEMMA MainRegisters ==
    ASSUME MainStep, main' = "register"
    PROVE  Allocate \/ (Register /\ UNCHANGED connectedQMgr)
BY DEF MainStep, LoopTop, LockMutex, EndConnection, InitConnection, Discover, Allocate,
   Register, StartServer, ConnectedOnce, AttemptFailed

\* A step of the main loop keeps the gauge with its connection.
LEMMA StatusMain ==
    ASSUME TypeInv, ConnectedWhenUsed, StatusInv, MainStep PROVE StatusInv'
<1>1. scrape' = scrape
  BY DEF MainStep, LoopTop, LockMutex, EndConnection, InitConnection, Discover,
     Allocate, Register, StartServer, ConnectedOnce, AttemptFailed
<1>2. CASE connectedQMgr
  BY <1>1, <1>2, MainConnected DEF StatusInv, LabelMatches, StatusKept, StatusPolled,
     FirstPolled, Publishing, StatusLabel, ReportsHost, StatusHost
<1>3. CASE ~connectedQMgr
  <2>1. ~Publishing'
    BY <1>1, <1>3 DEF Publishing, ConnectedWhenUsed, InCollect
  <2>2. StatusKept' /\ StatusPolled' /\ FirstPolled'
    BY <1>3, <2>1, MainDisconnected DEF StatusKept, StatusPolled, FirstPolled
  <2>3. ASSUME Allocate PROVE LabelMatches'
    <3>1. hostLabel' = ReportsHost /\ ci' = ci
      BY <2>3 DEF Allocate, ReportsHost, supportsHostnameLabel, session
    <3>2. ReportsHost' = ReportsHost
      BY <3>1 DEF ReportsHost
    <3> QED
      BY <3>1, <3>2, Zenon DEF LabelMatches
  <2>4. ASSUME Register PROVE LabelMatches'
    <3>1. main = "register" /\ UNCHANGED <<hostLabel, ci>>
      BY <2>4 DEF Register, session, gauges
    <3> QED
      BY <3>1 DEF StatusInv, LabelMatches, ReportsHost
  <2>5. (connectedQMgr \/ main = "register")' => Allocate \/ Register
    BY <1>3, MainDisconnected, MainRegisters
  <2>6. LabelMatches'
    BY <2>3, <2>4, <2>5 DEF LabelMatches
  <2> QED
    BY <2>2, <2>6 DEF StatusInv
<1> QED
  BY <1>2, <1>3

\* Who is inside a Collect is the only one, and only when connected.
LEMMA OnlyOneInside ==
    ASSUME MutexProtects, ConnectedWhenUsed, NEW s \in Scrapers, InCollect(s)
    PROVE  connectedQMgr /\ \A t \in Scrapers \ {s} : ~InCollect(t)
BY DEF MutexProtects, ConnectedWhenUsed

\* A scrape that leaves nobody publishing.
LEMMA NobodyPublishes ==
    ASSUME TypeInv, NEW s \in Scrapers, ScrapeStep(s),
           \A t \in Scrapers \ {s} : scrape[t] # "publish", scrape'[s] # "publish"
    PROVE  ~Publishing'
BY OwnRequest DEF Publishing

\* A failed Collect gives the connection up.
LEMMA FailureDisconnects ==
    ASSUME TypeInv, NEW s \in Scrapers, CollectFails(s)
    PROVE  ~connectedQMgr' /\ scrape'[s] = "replied"
BY ReasonAssumption, AnswerMapped DEF CollectFails, StaysConnected

\* Whatever a Collect did before, it ends with the series of its connection.
LEMMA PublishShows ==
    ASSUME MutexProtects, ConnectedWhenUsed, StatusInv, NEW s \in Scrapers, CollectPublish(s)
    PROVE  statusVec' = {<<StatusLabel, 1>>}
<1>1. Publishing /\ connectedQMgr /\ statusVec' = StatusShown
  BY OnlyOneInside DEF CollectPublish, Publishing, InCollect
<1>2. CASE pollStatus
  <2>1. statusVec = {} /\ hostName = StatusHost /\ (hostLabel <=> ReportsHost)
    BY <1>1, <1>2 DEF StatusInv, StatusPolled, LabelMatches
  <2>2. Label(hostName) = StatusLabel
    BY <2>1 DEF Label, StatusHost, StatusLabel, ReportsHost
  <2>3. SetSeries({}, StatusLabel, 1) = {<<StatusLabel, 1>>}
    BY DEF SetSeries
  <2> QED
    BY <1>1, <1>2, <2>1, <2>2, <2>3 DEF StatusShown
<1>3. CASE ~pollStatus
  BY <1>1, <1>3 DEF StatusShown, StatusInv, StatusKept, FirstPolled
<1> QED
  BY <1>2, <1>3

\* A step of a scrape keeps the gauge with its connection.
LEMMA StatusScrape ==
    ASSUME TypeInv, MutexProtects, ConnectedWhenUsed, StatusInv,
           NEW s \in Scrapers, ScrapeStep(s)
    PROVE  StatusInv'
<1>1. UNCHANGED <<main, hostLabel, ci>>
  BY ScrapeFrame DEF session
<1>2. StatusLabel' = StatusLabel /\ StatusHost' = StatusHost /\ ReportsHost' = ReportsHost
  BY <1>1 DEF StatusLabel, StatusHost, ReportsHost
<1>3. scrape \in [Scrapers -> ScrapePCs]
  BY DEF TypeInv, TypeOK, ScrapesTyped
<1>4. connectedQMgr' => connectedQMgr \/ CollectFails(s)
  BY DEF ScrapeStep, Gather, EnterCollect, CollectDown, CollectStart, InsideCollect,
     CollectPublications, CollectPoll, CollectPublish, Respond, flags
<1>5. LabelMatches'
  BY <1>1, <1>2, <1>4, FailureDisconnects DEF StatusInv, LabelMatches
<1>6. ASSUME CollectFails(s), InCollect(s) PROVE StatusInv'
  <2>1. ~connectedQMgr' /\ ~Publishing'
    BY <1>6, FailureDisconnects, OnlyOneInside, NobodyPublishes DEF InCollect
  <2> QED
    BY <1>5, <2>1 DEF StatusInv, StatusKept, StatusPolled, FirstPolled
<1>7. CASE Gather(s) \/ Respond(s)
  <2>1. /\ UNCHANGED <<statusVec, hostName, pollStatus, firstCollection, connectedQMgr>>
        /\ scrape[s] # "publish" /\ scrape'[s] # "publish"
    BY <1>3, <1>7 DEF Gather, Respond, Answer, flags, gauges, info
  <2>2. Publishing' <=> Publishing
    BY <2>1, OwnRequest DEF Publishing
  <2> QED
    BY <1>2, <1>5, <2>1, <2>2 DEF StatusInv, StatusKept, StatusPolled, FirstPolled
<1>8. CASE CollectDown(s)
  <2>1. ~connectedQMgr /\ ~connectedQMgr' /\ scrape'[s] = "replied"
    BY <1>3, <1>8 DEF CollectDown, Answer, flags
  <2>2. ~Publishing'
    BY <2>1, NobodyPublishes DEF ConnectedWhenUsed, InCollect
  <2> QED
    BY <1>5, <2>1, <2>2 DEF StatusInv, StatusKept, StatusPolled, FirstPolled
<1>9. CASE CollectStart(s)
  <2>1. /\ UNCHANGED <<statusVec, firstCollection, connectedQMgr>>
        /\ mutex = Nobody /\ scrape'[s] = "publications"
    BY <1>3, <1>9 DEF CollectStart, Unlocked, flags
  <2>2. \A t \in Scrapers : scrape[t] # "publish"
    BY <2>1, NamesAssumption DEF MutexProtects, InCollect
  <2>3. ~Publishing /\ ~Publishing'
    BY <2>1, <2>2, NobodyPublishes DEF Publishing
  <2> QED
    BY <1>2, <1>5, <2>1, <2>3 DEF StatusInv, StatusKept, StatusPolled, FirstPolled
<1>10. CASE CollectPublications(s)
  <2>1. InCollect(s) /\ scrape[s] # "publish"
    BY <1>10 DEF CollectPublications, InCollect
  <2>2. CASE scrape' = [scrape EXCEPT ![s] = "poll"] /\ UNCHANGED connectedQMgr
    <3>1. ~Publishing /\ ~Publishing'
      BY <1>3, <2>1, <2>2, OnlyOneInside, NobodyPublishes DEF Publishing, InCollect
    <3>2. UNCHANGED <<statusVec, firstCollection>>
      BY <1>10 DEF CollectPublications, gauges
    <3> QED
      BY <1>2, <1>5, <2>2, <3>1, <3>2 DEF StatusInv, StatusKept, StatusPolled, FirstPolled
  <2> QED
    BY <1>6, <1>10, <2>1, <2>2 DEF CollectPublications
<1>11. CASE CollectPoll(s)
  <2>1. InCollect(s) /\ scrape[s] # "publish"
    BY <1>11 DEF CollectPoll, InCollect
  <2>2. CASE hostName' = (IF pollStatus' THEN StatusHost ELSE hostName)
             /\ scrape' = [scrape EXCEPT ![s] = "publish"] /\ UNCHANGED connectedQMgr
    <3>1. ~Publishing
      BY <2>1, OnlyOneInside DEF Publishing, InCollect
    <3>2. /\ UNCHANGED firstCollection /\ pollStatus' = PollNow
          /\ statusVec' = IF pollStatus' THEN {} ELSE statusVec
      BY <1>11 DEF CollectPoll
    <3>3. FirstPolled'
      BY <3>2 DEF FirstPolled, PollNow
    <3>4. StatusPolled'
      BY <1>2, <2>2, <3>2 DEF StatusPolled
    <3>5. StatusKept'
      <4>1. Publishing'
        BY <1>3, <2>2 DEF Publishing
      <4> QED
        BY <1>2, <2>2, <3>1, <3>2, <4>1 DEF StatusInv, StatusKept, PollNow
    <3> QED
      BY <1>5, <3>3, <3>4, <3>5 DEF StatusInv
  <2> QED
    BY <1>6, <1>11, <2>1, <2>2 DEF CollectPoll
<1>12. CASE CollectPublish(s)
  <2>1. InCollect(s) /\ scrape'[s] = "replied"
    BY <1>3, <1>12 DEF CollectPublish, InCollect, Answer
  <2>2. ~Publishing'
    BY <2>1, OnlyOneInside, NobodyPublishes DEF InCollect
  <2> QED
    BY <1>2, <1>5, <1>12, <2>2, PublishShows DEF StatusInv, StatusKept, StatusPolled,
       FirstPolled
<1> QED
  BY <1>7, <1>8, <1>9, <1>10, <1>11, <1>12 DEF ScrapeStep, EnterCollect, InsideCollect

\* The server, the queue manager and the clock do not touch the gauges.
LEMMA QuietFrame ==
    ASSUME Listen \/ StopServer \/ ServerFatal \/ EnvStep \/ UNCHANGED vars
    PROVE  UNCHANGED <<main, scrape, reply, ci, hostLabel, statusVec, hostName, pollStatus,
                       firstCollection, connectedQMgr, descIDs, dims>>
BY DEF Listen, StopServer, ServerFatal, EnvStep, QMgrStops, QMgrStarts, ConnectionBreaks,
   QMgrPublishes, PollIntervalElapses, Unaffected, vars, flags, registry, gauges, session,
   info

\* No step separates the gauge from its connection.
LEMMA StatusStep ==
    ASSUME TypeInv, MutexProtects, ConnectedWhenUsed, StatusInv, [Next]_vars
    PROVE  StatusInv'
<1>1. CASE Listen \/ StopServer \/ ServerFatal \/ EnvStep \/ UNCHANGED vars
  BY <1>1, QuietFrame DEF StatusInv, LabelMatches, StatusKept, StatusPolled, FirstPolled,
     Publishing, StatusLabel, StatusHost, ReportsHost
<1> QED
  BY <1>1, StatusMain, StatusScrape DEF Next, ProcessGone

\* Only the last step of a Collect answers with data.
LEMMA DataOnlyFromPublish ==
    ASSUME TypeInv, [Next]_vars, NEW s \in Scrapers,
           reply[s].kind = "none", reply'[s].kind = "data"
    PROVE  CollectPublish(s)
<1>1. reply' # reply
  OBVIOUS
<1>2. ~MainStep
  BY <1>1 DEF MainStep, LoopTop, LockMutex, EndConnection, InitConnection, Discover,
     Allocate, Register, StartServer, ConnectedOnce, AttemptFailed
<1>3. PICK t \in Scrapers : ScrapeStep(t)
  BY <1>1, <1>2, QuietFrame DEF Next, ProcessGone
<1>4. t = s
  BY <1>3, OwnRequest
<1>5. ~CollectFails(s)
  <2>1. [NoReply EXCEPT !.kind = "error"].kind # "data"
    BY DEF NoReply
  <2> QED
    BY <2>1, AnswerMapped DEF CollectFails
<1>6. ~Answer(s, [NoReply EXCEPT !.kind = "nothing"])
  <2>1. [NoReply EXCEPT !.kind = "nothing"].kind # "data"
    BY DEF NoReply
  <2> QED
    BY <2>1, AnswerMapped
<1>7. ~Answer(s, [NoReply EXCEPT !.kind = "down", !.status = statusVec'])
  <2>1. [NoReply EXCEPT !.kind = "down", !.status = statusVec'].kind # "data"
    BY DEF NoReply
  <2> QED
    BY <2>1, AnswerMapped
<1>8. ~Respond(s)
  BY DEF Respond, NoReply, TypeInv, TypeOK, ScrapesTyped
<1> QED
  BY <1>1, <1>3, <1>4, <1>5, <1>6, <1>7, <1>8 DEF ScrapeStep, Gather, EnterCollect,
     CollectDown, CollectStart, InsideCollect, CollectPublications, CollectPoll

\* What an answer with data shows of the queue manager, whatever failures,
\* failovers and upgrades came before, is the connection in use: running, once,
\* on its host.
THEOREM DataShowsConnection == Spec => DataShowsStatus
<1> DEFINE Shown ==
      \A s \in Scrapers : reply[s].kind = "none" /\ reply'[s].kind = "data" =>
          reply'[s].status = {<<IF ci.level \in HostLevels THEN ci.host ELSE Unlabelled, 1>>}
<1>1. ASSUME AllInv, StatusInv, [Next]_vars PROVE Shown
  <2> SUFFICES ASSUME NEW s \in Scrapers, reply[s].kind = "none", reply'[s].kind = "data"
               PROVE  reply'[s].status = {<<StatusLabel, 1>>}
    BY DEF StatusLabel, ReportsHost
  <2>1. CollectPublish(s)
    BY <1>1, DataOnlyFromPublish DEF AllInv
  <2>2. reply'[s] = [NoReply EXCEPT !.kind = "data", !.pubs = ruaVec', !.status = statusVec']
    BY <1>1, <2>1, AnswerMapped DEF CollectPublish, AllInv
  <2>3. [NoReply EXCEPT !.kind = "data", !.pubs = ruaVec', !.status = statusVec'].status
          = statusVec'
    BY DEF NoReply
  <2> QED
    BY <1>1, <2>1, <2>2, <2>3, PublishShows DEF AllInv
<1>2. AllInv /\ StatusInv /\ [Next]_vars => StatusInv'
  BY StatusStep DEF AllInv
<1>3. AllInv /\ StatusInv /\ [Next]_vars => [Shown]_vars
  BY <1>1
<1> QED
  BY <1>2, <1>3, StatusInit, AlwaysAllInv, PTL DEF Spec, DataShowsStatus

-----------------------------------------------------------------------------
(* The registry.                                                           *)

\* Queue managers of every level provide the same families, and all or none
\* of them report their host: no restart is an upgrade that matters here.
SameOnEveryLevel ==
    \A l, k \in Levels : /\ MetricsOf[l] = MetricsOf[k]
                         /\ l \in HostLevels <=> k \in HostLevels

LabelOf(l) == IF l \in HostLevels THEN "host" ELSE "plain"

\* Registered is nothing or all that any connection describes ...
RegistryKnown == \A l \in Levels : descIDs \in {{}, MetricsOf[l]}
\* ... with the label names that any connection uses ...
LabelsKnown == \A l \in Levels : \A m \in Metrics : dims[m] \in {"none", LabelOf(l)}
\* ... and nothing when a connection comes to register.
RegistryFree == main = "register" => descIDs = {}

RegistryInv == NoPanic /\ RegistryKnown /\ LabelsKnown /\ RegistryFree

\* The registry starts empty.
LEMMA RegistryInit == ASSUME Init PROVE RegistryInv
BY DEF Init, RegistryInv, NoPanic, RegistryKnown, LabelsKnown, RegistryFree

\* What a new connection describes is what the old one had registered, so
\* Unregister finds it.
LEMMA AllocateFrees ==
    ASSUME TypeInv, RegistryInv, Allocate PROVE RegistryInv'
<1>1. ci.level \in Levels
  BY DEF Allocate, TypeInv, LevelKnown
<1>2. descIDs \in {{}, Described}
  BY <1>1 DEF RegistryInv, RegistryKnown, Described
<1>3. descIDs' = {}
  BY <1>2 DEF Allocate, Unregister
<1> QED
  BY <1>3 DEF Allocate, RegistryInv, NoPanic, RegistryKnown, LabelsKnown, RegistryFree,
     Exits

\* The registration meets an empty registry and label names of its own kind.
LEMMA RegisterSucceeds ==
    ASSUME SameOnEveryLevel, TypeInv, StatusInv, RegistryInv, Register
    PROVE  RegistryInv'
<1>1. main = "register" /\ ci.level \in Levels
  BY DEF Register, TypeInv, LevelKnown
<1>2. LabelsNow = LabelOf(ci.level)
  BY <1>1 DEF StatusInv, LabelMatches, ReportsHost, LabelsNow, LabelOf
<1>3. Described \subseteq Metrics /\ descIDs = {}
  BY <1>1, FamiliesTyped DEF Described, RegistryInv, RegistryFree
<1>4. Registrable(Described)
  BY <1>1, <1>2, <1>3 DEF Registrable, RegistryInv, LabelsKnown
<1>5. /\ descIDs' = Described /\ main' # "register" /\ exit' = exit
      /\ dims' = [m \in Metrics |-> IF m \in Described THEN LabelsNow ELSE dims[m]]
  BY <1>3, <1>4 DEF Register
<1>6. \A l \in Levels : LabelOf(l) = LabelsNow /\ MetricsOf[l] = Described
  BY <1>1, <1>2 DEF SameOnEveryLevel, LabelOf, Described
<1>7. RegistryKnown'
  BY <1>5, <1>6 DEF RegistryKnown
<1>8. LabelsKnown'
  BY <1>5, <1>6 DEF LabelsKnown, RegistryInv
<1> QED
  BY <1>5, <1>7, <1>8 DEF RegistryInv, NoPanic, RegistryFree

\* All other steps leave the registry alone, and none of them panics.
LEMMA RegistryFrame ==
    ASSUME [Next]_vars, ~Allocate, ~Register
    PROVE  /\ UNCHANGED registry /\ (main' = "register" => main = "register")
           /\ exit' = exit \/ exit' \in Exits \ {"panic"}
<1>1. CASE MainStep
  BY <1>1 DEF MainStep, LoopTop, LockMutex, EndConnection, InitConnection, Discover,
     StartServer, ConnectedOnce, AttemptFailed, Exits
<1>2. CASE \E s \in Scrapers : ScrapeStep(s)
  BY <1>2, ScrapeFrame
<1>3. CASE Listen \/ StopServer \/ ServerFatal \/ EnvStep \/ UNCHANGED vars
  BY <1>3, OtherFrame, QuietFrame DEF registry, Exits
<1> QED
  BY <1>1, <1>2, <1>3 DEF Next, ProcessGone

\* No step makes the registration of the next connection fail.
LEMMA RegistryStep ==
    ASSUME SameOnEveryLevel, TypeInv, StatusInv, RegistryInv, [Next]_vars
    PROVE  RegistryInv'
<1>1. CASE ~Allocate /\ ~Register
  BY <1>1, RegistryFrame DEF RegistryInv, NoPanic, RegistryKnown, LabelsKnown,
     RegistryFree, registry
<1> QED
  BY <1>1, AllocateFrees, RegisterSucceeds

\* As long as the queue managers provide the same families and labels, no
\* sequence of failures, failovers and reconnections makes the registration of
\* the collector panic.
THEOREM RegistrationNeverPanics ==
    ASSUME SameOnEveryLevel PROVE Spec => []NoPanic
<1>1. AllInv /\ StatusInv /\ RegistryInv /\ [Next]_vars => StatusInv' /\ RegistryInv'
  BY StatusStep, RegistryStep DEF AllInv
<1>2. RegistryInv => NoPanic
  BY DEF RegistryInv
<1> QED
  BY <1>1, <1>2, StatusInit, RegistryInit, AlwaysAllInv, PTL DEF Spec
=============================================================================
