------------------------ MODULE PromCollector_proofs ------------------------
(***************************************************************************)
(* Theorems of PromCollector, for every set of scrapers, hosts, levels and *)
(* metric families, and any number of failures.                            *)
(***************************************************************************)
EXTENDS PromCollector, TLAPS

USE DEF Main, Nobody, Dummy, Unlabelled, MQRC_NONE, Running, ServerOnce

\* Facts about the session that typing rests on: a session that knows it is
\* connected holds a handle, except between MQDISC and the next MQCONNX; and
\* the collector's families are looked up for a real command level only.
SessionOpen == ci.connected /\ main # "init" => hconns >= 1
LevelKnown == main \in {"discover", "allocate", "register"} => ci.level \in Levels
TypeInv == TypeOK /\ SessionOpen /\ LevelKnown

\* The answer of a request that is not answered is an answer.
LEMMA NoReplyTyped == NoReply \in Replies
BY DEF NoReply, Replies, Kinds

\* The collector starts typed.
LEMMA TypeInit == ASSUME Init PROVE TypeInv
<1>1. ControlTyped
  BY DEF Init, ControlTyped, MainPCs, ServerPCs, Exits
<1>2. DataTyped
  BY DEF Init, DataTyped, HostLabels
<1>3. SessionTyped
  BY DEF Init, SessionTyped, Sessions, NoSession, HostLabels
<1>4. ScrapesTyped
  BY NoReplyTyped DEF Init, ScrapesTyped, ScrapePCs
<1>5. EnvTyped
  <2>1. faults \in 0 .. MaxFaults
    BY FaultAssumption DEF Init
  <2> QED
    BY <2>1 DEF Init, EnvTyped
<1>6. SessionOpen /\ LevelKnown
  BY DEF Init, SessionOpen, LevelKnown, NoSession
<1> QED
  BY <1>1, <1>2, <1>3, <1>4, <1>5, <1>6 DEF TypeInv, TypeOK

\* The registry stays within the metric families.
LEMMA FamiliesTyped ==
    ASSUME NEW l \in Levels PROVE MetricsOf[l] \subseteq Metrics
BY LevelsAssumption

\* A gauge set for one label has series of known labels only.
LEMMA SeriesTyped ==
    ASSUME NEW vec \in SUBSET SeriesOf, NEW host \in HostLabels, NEW v \in {0, 1}
    PROVE  SetSeries(vec, Label(host), v) \subseteq SeriesOf
BY DEF SetSeries, Label, SeriesOf

\* An answer keeps the progress and the replies of the requests typed.
LEMMA AnswerTyped ==
    ASSUME ScrapesTyped, NEW s \in Scrapers, NEW answer \in Replies, Answer(s, answer)
    PROVE  ScrapesTyped'
BY DEF Answer, ScrapePCs, ScrapesTyped

\* A fault used leaves the number of faults typed.
LEMMA FailsTyped ==
    ASSUME faults \in 0 .. MaxFaults, NEW works \in BOOLEAN, Fails(works)
    PROVE  faults' \in 0 .. MaxFaults
BY FaultAssumption DEF Fails

\* A step of the main loop keeps the control state typed ...
LEMMA MainControl == ASSUME TypeInv, MainStep PROVE ControlTyped'
<1> USE DEF TypeInv, TypeOK, ControlTyped, MainPCs, Exits, ServerPCs, flags
<1>1. CASE LoopTop
  BY <1>1 DEF LoopTop
<1>2. CASE LockMutex
  BY <1>2 DEF LockMutex
<1>3. CASE EndConnection
  BY <1>3 DEF EndConnection
<1>4. CASE InitConnection
  BY <1>4 DEF InitConnection
<1>5. CASE Discover
  BY <1>5 DEF Discover
<1>6. CASE Allocate
  BY <1>6 DEF Allocate
<1>7. CASE Register
  BY <1>7 DEF Register
<1>8. CASE StartServer
  BY <1>8 DEF StartServer
<1>9. CASE ConnectedOnce
  BY <1>9 DEF ConnectedOnce
<1>10. CASE AttemptFailed
  BY <1>10, SwitchAssumption DEF AttemptFailed, NoRetry
<1> QED
  BY <1>1, <1>2, <1>3, <1>4, <1>5, <1>6, <1>7, <1>8, <1>9, <1>10 DEF MainStep

\* ... the registry and the gauges ...
LEMMA MainData == ASSUME TypeInv, MainStep PROVE DataTyped'
<1> USE DEF TypeInv, TypeOK, DataTyped, registry, gauges, info
<1>1. CASE Allocate
  BY <1>1 DEF Allocate, Unregister, supportsHostnameLabel
<1>2. CASE Register
  BY <1>2, FamiliesTyped DEF Register, Described, LabelsNow, LevelKnown
<1> QED
  BY <1>1, <1>2 DEF MainStep, LoopTop, LockMutex, EndConnection, InitConnection,
     Discover, StartServer, ConnectedOnce, AttemptFailed

\* ... the session and the handles ...
LEMMA MainSession ==
    ASSUME TypeInv, MainStep PROVE SessionTyped' /\ SessionOpen' /\ LevelKnown'
<1> USE DEF TypeInv, TypeOK, SessionTyped, SessionOpen, LevelKnown, session
<1>1. CASE EndConnection
  BY <1>1 DEF EndConnection, HandlesAfterEnd
<1>2. CASE InitConnection
  <2>1. qmgr.host \in Hosts /\ qmgr.level \in Levels
    BY DEF EnvTyped, QMgrs
  <2>2. NewSession(TRUE) => ci' \in Sessions /\ ci'.level \in Levels
    BY <2>1 DEF NewSession, Sessions, HostLabels
  <2>3. NewSession(FALSE) => ci' \in Sessions /\ ci'.level \in Levels /\ ~ci'.connected
    BY <2>1 DEF NewSession, Sessions, HostLabels
  <2>4. NoSession \in Sessions /\ ~NoSession.connected
    BY DEF NoSession, Sessions, HostLabels
  <2>5. hconns \in Nat
    OBVIOUS
  <2>6. CASE NewSession(TRUE) /\ hconns' = hconns + 1
    BY <2>2, <2>5, <2>6
  <2>7. CASE NewSession(FALSE) /\ hconns' = hconns + 1
    BY <2>3, <2>5, <2>7
  <2>8. CASE ci' = NoSession /\ hconns' = hconns /\ main' \in {"failed", "init"}
    BY <2>4, <2>5, <2>8
  <2> QED
    BY <1>2, <2>6, <2>7, <2>8 DEF InitConnection
<1>3. CASE Discover
  BY <1>3 DEF Discover, Sessions
<1> QED
  BY <1>1, <1>2, <1>3 DEF MainStep, LoopTop, LockMutex, Allocate, Register,
     StartServer, ConnectedOnce, AttemptFailed

\* ... the rest.
LEMMA MainEnv == ASSUME TypeInv, MainStep PROVE EnvTyped' /\ ScrapesTyped'
<1> USE DEF TypeInv, TypeOK, EnvTyped, ScrapesTyped, env
<1>1. CASE InitConnection
  <2>1. qmgr.up \in BOOLEAN
    BY DEF QMgrs
  <2>2. UNCHANGED faults \/ Fails(TRUE) \/ Fails(qmgr.up)
    BY <1>1 DEF InitConnection
  <2>3. faults' \in 0 .. MaxFaults
    BY <2>1, <2>2, FailsTyped
  <2> QED
    BY <1>1, <2>3 DEF InitConnection
<1>2. CASE Discover
  <2>1. (live /\ ci.connected) \in BOOLEAN
    OBVIOUS
  <2>2. UNCHANGED faults \/ Fails(live /\ ci.connected)
    BY <1>2 DEF Discover
  <2>3. faults' \in 0 .. MaxFaults
    BY <2>1, <2>2, FailsTyped
  <2> QED
    BY <1>2, <2>3 DEF Discover
<1> QED
  BY <1>1, <1>2 DEF MainStep, LoopTop, LockMutex, EndConnection, Allocate, Register,
     StartServer, ConnectedOnce, AttemptFailed

\* A step of the main loop keeps everything typed.
LEMMA MainTyped == ASSUME TypeInv, MainStep PROVE TypeInv'
BY MainControl, MainData, MainSession, MainEnv DEF TypeInv, TypeOK

\* So does a step of the web server ...
LEMMA ServerTyped ==
    ASSUME TypeInv, Listen \/ StopServer \/ ServerFatal PROVE TypeInv'
<1> USE DEF TypeInv, TypeOK, flags, registry, gauges, session, info, env
<1>1. SessionTyped' /\ SessionOpen' /\ LevelKnown'
  BY DEF Listen, StopServer, ServerFatal, SessionTyped, SessionOpen, LevelKnown
<1>2. DataTyped' /\ ScrapesTyped'
  BY DEF Listen, StopServer, ServerFatal, DataTyped, ScrapesTyped
<1>3. ControlTyped'
  BY DEF Listen, StopServer, ServerFatal, ControlTyped, ServerPCs, Exits
<1>4. faults' \in 0 .. MaxFaults
  BY FailsTyped DEF Listen, StopServer, ServerFatal, EnvTyped
<1>5. EnvTyped'
  BY <1>4 DEF Listen, StopServer, ServerFatal, EnvTyped
<1> QED
  BY <1>1, <1>2, <1>3, <1>5

\* ... of the queue manager or the clock.
LEMMA EnvStepTyped == ASSUME TypeInv, EnvStep PROVE TypeInv'
<1> USE DEF TypeInv, TypeOK, Unaffected, flags, registry, gauges, session, info,
            QMgrStops, QMgrStarts, ConnectionBreaks, QMgrPublishes, PollIntervalElapses
<1>1. SessionTyped' /\ SessionOpen' /\ LevelKnown'
  BY DEF EnvStep, SessionTyped, SessionOpen, LevelKnown
<1>2. DataTyped' /\ ScrapesTyped'
  BY DEF EnvStep, DataTyped, ScrapesTyped
<1>3. ControlTyped'
  BY DEF EnvStep, ControlTyped
<1>4. faults' \in 0 .. MaxFaults
  BY FailsTyped DEF EnvStep, EnvTyped
<1>5. qmgr' \in QMgrs /\ pubQ' \subseteq Ages
  BY DEF EnvStep, EnvTyped, QMgrs, Ages
<1>6. EnvTyped'
  BY <1>4, <1>5 DEF EnvStep, EnvTyped
<1> QED
  BY <1>1, <1>2, <1>3, <1>6

\* The answer of a Collect that failed is an answer, and it leaves the flags
\* and the mutex typed.
LEMMA CollectFailsTyped ==
    ASSUME TypeInv, NEW s \in Scrapers, CollectFails(s)
    PROVE  /\ ScrapesTyped' /\ connectedQMgr' \in BOOLEAN
           /\ collectorEnd' \in BOOLEAN /\ mutex' = Nobody
<1>1. PICK rc \in CollectRCs :
        /\ connectedQMgr' = StaysConnected(rc)
        /\ collectorEnd' = (collectorEnd \/ rc = QuitCase)
        /\ mutex' = Nobody
        /\ Answer(s, [NoReply EXCEPT !.kind = "error"])
  BY DEF CollectFails
<1>2. [NoReply EXCEPT !.kind = "error"] \in Replies
  BY <1>1 DEF NoReply, Replies, Kinds
<1> QED
  BY <1>1, <1>2, AnswerTyped DEF TypeInv, TypeOK, StaysConnected, ControlTyped

\* A step of a scrape leaves the session, and main's place in its loop, alone.
LEMMA ScrapeFrame ==
    ASSUME NEW s \in Scrapers, ScrapeStep(s)
    PROVE  UNCHANGED <<main, exit, mainErr, connectedOnce, server, registry, hostLabel,
                       session, qmgr, live>>
BY DEF ScrapeStep, Gather, EnterCollect, CollectDown, CollectStart, InsideCollect,
   CollectPublications, CollectPoll, CollectPublish, Respond, flags, registry, gauges,
   session, info, env

\* The steps of a scrape before and after its Collect keep everything typed ...
LEMMA OutsideCollectTyped ==
    ASSUME TypeInv, NEW s \in Scrapers,
           Gather(s) \/ EnterCollect(s) \/ Respond(s)
    PROVE  TypeInv'
<1> USE DEF TypeInv, TypeOK, flags, registry, gauges, session, info, env
<1>1. SessionTyped' /\ SessionOpen' /\ LevelKnown' /\ EnvTyped'
  BY DEF Gather, EnterCollect, CollectDown, CollectStart, Respond, SessionTyped,
     SessionOpen, LevelKnown, EnvTyped
<1>2. CASE Gather(s)
  <2>1. [NoReply EXCEPT !.kind = "nothing"] \in Replies
    BY DEF NoReply, Replies, Kinds
  <2>2. ScrapesTyped'
    BY <1>2, <2>1, AnswerTyped DEF Gather, ScrapesTyped, ScrapePCs
  <2> QED
    BY <1>1, <1>2, <2>2 DEF Gather, ControlTyped, DataTyped
<1>3. CASE CollectDown(s)
  <2>1. statusVec' \subseteq SeriesOf
    BY <1>3, SeriesTyped DEF CollectDown, DataTyped
  <2>2. [NoReply EXCEPT !.kind = "down", !.status = statusVec'] \in Replies
    BY <2>1 DEF NoReply, Replies, Kinds
  <2>3. ScrapesTyped'
    BY <1>3, <2>2, AnswerTyped DEF CollectDown
  <2> QED
    BY <1>1, <1>3, <2>1, <2>3 DEF CollectDown, ControlTyped, DataTyped
<1>4. CASE CollectStart(s)
  <2>1. ScrapesTyped'
    BY <1>4 DEF CollectStart, ScrapesTyped, ScrapePCs
  <2> QED
    BY <1>1, <1>4, <2>1 DEF CollectStart, ControlTyped, DataTyped
<1>5. CASE Respond(s)
  <2>1. ScrapesTyped'
    BY <1>5, NoReplyTyped DEF Respond, ScrapesTyped, ScrapePCs
  <2> QED
    BY <1>1, <1>5, <2>1 DEF Respond, ControlTyped, DataTyped
<1> QED
  BY <1>2, <1>3, <1>4, <1>5 DEF EnterCollect

\* ... and so do those of the Collect.
LEMMA InsideCollectTyped ==
    ASSUME TypeInv, NEW s \in Scrapers, InsideCollect(s) PROVE TypeInv'
<1> USE DEF TypeInv, TypeOK, flags, registry, gauges, session, info, env
<1>1. SessionTyped' /\ SessionOpen' /\ LevelKnown'
  BY ScrapeFrame DEF ScrapeStep, SessionTyped, SessionOpen, LevelKnown
<1>2. StatusHost \in HostLabels
  BY DEF StatusHost, SessionTyped, Sessions, HostLabels
<1>3. CASE CollectPublications(s)
  <2>1. faults' \in 0 .. MaxFaults
    BY <1>3, FailsTyped DEF CollectPublications, EnvTyped
  <2>2. ScrapesTyped' /\ ControlTyped'
    BY <1>3, CollectFailsTyped
       DEF CollectPublications, ScrapesTyped, ScrapePCs, ControlTyped
  <2>3. values' \subseteq Ages /\ pubQ' \subseteq Ages
    BY <1>3 DEF CollectPublications, EnvTyped
  <2> QED
    BY <1>1, <1>3, <2>1, <2>2, <2>3 DEF CollectPublications, DataTyped, EnvTyped
<1>4. CASE CollectPoll(s)
  <2>1. faults' \in 0 .. MaxFaults
    BY <1>4, FailsTyped DEF CollectPoll, EnvTyped
  <2>2. ScrapesTyped' /\ ControlTyped'
    BY <1>4, CollectFailsTyped
       DEF CollectPoll, ScrapesTyped, ScrapePCs, ControlTyped
  <2>3. hostName' \in HostLabels /\ pollStatus' \in BOOLEAN /\ pollDue' \in BOOLEAN
    BY <1>2, <1>4 DEF CollectPoll, DataTyped, PollNow, EnvTyped, ControlTyped
  <2> QED
    BY <1>1, <1>4, <2>1, <2>2, <2>3 DEF CollectPoll, DataTyped, EnvTyped
<1>5. CASE CollectPublish(s)
  <2>1. ruaVec' \subseteq Ages /\ lastHostname' \in HostLabels
    BY <1>5 DEF CollectPublish, Publishable, DataTyped
  <2>2. statusVec' \subseteq SeriesOf
    BY <1>5, SeriesTyped DEF CollectPublish, StatusShown, DataTyped
  <2>3. [NoReply EXCEPT !.kind = "data", !.pubs = ruaVec', !.status = statusVec']
            \in Replies
    BY <2>1, <2>2 DEF NoReply, Replies, Kinds
  <2>4. ScrapesTyped'
    BY <1>5, <2>3, AnswerTyped DEF CollectPublish
  <2> QED
    BY <1>1, <1>5, <2>1, <2>2, <2>4
       DEF CollectPublish, ControlTyped, DataTyped, EnvTyped
<1> QED
  BY <1>3, <1>4, <1>5 DEF InsideCollect

\* Everything stays typed in every step, and in every stutter.
LEMMA TypeStep == ASSUME TypeInv, [Next]_vars PROVE TypeInv'
<1>1. CASE UNCHANGED vars
  BY <1>1 DEF TypeInv, TypeOK, ControlTyped, DataTyped, SessionTyped, ScrapesTyped,
     EnvTyped, SessionOpen, LevelKnown, vars, flags, registry, gauges, session, info, env
<1>2. ASSUME NEW s \in Scrapers, ScrapeStep(s) PROVE TypeInv'
  BY <1>2, OutsideCollectTyped, InsideCollectTyped DEF ScrapeStep
<1> QED
  BY <1>1, <1>2, MainTyped, ServerTyped, EnvStepTyped DEF Next, ProcessGone

\* The state is always typed, and what typing rests on always holds.
THEOREM AlwaysTyped == Spec => []TypeInv
BY TypeInit, TypeStep, PTL DEF Spec

\* Every variable keeps its type: TypeOK of the runs, for all constants.
THEOREM TypeCorrect == Spec => []TypeOK
<1>1. TypeInv => TypeOK
  BY DEF TypeInv
<1> QED
  BY <1>1, AlwaysTyped, PTL

-----------------------------------------------------------------------------
(* The mutex.                                                              *)

\* At the start nobody holds the mutex and nobody needs it.
LEMMA MutexInit == ASSUME Init PROVE MutexProtects
BY NamesAssumption DEF Init, MutexProtects, InAttempt, InCollect

\* A main loop that takes or gives back the mutex moves in or out of its
\* attempt in the same step, and takes it only when nobody is in a Collect.
LEMMA MutexMain == ASSUME TypeInv, MutexProtects, MainStep PROVE MutexProtects'
<1>1. scrape' = scrape
  BY DEF MainStep, LoopTop, LockMutex, EndConnection, InitConnection, Discover,
     Allocate, Register, StartServer, ConnectedOnce, AttemptFailed
<1>2. InAttempt' <=> mutex' = Main
  BY DEF MutexProtects, InAttempt, MainPCs, MainStep, LoopTop, LockMutex, EndConnection,
     InitConnection, Discover, Allocate, Register, StartServer, ConnectedOnce,
     AttemptFailed
<1>3. mutex' = mutex \/ (mutex = Nobody /\ mutex' = Main) \/ (mutex = Main /\ mutex' = Nobody)
  BY DEF MutexProtects, InAttempt, MainPCs, MainStep, LoopTop, LockMutex, Unlocked,
     EndConnection, InitConnection, Discover, Allocate, Register, StartServer,
     ConnectedOnce, AttemptFailed
<1> QED
  BY <1>1, <1>2, <1>3, NamesAssumption DEF MutexProtects, InCollect

\* A scrape is in its Collect from taking the mutex to giving it back.
LEMMA MutexScrape ==
    ASSUME TypeInv, MutexProtects, NEW s \in Scrapers, ScrapeStep(s) PROVE MutexProtects'
<1>1. main' = main /\ (InAttempt <=> InAttempt')
  BY ScrapeFrame DEF InAttempt
<1>2. scrape \in [Scrapers -> ScrapePCs]
  BY DEF TypeInv, TypeOK, ScrapesTyped
<1>3. \A t \in Scrapers \ {s} : InCollect(t)' <=> InCollect(t)
  BY <1>2 DEF InCollect, ScrapeStep, Gather, EnterCollect, CollectDown, CollectStart,
     InsideCollect, CollectPublications, CollectPoll, CollectPublish, Respond, Answer,
     CollectFails
<1>4. \/ mutex' = mutex /\ (InCollect(s)' <=> InCollect(s))
      \/ mutex = Nobody /\ mutex' = s /\ InCollect(s)'
      \/ mutex = s /\ mutex' = Nobody /\ ~InCollect(s)'
  BY <1>2, NamesAssumption
     DEF MutexProtects, InCollect, ScrapeStep, Gather, EnterCollect, CollectDown,
     CollectStart, InsideCollect, CollectPublications, CollectPoll, CollectPublish,
     Respond, Answer, CollectFails, Unlocked
<1> QED
  BY <1>1, <1>3, <1>4, NamesAssumption DEF MutexProtects

\* No step of anyone takes the mutex from its holder, or works without it.
LEMMA MutexStep == ASSUME TypeInv, MutexProtects, [Next]_vars PROVE MutexProtects'
<1>1. CASE UNCHANGED <<main, mutex, scrape>>
  BY <1>1 DEF MutexProtects, InAttempt, InCollect
<1>2. ASSUME Listen \/ StopServer \/ ServerFatal \/ EnvStep
      PROVE  UNCHANGED <<main, mutex, scrape>>
  BY <1>2 DEF Listen, StopServer, ServerFatal, EnvStep, QMgrStops, QMgrStarts,
     ConnectionBreaks, QMgrPublishes, PollIntervalElapses, Unaffected
<1>3. CASE UNCHANGED vars
  BY <1>1, <1>3 DEF vars
<1> QED
  BY <1>1, <1>2, <1>3, MutexMain, MutexScrape DEF Next, ProcessGone

\* A reconnection attempt and the Collects of all scrapes exclude each other.
THEOREM MutualExclusion == Spec => []MutexProtects
<1>1. TypeInv /\ MutexProtects /\ [Next]_vars => MutexProtects'
  BY MutexStep
<1> QED
  BY <1>1, MutexInit, AlwaysTyped, PTL DEF Spec

\* While a scrape is in its Collect, what the Collect reads is changed by the
\* step that ends it, if at all.
THEOREM Undisturbed == Spec => CollectUndisturbed
<1> DEFINE Kept == UNCHANGED <<session, registry, hostLabel, connectedQMgr, firstCollection>>
<1>1. ASSUME TypeInv, MutexProtects, [Next]_vars, NEW s \in Scrapers,
             InCollect(s), InCollect(s)'
      PROVE  Kept
  <2> USE DEF flags, registry, gauges, session, info, env
  <2>1. mutex = s /\ main \in {"top", "lock"}
    BY <1>1, NamesAssumption DEF MutexProtects, InAttempt, TypeInv, TypeOK, ControlTyped
  <2>2. CASE MainStep
    BY <2>1, <2>2, NamesAssumption DEF MainStep, LoopTop, LockMutex, EndConnection,
       InitConnection, Discover, Allocate, Register, StartServer, ConnectedOnce,
       AttemptFailed
  <2>3. CASE Listen \/ StopServer \/ ServerFatal \/ EnvStep \/ UNCHANGED vars
    BY <2>3 DEF Listen, StopServer, ServerFatal, EnvStep, QMgrStops, QMgrStarts,
       ConnectionBreaks, QMgrPublishes, PollIntervalElapses, Unaffected, vars
  <2>4. ASSUME NEW t \in Scrapers, ScrapeStep(t) PROVE Kept
    <3>1. CASE Gather(t) \/ CollectDown(t) \/ CollectStart(t) \/ Respond(t)
      BY <3>1 DEF Gather, CollectDown, CollectStart, Respond
    <3>2. CASE InsideCollect(t)
      <4>1. InCollect(t)
        BY <3>2 DEF InsideCollect, CollectPublications, CollectPoll, CollectPublish,
           InCollect
      <4>2. t = s
        BY <1>1, <2>1, <4>1 DEF MutexProtects
      <4>3. scrape'[t] # "replied" /\ scrape \in [Scrapers -> ScrapePCs]
        BY <1>1, <4>2 DEF InCollect, TypeInv, TypeOK, ScrapesTyped
      <4> QED
        BY <3>2, <4>3 DEF InsideCollect, CollectPublications, CollectPoll, CollectPublish,
           CollectFails, Answer
    <3> QED
      BY <2>4, <3>1, <3>2 DEF ScrapeStep, EnterCollect
  <2> QED
    BY <1>1, <2>2, <2>3, <2>4 DEF Next, ProcessGone
<1>2. TypeInv /\ MutexProtects /\ [Next]_vars =>
        \A s \in Scrapers : InCollect(s) /\ InCollect(s)' => Kept
  BY <1>1
<1>3. TypeInv /\ MutexProtects /\ [Next]_vars =>
        [\A s \in Scrapers : InCollect(s) /\ InCollect(s)' => Kept]_vars
  BY <1>2
<1> QED
  BY <1>3, AlwaysTyped, MutualExclusion, PTL DEF Spec, CollectUndisturbed

-----------------------------------------------------------------------------
(* One connection.                                                         *)

\* A handle is open exactly while the session says so, but for the time
\* between EndConnection and the next MQCONNX.
HandleIsSession == hconns = IF ci.connected /\ main # "init" THEN 1 ELSE 0

\* If MQCONNX never completes with a warning, the collector never has two
\* connections.
THEOREM AtMostOneConnection == ASSUME ~Warnings PROVE Spec => []OneConnection
<1>1. Init => HandleIsSession
  BY DEF Init, HandleIsSession, NoSession
<1>2. ASSUME TypeInv, HandleIsSession, [Next]_vars PROVE HandleIsSession'
  <2> USE DEF HandleIsSession, session
  <2>1. CASE EndConnection
    BY <1>2, <2>1 DEF EndConnection, HandlesAfterEnd
  <2>2. CASE InitConnection
    <3>1. hconns = 0
      BY <1>2, <2>2 DEF InitConnection
    <3>2. \/ NewSession(TRUE) /\ hconns' = hconns + 1 /\ main' # "init"
          \/ ci' = NoSession /\ hconns' = hconns
      BY <2>2 DEF InitConnection
    <3>3. CASE NewSession(TRUE) /\ hconns' = hconns + 1 /\ main' # "init"
      BY <3>1, <3>3 DEF NewSession
    <3>4. CASE ci' = NoSession /\ hconns' = hconns
      BY <3>1, <3>4 DEF NoSession
    <3> QED
      BY <3>2, <3>3, <3>4
  <2>3. CASE Discover
    BY <1>2, <2>3 DEF Discover, TypeInv, TypeOK, SessionTyped, Sessions
  <2>4. CASE UNCHANGED session /\ (main' = "init" <=> main = "init")
    BY <1>2, <2>4
  <2>5. CASE MainStep
    BY <2>1, <2>2, <2>3, <2>4, <2>5 DEF MainStep, LoopTop, LockMutex, Allocate, Register,
       StartServer, ConnectedOnce, AttemptFailed
  <2>6. CASE Listen \/ StopServer \/ ServerFatal \/ EnvStep \/ UNCHANGED vars
    BY <2>4, <2>6 DEF Listen, StopServer, ServerFatal, EnvStep, QMgrStops, QMgrStarts,
       ConnectionBreaks, QMgrPublishes, PollIntervalElapses, Unaffected, vars
  <2>7. CASE \E s \in Scrapers : ScrapeStep(s)
    BY <2>4, <2>7, ScrapeFrame
  <2> QED
    BY <1>2, <2>5, <2>6, <2>7 DEF Next, ProcessGone
<1>3. HandleIsSession => OneConnection
  BY DEF HandleIsSession, OneConnection
<1>4. TypeInv /\ HandleIsSession /\ [Next]_vars => HandleIsSession'
  BY <1>2
<1> QED
  BY <1>1, <1>3, <1>4, AlwaysTyped, PTL DEF Spec

-----------------------------------------------------------------------------
(* The start of the web server.                                            *)

\* Main, which holds the mutex while it sends on startChannel, sends only to a
\* server that has not received yet, and before connectedOnce is set; and no
\* request is there before.
Handshake ==
    /\ main = "signal" => server = "waiting" /\ mutex = Main
    /\ main = "once" => server # "waiting"
    /\ server = "waiting" => ~connectedOnce /\ \A s \in Scrapers : scrape[s] = "idle"

\* The unbuffered channel never blocks the main loop for good: main sends on
\* it, with the mutex held, only while the server's goroutine waits for it.
THEOREM SendMeetsServer == Spec => []HolderNeverStuck
<1>1. Init => Handshake
  BY DEF Init, Handshake
<1>2. ASSUME TypeInv, MutexProtects, Handshake, [Next]_vars PROVE Handshake'
  <2> USE DEF Handshake, flags
  <2>1. CASE MainStep
    <3>1. scrape' = scrape
      BY <2>1 DEF MainStep, LoopTop, LockMutex, EndConnection, InitConnection, Discover,
         Allocate, Register, StartServer, ConnectedOnce, AttemptFailed
    <3>2. CASE Register
      BY <1>2, <3>1, <3>2 DEF Register, MutexProtects, InAttempt, MainPCs
    <3>3. CASE StartServer
      BY <1>2, <3>1, <3>3 DEF StartServer
    <3>4. CASE ConnectedOnce
      BY <1>2, <3>1, <3>4 DEF ConnectedOnce
    <3>5. CASE ~Register /\ ~StartServer /\ ~ConnectedOnce
      <4>1. /\ UNCHANGED <<server, connectedOnce>>
            /\ main' \notin {"signal", "once"}
        BY <2>1, <3>5 DEF MainStep, LoopTop, LockMutex, EndConnection, InitConnection,
           Discover, Allocate, AttemptFailed
      <4> QED
        BY <1>2, <3>1, <4>1
    <3> QED
      BY <3>2, <3>3, <3>4, <3>5
  <2>2. CASE Listen \/ StopServer \/ ServerFatal
    BY <1>2, <2>2 DEF Listen, StopServer, ServerFatal
  <2>3. CASE EnvStep \/ UNCHANGED vars
    <3>1. UNCHANGED <<main, mutex, connectedOnce, server, scrape>>
      BY <2>3 DEF EnvStep, QMgrStops, QMgrStarts, ConnectionBreaks, QMgrPublishes,
         PollIntervalElapses, Unaffected, vars
    <3> QED
      BY <1>2, <3>1
  <2>4. ASSUME NEW s \in Scrapers, ScrapeStep(s) PROVE Handshake'
    <3>1. server # "waiting"
      BY <1>2, <2>4 DEF ScrapeStep, Gather, EnterCollect, CollectDown, CollectStart,
         InsideCollect, CollectPublications, CollectPoll, CollectPublish, Respond
    <3> QED
      BY <1>2, <2>4, <3>1, ScrapeFrame
  <2> QED
    BY <1>2, <2>1, <2>2, <2>3, <2>4 DEF Next, ProcessGone
<1>3. TypeInv /\ MutexProtects /\ Handshake => HolderNeverStuck
  BY NamesAssumption DEF Handshake, HolderNeverStuck, MutexProtects, InAttempt, InCollect
<1>4. TypeInv /\ MutexProtects /\ Handshake /\ [Next]_vars => Handshake'
  BY <1>2
<1> QED
  BY <1>1, <1>3, <1>4, AlwaysTyped, MutualExclusion, PTL DEF Spec

-----------------------------------------------------------------------------
(* The end of the main loop.                                               *)

\* The loop is told to end by the failure of the web server, or by a failed
\* attempt after which main goes straight to the top of its loop.
EndsForCause ==
    /\ main = "failed" => mainErr
    /\ collectorEnd => server = "stopping" \/ (main = "top" /\ mainErr /\ NoRetry)
    /\ exit \in {"0", "10"} => collectorEnd
    /\ exit = "0" => server = "stopping"

\* A collector that keeps running and was connected once ends only with its
\* web server, provided no MQ call fails with the code that the second case
\* of the switch on mqrc stands for.
THEOREM EndsWithServer ==
    ASSUME QuitCase \notin CollectRCs PROVE Spec => []KeepsRunning
<1>1. Init => EndsForCause
  BY DEF Init, EndsForCause
<1>2. ASSUME TypeInv, EndsForCause, ~Gone, Next PROVE EndsForCause'
  <2> USE DEF EndsForCause, flags
  <2>0. collectorEnd \in BOOLEAN /\ mainErr \in BOOLEAN /\ exit = Running
    BY <1>2 DEF TypeInv, TypeOK, ControlTyped, Gone
  <2>1. CASE LoopTop
    BY <1>2, <2>0, <2>1 DEF LoopTop, NoRetry
  <2>2. CASE /\ UNCHANGED <<exit, mainErr, server, collectorEnd, connectedOnce>>
             /\ main = "top" => main' = "top"
             /\ main' = "failed" => main = "failed"
    BY <1>2, <2>2 DEF NoRetry
  <2>3. CASE LockMutex \/ EndConnection \/ Allocate
    <3>1. /\ UNCHANGED <<exit, mainErr, server, collectorEnd, connectedOnce>>
          /\ main # "top" /\ main' # "failed"
      BY <2>3 DEF LockMutex, EndConnection, Allocate
    <3> QED
      BY <2>2, <3>1
  <2>4. CASE Discover
    BY <1>2, <2>0, <2>4 DEF Discover, NoRetry
  <2>5. CASE InitConnection
    BY <1>2, <2>0, <2>5 DEF InitConnection, NoRetry
  <2>6. CASE Register \/ ConnectedOnce \/ StartServer
    BY <1>2, <2>0, <2>6 DEF Register, ConnectedOnce, StartServer, NoRetry
  <2>7. CASE AttemptFailed
    BY <1>2, <2>0, <2>7 DEF AttemptFailed, NoRetry
  <2>8. CASE Listen \/ StopServer \/ ServerFatal
    <3>1. CASE Listen
      BY <1>2, <2>0, <3>1 DEF Listen, NoRetry
    <3>2. CASE StopServer
      BY <1>2, <2>0, <3>2 DEF StopServer
    <3>3. CASE ServerFatal
      BY <1>2, <2>0, <3>3 DEF ServerFatal, NoRetry
    <3> QED
      BY <2>8, <3>1, <3>2, <3>3
  <2>9. CASE EnvStep
    BY <2>2, <2>9 DEF EnvStep, QMgrStops, QMgrStarts, ConnectionBreaks, QMgrPublishes,
       PollIntervalElapses, Unaffected
  <2>10. ASSUME NEW s \in Scrapers, ScrapeStep(s) PROVE EndsForCause'
    <3>1. collectorEnd' = collectorEnd
      <4>1. CollectFails(s) => collectorEnd' = collectorEnd
        BY <2>0, QuitCase \notin CollectRCs DEF CollectFails
      <4> QED
        BY <2>10, <4>1
           DEF ScrapeStep, Gather, EnterCollect, CollectDown, CollectStart, InsideCollect,
           CollectPublications, CollectPoll, CollectPublish, Respond
    <3> QED
      BY <1>2, <2>0, <2>10, <3>1, ScrapeFrame DEF NoRetry
  <2> QED
    BY <1>2, <2>1, <2>5, <2>6, <2>7, <2>8, <2>9, <2>10, <2>3, <2>4
       DEF Next, MainStep, ProcessGone
<1>3. ASSUME TypeInv, EndsForCause, [Next]_vars PROVE EndsForCause'
  <2>1. UNCHANGED vars => EndsForCause'
    BY <1>3 DEF vars, flags, EndsForCause, NoRetry
  <2> QED
    BY <1>2, <1>3, <2>1 DEF Next, ProcessGone
<1>4. EndsForCause => KeepsRunning
  BY DEF EndsForCause, KeepsRunning, NoRetry
<1>5. TypeInv /\ EndsForCause /\ [Next]_vars => EndsForCause'
  BY <1>3
<1> QED
  BY <1>1, <1>4, <1>5, AlwaysTyped, PTL DEF Spec

-----------------------------------------------------------------------------
(* The backlog.                                                            *)

\* While main is in an attempt that has not registered its collector yet, no
\* queue manager is connected; and a scrape is in its Collect only while one is.
ConnectedWhenUsed ==
    /\ main \in {"lock", "end", "init", "discover", "allocate", "register", "failed"}
          => ~connectedQMgr
    /\ \A s \in Scrapers : InCollect(s) => connectedQMgr

\* Where the backlog of a connection can be: on the reply queue until it is
\* first drained, then in the values of the first collection only.
BacklogHeld ==
    /\ connectedQMgr /\ ~drained => firstCollection
    /\ "backlog" \in pubQ => ~drained
    /\ \A s \in Scrapers : scrape[s] \in {"poll", "publish"} =>
          drained /\ ("backlog" \in values => firstCollection)
    /\ NoBacklogPublished

BacklogInv == ConnectedWhenUsed /\ BacklogHeld

\* At the start there is no connection, no publication and no gauge.
LEMMA BacklogInit == ASSUME Init PROVE BacklogInv
BY DEF Init, BacklogInv, ConnectedWhenUsed, BacklogHeld, NoBacklogPublished, InCollect,
   NoReply

\* A new connection starts with an empty, undrained reply queue, and with
\* firstCollection set before a scrape can see it.
LEMMA BacklogMain ==
    ASSUME TypeInv, MutexProtects, BacklogInv, MainStep PROVE BacklogInv'
<1>1. scrape' = scrape /\ reply' = reply /\ values' = values
  BY DEF MainStep, LoopTop, LockMutex, EndConnection, InitConnection, Discover,
     Allocate, Register, StartServer, ConnectedOnce, AttemptFailed, info
<1>2. main \notin {"top", "lock"} => \A s \in Scrapers : ~InCollect(s)
  BY NamesAssumption DEF MutexProtects, InAttempt, TypeInv, TypeOK, ControlTyped
<1>3. NoBacklogPublished'
  BY <1>1 DEF BacklogInv, BacklogHeld, NoBacklogPublished
<1>4. CASE main \in {"top", "lock"}
  <2>1. UNCHANGED <<connectedQMgr, firstCollection, drained, pubQ>>
    BY <1>4 DEF MainStep, LoopTop, LockMutex, EndConnection, InitConnection, Discover,
       Allocate, Register, StartServer, ConnectedOnce, AttemptFailed, flags, env
  <2>2. main' \in {"lock", "end"} => ~connectedQMgr
    BY <1>4 DEF BacklogInv, ConnectedWhenUsed, MainStep, LoopTop, LockMutex,
       EndConnection, InitConnection, Discover, Allocate, Register, StartServer,
       ConnectedOnce, AttemptFailed
  <2>3. main' \in {"top", "lock", "end"}
    BY <1>4 DEF MainStep, LoopTop, LockMutex, EndConnection, InitConnection, Discover,
       Allocate, Register, StartServer, ConnectedOnce, AttemptFailed
  <2> QED
    BY <1>1, <1>3, <2>1, <2>2, <2>3 DEF BacklogInv, ConnectedWhenUsed, BacklogHeld, InCollect
<1>5. CASE main \notin {"top", "lock"}
  <2>1. \A s \in Scrapers : ~InCollect(s)' /\ scrape'[s] \notin {"poll", "publish"}
    BY <1>1, <1>2, <1>5 DEF InCollect
  <2>2. ConnectedWhenUsed'
    <3>1. \/ main' \in {"top", "signal", "once"}
          \/ connectedQMgr' = connectedQMgr /\ main \notin {"signal", "once"}
      BY <1>5 DEF MainStep, LoopTop, LockMutex, EndConnection, InitConnection, Discover,
         Allocate, Register, StartServer, ConnectedOnce, AttemptFailed, flags
    <3> QED
      BY <1>5, <2>1, <3>1
         DEF BacklogInv, ConnectedWhenUsed, TypeInv, TypeOK, ControlTyped, MainPCs
  <2>3. (connectedQMgr /\ ~drained => firstCollection)'
    BY <1>5 DEF BacklogInv, BacklogHeld, ConnectedWhenUsed, MainStep, LoopTop, LockMutex,
       EndConnection, InitConnection, Discover, Allocate, Register, StartServer,
       ConnectedOnce, AttemptFailed, flags, env
  <2>4. ("backlog" \in pubQ => ~drained)'
    BY <1>5 DEF BacklogInv, BacklogHeld, MainStep, LoopTop, LockMutex,
       EndConnection, InitConnection, Discover, Allocate, Register, StartServer,
       ConnectedOnce, AttemptFailed, env
  <2> QED
    BY <1>3, <2>1, <2>2, <2>3, <2>4 DEF BacklogInv, BacklogHeld
<1> QED
  BY <1>4, <1>5

\* firstCollection is given up only by the Collect that drained the queue, and
\* that Collect does not publish what it read.
LEMMA BacklogScrape ==
    ASSUME TypeInv, MutexProtects, BacklogInv, NEW s \in Scrapers, ScrapeStep(s)
    PROVE  BacklogInv'
<1> USE DEF flags, info, env
<1>1. scrape \in [Scrapers -> ScrapePCs] /\ reply \in [Scrapers -> Replies]
  BY DEF TypeInv, TypeOK, ScrapesTyped
<1>2. main' = main
  BY ScrapeFrame
<1>3. CASE Gather(s) \/ Respond(s) \/ CollectDown(s)
  <2>1. UNCHANGED <<connectedQMgr, firstCollection, drained, pubQ, values>>
    BY <1>3 DEF Gather, Respond, CollectDown
  <2>2. \A t \in Scrapers : \/ scrape'[t] \notin {"publications", "poll", "publish"}
                            \/ scrape'[t] = scrape[t]
    BY <1>1, <1>3 DEF Gather, Respond, CollectDown, Answer
  <2>3. \A t \in Scrapers : reply'[t].pubs = {} \/ reply'[t] = reply[t]
    <3>1. /\ NoReply.pubs = {} /\ [NoReply EXCEPT !.kind = "nothing"].pubs = {}
          /\ [NoReply EXCEPT !.kind = "down", !.status = statusVec'].pubs = {}
      BY DEF NoReply
    <3>2. \/ reply' = reply \/ reply' = [reply EXCEPT ![s] = NoReply]
          \/ reply' = [reply EXCEPT ![s] = [NoReply EXCEPT !.kind = "nothing"]]
          \/ reply' = [reply EXCEPT ![s] = [NoReply EXCEPT !.kind = "down", !.status = statusVec']]
      BY <1>3 DEF Gather, Respond, CollectDown, Answer
    <3> QED
      BY <1>1, <3>1, <3>2
  <2> QED
    BY <1>2, <2>1, <2>2, <2>3
       DEF BacklogInv, ConnectedWhenUsed, BacklogHeld, NoBacklogPublished, InCollect
<1>4. CASE CollectStart(s)
  <2>1. /\ UNCHANGED <<connectedQMgr, firstCollection, drained, pubQ, reply>>
        /\ values' = {} /\ connectedQMgr
    BY <1>4 DEF CollectStart
  <2>2. \A t \in Scrapers : scrape'[t] = scrape[t] \/ scrape'[t] = "publications"
    BY <1>1, <1>4 DEF CollectStart
  <2> QED
    BY <1>2, <2>1, <2>2
       DEF BacklogInv, ConnectedWhenUsed, BacklogHeld, NoBacklogPublished, InCollect
<1>5. CASE InsideCollect(s)
  <2>1. InCollect(s) /\ mutex = s
    BY <1>5 DEF InsideCollect, CollectPublications, CollectPoll, CollectPublish,
       InCollect, MutexProtects
  <2>2. \A t \in Scrapers \ {s} :
           /\ ~InCollect(t) /\ scrape'[t] = scrape[t] /\ reply'[t] = reply[t]
    BY <1>1, <1>5, <2>1 DEF MutexProtects, InsideCollect, CollectPublications,
       CollectPoll, CollectPublish, CollectFails, Answer
  <2>3. main \notin {"lock", "end", "init", "discover", "allocate", "register", "failed"}
    BY <2>1 DEF BacklogInv, ConnectedWhenUsed
  <2>4. CollectFails(s) => scrape'[s] = "replied" /\ reply'[s].pubs = {}
    BY <1>1 DEF CollectFails, Answer, NoReply
  <2>5. CASE CollectFails(s) /\ UNCHANGED <<firstCollection, drained>> /\ pubQ' \subseteq pubQ
    <3>1. connectedQMgr' => connectedQMgr
      BY <2>1 DEF BacklogInv, ConnectedWhenUsed
    <3> QED
      BY <1>2, <2>2, <2>3, <2>5, <2>4, <3>1
         DEF BacklogInv, ConnectedWhenUsed, BacklogHeld, NoBacklogPublished, InCollect
  <2>6. CASE CollectPublications(s) /\ scrape'[s] = "poll"
    <3>1. /\ values' = pubQ /\ pubQ' = {} /\ drained' = TRUE
          /\ UNCHANGED <<connectedQMgr, firstCollection, reply>>
          /\ scrape'[s] = "poll"
      BY <1>1, <2>6, <2>4 DEF CollectPublications
    <3>2. "backlog" \in pubQ => firstCollection
      BY <2>1 DEF BacklogInv, ConnectedWhenUsed, BacklogHeld
    <3> QED
      BY <1>2, <2>1, <2>2, <2>3, <3>1, <3>2
         DEF BacklogInv, ConnectedWhenUsed, BacklogHeld, NoBacklogPublished, InCollect
  <2>7. CASE CollectPoll(s) /\ scrape'[s] = "publish"
    <3>1. /\ UNCHANGED <<connectedQMgr, firstCollection, drained, pubQ, values, reply>>
          /\ scrape[s] = "poll" /\ scrape'[s] = "publish"
      BY <1>1, <2>7, <2>4 DEF CollectPoll
    <3> QED
      BY <1>2, <2>1, <2>2, <3>1
         DEF BacklogInv, ConnectedWhenUsed, BacklogHeld, NoBacklogPublished, InCollect
  <2>8. CASE CollectPublish(s)
    <3>1. /\ UNCHANGED <<connectedQMgr, drained, pubQ, values>>
          /\ scrape[s] = "publish" /\ scrape'[s] = "replied"
          /\ reply'[s].pubs = Publishable
      BY <1>1, <2>8 DEF CollectPublish, Answer, NoReply
    <3>2. drained /\ "backlog" \notin Publishable
      BY <3>1 DEF Publishable, BacklogInv, BacklogHeld
    <3> QED
      BY <1>2, <2>2, <2>3, <3>1, <3>2
         DEF BacklogInv, ConnectedWhenUsed, BacklogHeld, NoBacklogPublished, InCollect
  <2> QED
    BY <1>1, <1>5, <2>5, <2>6, <2>7, <2>8 DEF InsideCollect, CollectPublications, CollectPoll
<1> QED
  BY <1>3, <1>4, <1>5 DEF ScrapeStep, EnterCollect

\* Only the queue manager adds to the reply queue, and what it adds is of the
\* backlog until the queue has been drained.
LEMMA BacklogStep ==
    ASSUME TypeInv, MutexProtects, BacklogInv, [Next]_vars PROVE BacklogInv'
<1>1. ASSUME UNCHANGED <<main, connectedQMgr, firstCollection, scrape, reply, values, drained>>,
             pubQ' \subseteq pubQ \/ (pubQ' = pubQ \union {"recent"})
                                 \/ (pubQ' = pubQ \union {"backlog"} /\ ~drained)
      PROVE  BacklogInv'
  BY <1>1 DEF BacklogInv, ConnectedWhenUsed, BacklogHeld, NoBacklogPublished, InCollect
<1>2. CASE EnvStep
  <2>1. UNCHANGED <<main, connectedQMgr, firstCollection, scrape, reply, values, drained>>
    BY <1>2 DEF EnvStep, QMgrStops, QMgrStarts, ConnectionBreaks, QMgrPublishes,
       PollIntervalElapses, Unaffected, flags, info
  <2>2. pubQ' \subseteq pubQ \/ (pubQ' = pubQ \union {"recent"})
                            \/ (pubQ' = pubQ \union {"backlog"} /\ ~drained)
    BY <1>2 DEF EnvStep, QMgrStops, QMgrStarts, ConnectionBreaks, QMgrPublishes,
       PollIntervalElapses
  <2> QED
    BY <1>1, <2>1, <2>2
<1>3. CASE Listen \/ StopServer \/ ServerFatal \/ UNCHANGED vars
  BY <1>1, <1>3 DEF Listen, StopServer, ServerFatal, vars, flags, info, env
<1> QED
  BY <1>2, <1>3, BacklogMain, BacklogScrape DEF Next, ProcessGone

\* No answer ever carries a value of a publication that was waiting when the
\* first collection of its connection read the reply queue.
THEOREM BacklogNeverPublished == Spec => []NoBacklogPublished
<1>1. TypeInv /\ MutexProtects /\ BacklogInv /\ [Next]_vars => BacklogInv'
  BY BacklogStep
<1>2. BacklogInv => NoBacklogPublished
  BY DEF BacklogInv, BacklogHeld
<1> QED
  BY <1>1, <1>2, BacklogInit, AlwaysTyped, MutualExclusion, PTL DEF Spec
=============================================================================
