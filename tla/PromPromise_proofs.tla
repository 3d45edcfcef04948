------------------------- MODULE PromPromise_proofs -------------------------
(***************************************************************************)
(* PromCollector implements ScrapeService: each step of the collector is,  *)
(* under the refinement mapping of `Promise`, a step of the service or a   *)
(* stutter of it.                                                          *)
(***************************************************************************)
EXTENDS PromCollector_proofs

USE DEF Main, Nobody, MQRC_NONE, Running, ServerOnce

\* What the mapping rests on: nothing is asked of a server that has not been
\* started; a connected collector is registered, and the server is started by
\* a connected one; an answered request has an answer.
ServiceInv ==
    /\ \A s \in Scrapers : scrape[s] # "idle" => server # "waiting"
    /\ connectedQMgr => descIDs # {}
    /\ main \in {"signal", "once"} => connectedQMgr
    /\ \A s \in Scrapers : scrape[s] = "replied" => reply[s].kind \in Kinds \ {"none"}

AllInv == TypeInv /\ MutexProtects /\ ConnectedWhenUsed /\ ServiceInv

\* The mapped request of every scrape.
Requests == [s \in Scrapers |-> RequestState(s)]

\* A step that leaves scrapes and answers alone leaves the requests alone.
LEMMA SameRequests ==
    ASSUME UNCHANGED <<scrape, reply>> PROVE Requests' = Requests
BY DEF Requests, RequestState

\* A step of one scrape changes one request.
LEMMA OneRequest ==
    ASSUME TypeInv, NEW s \in Scrapers,
           \A t \in Scrapers \ {s} : scrape'[t] = scrape[t] /\ reply'[t] = reply[t]
    PROVE  Requests' = [Requests EXCEPT ![s] = RequestState(s)']
BY DEF Requests, RequestState

\* A scrape never touches the progress or the answer of another one.
LEMMA OwnRequest ==
    ASSUME TypeInv, NEW s \in Scrapers, ScrapeStep(s)
    PROVE  \A t \in Scrapers \ {s} : scrape'[t] = scrape[t] /\ reply'[t] = reply[t]
<1>1. scrape \in [Scrapers -> ScrapePCs] /\ reply \in [Scrapers -> Replies]
  BY DEF TypeInv, TypeOK, ScrapesTyped
<1> QED
  BY <1>1 DEF ScrapeStep, Gather, EnterCollect, CollectDown, CollectStart, InsideCollect,
     CollectPublications, CollectPoll, CollectPublish, Respond, Answer, CollectFails

\* What answering does to the mapped request.
LEMMA AnswerMapped ==
    ASSUME TypeInv, NEW s \in Scrapers, NEW answer, Answer(s, answer)
    PROVE  /\ scrape'[s] = "replied" /\ reply'[s] = answer
           /\ RequestState(s)' = answer.kind
BY DEF Answer, TypeInv, TypeOK, ScrapesTyped, RequestState

\* The four ways in which a scrape gets its answer.
AnswerDone(s) ==
    \/ Answer(s, [NoReply EXCEPT !.kind = "nothing"])
    \/ Answer(s, [NoReply EXCEPT !.kind = "down", !.status = statusVec'])
    \/ CollectFails(s)
    \/ Answer(s, [NoReply EXCEPT !.kind = "data", !.pubs = ruaVec', !.status = statusVec'])

\* Each gives an answer of a kind the client knows.
LEMMA AnswerDoneMapped ==
    ASSUME TypeInv, NEW s \in Scrapers, AnswerDone(s)
    PROVE  reply'[s].kind \in {"nothing", "down", "error", "data"}
<1>1. CASE Answer(s, [NoReply EXCEPT !.kind = "nothing"])
  BY <1>1, AnswerMapped DEF NoReply
<1>2. CASE Answer(s, [NoReply EXCEPT !.kind = "down", !.status = statusVec'])
  <2>1. [NoReply EXCEPT !.kind = "down", !.status = statusVec'].kind = "down"
    BY DEF NoReply
  <2> QED
    BY <1>2, <2>1, AnswerMapped
<1>3. CASE CollectFails(s)
  <2>1. PICK rc \in CollectRCs : Answer(s, [NoReply EXCEPT !.kind = "error"])
    BY <1>3 DEF CollectFails
  <2>2. [NoReply EXCEPT !.kind = "error"].kind = "error"
    BY DEF NoReply
  <2> QED
    BY <2>1, <2>2, AnswerMapped
<1>4. CASE Answer(s, [NoReply EXCEPT !.kind = "data", !.pubs = ruaVec', !.status = statusVec'])
  <2>1. [NoReply EXCEPT !.kind = "data", !.pubs = ruaVec', !.status = statusVec'].kind
           = "data"
    BY DEF NoReply
  <2> QED
    BY <1>4, <2>1, AnswerMapped
<1> QED
  BY <1>1, <1>2, <1>3, <1>4 DEF AnswerDone

\* At the start no request is under way.
LEMMA ServiceInvInit == ASSUME Init PROVE ServiceInv
BY DEF Init, ServiceInv

\* The main loop registers a collector before it declares the queue manager
\* connected, and starts the server only then.
LEMMA ServiceInvMain ==
    ASSUME TypeInv, ConnectedWhenUsed, ServiceInv, MainStep PROVE ServiceInv'
<1> USE DEF flags, registry
<1>1. /\ scrape' = scrape /\ reply' = reply
      /\ server # "waiting" => server' # "waiting"
  BY DEF MainStep, LoopTop, LockMutex, EndConnection, InitConnection, Discover,
     Allocate, Register, StartServer, ConnectedOnce, AttemptFailed
<1>2. (connectedQMgr => descIDs # {})'
  <2>1. CASE Allocate
    BY <2>1 DEF Allocate, ConnectedWhenUsed
  <2>2. CASE Register
    <3>1. Described # {}
      BY <2>2, LevelsAssumption DEF Register, Described, TypeInv, LevelKnown
    <3> QED
      BY <2>2, <3>1 DEF Register, ConnectedWhenUsed
  <2> QED
    BY <2>1, <2>2 DEF ServiceInv, MainStep, LoopTop, LockMutex, EndConnection,
       InitConnection, Discover, StartServer, ConnectedOnce, AttemptFailed
<1>3. (main \in {"signal", "once"} => connectedQMgr)'
  BY DEF ServiceInv, MainStep, LoopTop, LockMutex, EndConnection, InitConnection,
     Discover, Allocate, Register, StartServer, ConnectedOnce, AttemptFailed
<1> QED
  BY <1>1, <1>2, <1>3 DEF ServiceInv

\* A scrape never declares the queue manager connected, reaches a server that
\* listens only, and leaves an answer of a known kind.
LEMMA ServiceInvScrape ==
    ASSUME TypeInv, MutexProtects, ServiceInv, NEW s \in Scrapers, ScrapeStep(s)
    PROVE  ServiceInv'
<1> USE DEF flags, registry
<1>1. UNCHANGED <<server, descIDs, main>>
  BY ScrapeFrame
<1>2. connectedQMgr' # connectedQMgr => main \notin {"signal", "once"}
  <2>1. CASE InsideCollect(s)
    <3>1. mutex = s
      BY <2>1 DEF InsideCollect, CollectPublications, CollectPoll, CollectPublish,
         InCollect, MutexProtects
    <3> QED
      BY <3>1, NamesAssumption DEF MutexProtects, InAttempt, MainPCs
  <2> QED
    BY <2>1 DEF ScrapeStep, Gather, EnterCollect, CollectDown, CollectStart, Respond
<1>3. connectedQMgr' => connectedQMgr \/ CollectFails(s)
  BY DEF ScrapeStep, Gather, EnterCollect, CollectDown, CollectStart, InsideCollect,
     CollectPublications, CollectPoll, CollectPublish, Respond
<1>4. CollectFails(s) => ~connectedQMgr'
  BY ReasonAssumption DEF CollectFails, StaysConnected
<1>5. scrape'[s] # "idle" => server # "waiting"
  BY DEF ServiceInv, ScrapeStep, Gather, EnterCollect, CollectDown, CollectStart,
     InsideCollect, CollectPublications, CollectPoll, CollectPublish, Respond, TypeInv,
     TypeOK, ScrapesTyped
<1>6. scrape'[s] = "replied" => reply'[s].kind \in Kinds \ {"none"}
  <2>1. scrape'[s] # "replied" \/ AnswerDone(s)
    BY DEF AnswerDone, ScrapeStep, Gather, EnterCollect, CollectDown, CollectStart,
       InsideCollect, CollectPublications, CollectPoll, CollectPublish, Respond, TypeInv,
       TypeOK, ScrapesTyped
  <2> QED
    BY <2>1, AnswerDoneMapped DEF Kinds
<1> QED
  BY <1>1, <1>2, <1>3, <1>4, <1>5, <1>6, OwnRequest DEF ServiceInv

\* A step of the server, the queue manager or the clock asks and answers nothing.
LEMMA OtherFrame ==
    ASSUME Listen \/ StopServer \/ ServerFatal \/ EnvStep \/ UNCHANGED vars
    PROVE  /\ UNCHANGED <<scrape, reply, connectedQMgr, descIDs, main, mutex>>
           /\ server' = server \/ (server # "waiting" /\ server' # "waiting")
           /\ exit' = exit \/ exit' = "1"
BY DEF Listen, StopServer, ServerFatal, EnvStep, QMgrStops, QMgrStarts, ConnectionBreaks,
   QMgrPublishes, PollIntervalElapses, Unaffected, vars, flags, registry

\* No step breaks the link of the flags with the progress of the requests.
LEMMA ServiceInvStep ==
    ASSUME TypeInv, MutexProtects, ConnectedWhenUsed, ServiceInv, [Next]_vars
    PROVE  ServiceInv'
<1>1. CASE Listen \/ StopServer \/ ServerFatal \/ EnvStep \/ UNCHANGED vars
  BY <1>1, OtherFrame DEF ServiceInv
<1> QED
  BY <1>1, ServiceInvMain, ServiceInvScrape DEF Next, ProcessGone

\* All the invariants the refinement rests on hold in every state.
THEOREM AlwaysAllInv == Spec => []AllInv
<1>1. TypeInv /\ MutexProtects /\ ConnectedWhenUsed /\ ServiceInv /\ [Next]_vars
        => ServiceInv'
  BY ServiceInvStep
<1>2. TypeInv /\ MutexProtects /\ BacklogInv /\ [Next]_vars => BacklogInv'
  BY BacklogStep
<1>3. BacklogInv => ConnectedWhenUsed
  BY DEF BacklogInv
<1> QED
  BY <1>1, <1>2, <1>3, BacklogInit, ServiceInvInit, AlwaysTyped, MutualExclusion, PTL
     DEF Spec, AllInv

-----------------------------------------------------------------------------
(* The steps.                                                              *)

\* The collector starts as the service does.
LEMMA MapInit == ASSUME Init PROVE Promise!ServiceInit
<1>1. ServicePhase = "starting"
  BY DEF Init, ServicePhase, Gone
<1>2. \A s \in Scrapers : RequestState(s) = "none"
  BY DEF Init, RequestState
<1> QED
  BY <1>1, <1>2 DEF Promise!ServiceInit

\* A step that keeps requests, and the parts the phase is made of, is a stutter.
LEMMA MapStutter ==
    ASSUME UNCHANGED <<scrape, reply, exit, connectedQMgr>>,
           connectedQMgr \/ (server = "waiting" <=> server' = "waiting")
    PROVE  UNCHANGED Promise!svars
<1>1. UNCHANGED ServicePhase
  BY DEF ServicePhase, Gone
<1>2. \A s \in Scrapers : RequestState(s)' = RequestState(s)
  BY DEF RequestState
<1> QED
  BY <1>1, <1>2 DEF Promise!svars

\* When the process ends, so does the service.
LEMMA MapEnd ==
    ASSUME UNCHANGED <<scrape, reply>>, exit = Running, exit' # Running
    PROVE  Promise!End
<1>1. ServicePhase # "ended" /\ ServicePhase' = "ended"
  BY DEF ServicePhase, Gone
<1>2. \A s \in Scrapers : RequestState(s)' = RequestState(s)
  BY DEF RequestState
<1> QED
  BY <1>1, <1>2 DEF Promise!End

\* A step of the main loop is a stutter of the service, makes it available, or
\* ends it.
LEMMA MapMain ==
    ASSUME AllInv, ~Gone, MainStep PROVE [Promise!ServiceNext]_Promise!svars
<1> USE DEF flags
<1>1. UNCHANGED <<scrape, reply>> /\ exit = Running
  BY DEF MainStep, LoopTop, LockMutex, EndConnection, InitConnection, Discover,
     Allocate, Register, StartServer, ConnectedOnce, AttemptFailed, Gone
<1>2. CASE exit' # Running
  BY <1>1, <1>2, MapEnd DEF Promise!ServiceNext
<1>3. CASE Register /\ exit' = Running
  <2>1. ~connectedQMgr /\ connectedQMgr'
    BY <1>1, <1>3 DEF Register, AllInv, ConnectedWhenUsed, Exits
  <2>2. ServicePhase \in {"starting", "down"} /\ ServicePhase' = "up"
    BY <1>1, <1>3, <2>1 DEF ServicePhase, Gone
  <2>3. \A s \in Scrapers : RequestState(s)' = RequestState(s)
    BY <1>1 DEF RequestState
  <2> QED
    BY <2>2, <2>3 DEF Promise!ServiceNext, Promise!Available
<1>4. CASE ~Register /\ exit' = Running
  <2>1. /\ connectedQMgr' = connectedQMgr
        /\ connectedQMgr \/ server' = server
    BY <1>4 DEF AllInv, ServiceInv, MainStep, LoopTop, LockMutex, EndConnection,
       InitConnection, Discover, Allocate, StartServer, ConnectedOnce, AttemptFailed
  <2> QED
    BY <1>1, <1>4, <2>1, MapStutter
<1> QED
  BY <1>2, <1>3, <1>4

\* A step of the server, the queue manager or the clock is a stutter, or ends
\* the service.
LEMMA MapOther ==
    ASSUME ~Gone, Listen \/ StopServer \/ ServerFatal \/ EnvStep
    PROVE  [Promise!ServiceNext]_Promise!svars
<1>1. CASE exit' = exit
  BY <1>1, OtherFrame, MapStutter
<1>2. CASE exit' # exit
  BY <1>2, OtherFrame, MapEnd DEF Gone, Promise!ServiceNext
<1> QED
  BY <1>1, <1>2

\* The request of a scrape step is the only one that changes; the phase
\* changes only with an error.
LEMMA MapScrape ==
    ASSUME AllInv, ~Gone, NEW s \in Scrapers, ScrapeStep(s)
    PROVE  [Promise!ServiceNext]_Promise!svars
<1> USE DEF flags
<1> DEFINE R == [t \in Scrapers |-> RequestState(t)]
<1>0. scrape \in [Scrapers -> ScrapePCs] /\ TypeInv
  BY DEF AllInv, TypeInv, TypeOK, ScrapesTyped
<1>1. R' = [R EXCEPT ![s] = RequestState(s)'] /\ R[s] = RequestState(s)
  BY <1>0, OwnRequest, OneRequest DEF Requests
<1>2. server' = server /\ exit' = exit
  BY ScrapeFrame
<1>3. scrape[s] # "idle" => server # "waiting"
  BY DEF AllInv, ServiceInv
<1>4. connectedQMgr' = connectedQMgr => ServicePhase' = ServicePhase
  BY <1>2 DEF ServicePhase, Gone
<1>5. scrape[s] \in {"waiting", "publications", "poll", "publish"}
        => RequestState(s) = "accepted"
  BY DEF RequestState
<1>6. CASE Gather(s)
  <2>1. server = "listening" /\ RequestState(s) = "none" /\ connectedQMgr' = connectedQMgr
    BY <1>6 DEF Gather, RequestState
  <2>2. CASE descIDs = {}
    <3>1. [NoReply EXCEPT !.kind = "nothing"].kind = "nothing"
      BY DEF NoReply
    <3>2. RequestState(s)' = "nothing"
      BY <1>0, <1>6, <2>2, <3>1, AnswerMapped DEF Gather
    <3>3. ServicePhase = "down"
      BY <2>1, <2>2 DEF ServicePhase, AllInv, ServiceInv
    <3>4. Promise!AnswerNothing(s)
      BY <1>1, <1>4, <2>1, <3>2, <3>3 DEF Promise!AnswerNothing
    <3> QED
      BY <3>4 DEF Promise!ServiceNext
  <2>3. CASE descIDs # {}
    <3>1. RequestState(s)' = "accepted"
      BY <1>0, <1>6, <2>3 DEF Gather, RequestState
    <3>2. ServicePhase \in {"up", "down"}
      BY <2>1 DEF ServicePhase
    <3>3. Promise!Accept(s)
      BY <1>1, <1>4, <2>1, <3>1, <3>2 DEF Promise!Accept, Promise!Serving
    <3> QED
      BY <3>3 DEF Promise!ServiceNext
  <2> QED
    BY <2>2, <2>3
<1>7. CASE CollectDown(s)
  <2>1. [NoReply EXCEPT !.kind = "down", !.status = statusVec'].kind = "down"
    BY DEF NoReply
  <2>2. RequestState(s)' = "down"
    BY <1>0, <1>7, <2>1, AnswerMapped DEF CollectDown
  <2>3. RequestState(s) = "accepted" /\ ServicePhase = "down" /\ ServicePhase' = ServicePhase
    BY <1>3, <1>4, <1>5, <1>7 DEF CollectDown, ServicePhase
  <2>4. Promise!AnswerDown(s)
    BY <1>1, <2>2, <2>3 DEF Promise!AnswerDown
  <2> QED
    BY <2>4 DEF Promise!ServiceNext
<1>8. ASSUME scrape'[s] \in {"publications", "poll", "publish"},
             scrape[s] \in {"waiting", "publications", "poll"}, connectedQMgr' = connectedQMgr
      PROVE  UNCHANGED Promise!svars
  <2>1. RequestState(s)' = RequestState(s)
    BY <1>8 DEF RequestState
  <2>2. R' = R
    BY <1>1, <2>1
  <2> QED
    BY <1>4, <1>8, <2>2 DEF Promise!svars
<1>9. CASE CollectFails(s) /\ InCollect(s)
  <2>1. PICK rc \in CollectRCs : /\ connectedQMgr' = StaysConnected(rc)
                                 /\ Answer(s, [NoReply EXCEPT !.kind = "error"])
    BY <1>9 DEF CollectFails
  <2>2. [NoReply EXCEPT !.kind = "error"].kind = "error"
    BY DEF NoReply
  <2>3. RequestState(s)' = "error" /\ RequestState(s) = "accepted"
    BY <1>0, <1>5, <1>9, <2>1, <2>2, AnswerMapped DEF InCollect
  <2>4. ServicePhase = "up"
    BY <1>9 DEF ServicePhase, AllInv, ConnectedWhenUsed
  <2>5. ~connectedQMgr'
    BY <2>1, ReasonAssumption DEF StaysConnected
  <2>6. ServicePhase' = "down"
    BY <1>2, <1>3, <1>9, <2>5 DEF ServicePhase, Gone, InCollect
  <2>7. Promise!AnswerError(s)
    BY <1>1, <2>3, <2>4, <2>6 DEF Promise!AnswerError
  <2> QED
    BY <2>7 DEF Promise!ServiceNext
<1>10. CASE CollectPublish(s)
  <2>1. [NoReply EXCEPT !.kind = "data", !.pubs = ruaVec', !.status = statusVec'].kind
           = "data"
    BY DEF NoReply
  <2>2. RequestState(s)' = "data"
    BY <1>0, <1>10, <2>1, AnswerMapped DEF CollectPublish
  <2>3. RequestState(s) = "accepted" /\ connectedQMgr
    BY <1>5, <1>10 DEF CollectPublish, AllInv, ConnectedWhenUsed, InCollect
  <2>4. ServicePhase = "up" /\ ServicePhase' = ServicePhase
    BY <1>4, <1>10, <2>3 DEF ServicePhase, CollectPublish
  <2>5. Promise!AnswerData(s)
    BY <1>1, <2>2, <2>3, <2>4 DEF Promise!AnswerData
  <2> QED
    BY <2>5 DEF Promise!ServiceNext
<1>11. CASE Respond(s)
  <2>1. RequestState(s) \in Kinds \ {"none"}
    BY <1>11 DEF Respond, RequestState, AllInv, ServiceInv
  <2>2. RequestState(s)' = "none"
    BY <1>0, <1>11 DEF Respond, RequestState
  <2>3. ServicePhase' = ServicePhase
    BY <1>4, <1>11 DEF Respond
  <2>4. Promise!Finish(s)
    BY <1>1, <2>1, <2>2, <2>3 DEF Promise!Finish, Promise!Answers, Kinds
  <2> QED
    BY <2>4 DEF Promise!ServiceNext
<1>12. CASE CollectStart(s)
  BY <1>0, <1>8, <1>12 DEF CollectStart
<1>13. CASE CollectPublications(s)
  BY <1>0, <1>8, <1>9, <1>13 DEF CollectPublications, InCollect
<1>14. CASE CollectPoll(s)
  BY <1>0, <1>8, <1>9, <1>14 DEF CollectPoll, InCollect
<1> QED
  BY <1>6, <1>7, <1>10, <1>11, <1>12, <1>13, <1>14
     DEF ScrapeStep, EnterCollect, InsideCollect

\* Every behaviour of the collector is one that ScrapeService allows.
THEOREM PromiseKept == Spec => KeepsPromise
<1>1. AllInv /\ [Next]_vars => [Promise!ServiceNext]_Promise!svars
  <2>1. UNCHANGED vars => UNCHANGED Promise!svars
    BY OtherFrame, MapStutter DEF vars
  <2> QED
    BY <2>1, MapMain, MapOther, MapScrape DEF Next, ProcessGone
<1> QED
  BY <1>1, MapInit, AlwaysAllInv, PTL DEF Spec, KeepsPromise, Promise!Service
-----------------------------------------------------------------------------
(* What a client may rely on, from the promise alone.                      *)

\* A request has one of the answers of the service, and there is none before
\* the queue manager was first reached.
RequestsAnswered ==
    /\ Promise!ServiceTypeOK
    /\ ServicePhase = "starting" => \A s \in Scrapers : Requests[s] = "none"

\* An invariant of ScrapeService, and so of the collector that implements it.
THEOREM AnsweredAsPromised == Spec => []RequestsAnswered
<1> USE DEF Promise!Phases, Promise!Answers, Promise!ServiceTypeOK
<1>1. Promise!ServiceInit => RequestsAnswered
  BY DEF Promise!ServiceInit, RequestsAnswered, Requests
<1>2. ASSUME RequestsAnswered, [Promise!ServiceNext]_Promise!svars
      PROVE  RequestsAnswered'
  <2> USE DEF RequestsAnswered, Requests
  <2>1. CASE UNCHANGED Promise!svars
    BY <1>2, <2>1 DEF Promise!svars
  <2>2. CASE Promise!Available \/ Promise!End
    BY <1>2, <2>2 DEF Promise!Available, Promise!End
  <2>3. ASSUME NEW c \in Scrapers,
               \/ Promise!Accept(c) \/ Promise!AnswerNothing(c) \/ Promise!AnswerData(c)
               \/ Promise!AnswerDown(c) \/ Promise!AnswerError(c) \/ Promise!Finish(c)
        PROVE  RequestsAnswered'
    BY <1>2, <2>3 DEF Promise!Accept, Promise!AnswerNothing, Promise!AnswerData,
       Promise!AnswerDown, Promise!AnswerError, Promise!Finish, Promise!Serving
  <2> QED
    BY <1>2, <2>1, <2>2, <2>3 DEF Promise!ServiceNext
<1> QED
  BY <1>1, <1>2, PromiseKept, PTL DEF KeepsPromise, Promise!Service
=============================================================================
