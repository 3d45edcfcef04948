------------------------- MODULE OtelCollector_proofs -------------------------
(***************************************************************************)
(* Theorems of OtelCollector, for every limit of errors, every set of      *)
(* deployments and any number of messages and failures.                    *)
(***************************************************************************)
EXTENDS OtelCollector, TLAPS, FiniteSetTheorems

\* What typing rests on: the process ends in the step that reaches a limit, and
\* gauges without a value are evicted before the SDK asks for them.
BelowLimits ==
    ~Gone => statusErrors <= maxStatusCollectionErrors /\ totalErrorCount <= MaxErrors
Evictions == pc = "collect" => \A g \in Gauges : gaugeMap[g] # "nil"
TypeInv == TypeOK /\ BelowLimits /\ Evictions

\* The stages of a poll are few, so the faults they use up are a number.
LEMMA StageFaults ==
    ASSUME NEW stages, IsFiniteSet(stages), faults \in 0 .. MaxFaults,
           NEW f \in StageFailures(stages), UseFaults(f)
    PROVE  faults' \in 0 .. MaxFaults
<1>1. connected => Cardinality(f) \in Nat /\ Cardinality(f) <= faults
  <2> SUFFICES ASSUME connected PROVE Cardinality(f) \in Nat /\ Cardinality(f) <= faults
    OBVIOUS
  <2>1. f \subseteq stages /\ Cardinality(f) <= faults
    BY DEF StageFailures
  <2> QED
    BY <2>1, FS_Subset, FS_CardinalityType
<1> QED
  BY <1>1, BoundAssumption DEF UseFaults

LEMMA TwoStages == \A a, b : IsFiniteSet({a, b})
<1> TAKE a, b
<1>1. IsFiniteSet({} \union {a})
  BY FS_EmptySet, FS_AddElement
<1>2. IsFiniteSet(({} \union {a}) \union {b})
  BY <1>1, FS_AddElement
<1>3. ({} \union {a}) \union {b} = {a, b}
  OBVIOUS
<1> QED
  BY <1>2, <1>3

LEMMA FaultsTyped ==
    ASSUME faults \in 0 .. MaxFaults, NEW works \in BOOLEAN, Fails(works)
    PROVE  faults' \in 0 .. MaxFaults
BY BoundAssumption DEF Fails

LEMMA SwitchesTyped ==
    ASSUME WorldTyped
    PROVE  UsePublications \in BOOLEAN /\ Rediscovers \in BOOLEAN /\ AttrChannels \in BOOLEAN
BY DeploymentAssumption DEF WorldTyped, UsePublications, Rediscovers, AttrChannels

-----------------------------------------------------------------------------
\* The actions keep the program's own variables in their types.
LEMMA LoopStep == ASSUME LoopTyped, WorldTyped, [Next]_vars PROVE LoopTyped'
<1> USE DEF LoopTyped, loop, clock, PCs, Exits
<1>1. CASE Startup
  BY <1>1 DEF Startup, End
<1>2. CASE ReadPublications
  BY <1>2 DEF ReadPublications, End
<1>3. CASE SkipPoll
  BY <1>3 DEF SkipPoll
<1>4. CASE PollObjects
  BY <1>4 DEF PollObjects, HandleStatus, End
<1>5. CASE PollStatus
  BY <1>5 DEF PollStatus, HandleStatus, End
<1>6. CASE Rediscover
  BY <1>6, SwitchesTyped DEF Rediscover
<1>7. CASE Report
  BY <1>7 DEF Report
<1>8. CASE Collect
  BY <1>8 DEF Collect
<1>9. CASE Export
  BY <1>9 DEF Export, ExportError
<1>10. CASE Judge
  BY <1>10 DEF Judge, End
<1>11. CASE Sleep
  BY <1>11, SwitchesTyped DEF Sleep
<1>12. CASE EnvStep
  BY <1>12 DEF EnvStep, QMgrPublishes, ChannelMovesMessage, ChannelRestarts, ConnectionBreaks,
     EndpointLost, Interrupt, Elsewhere
<1>13. CASE UNCHANGED vars
  BY <1>13 DEF vars
<1> QED
  BY <1>1, <1>2, <1>3, <1>4, <1>5, <1>6, <1>7, <1>8, <1>9, <1>10, <1>11, <1>12, <1>13
     DEF Next, MainStep, ProcessGone

LEMMA WorldStep == ASSUME WorldTyped, [Next]_vars PROVE WorldTyped'
<1> USE DEF WorldTyped, world
<1>1. CASE MainStep
  BY <1>1 DEF MainStep, Startup, ReadPublications, SkipPoll, PollObjects, PollStatus,
     Rediscover, Report, Collect, Export, Judge, Sleep
<1>2. CASE EnvStep
  BY <1>2 DEF EnvStep, QMgrPublishes, ChannelMovesMessage, ChannelRestarts, ConnectionBreaks,
     EndpointLost, Interrupt
<1>3. CASE UNCHANGED vars
  BY <1>3 DEF vars
<1> QED
  BY <1>1, <1>2, <1>3 DEF Next, ProcessGone

\* The counts stay below their limits as long as the process runs.
LEMMA CountsStep ==
    ASSUME CountsTyped, BelowLimits, WorldTyped, [Next]_vars PROVE CountsTyped' /\ BelowLimits'
<1> USE MaxErrorsAssumption DEF CountsTyped, BelowLimits, counts, loop,
        maxStatusCollectionErrors
<1>1. CASE Startup
  BY <1>1, FaultsTyped DEF Startup, End, WorldTyped, Gone
<1>2. CASE ReadPublications
  BY <1>2, FaultsTyped DEF ReadPublications, End, WorldTyped, Gone
<1>3. CASE SkipPoll
  BY <1>3 DEF SkipPoll, CountWithoutPoll, Gone
<1>4. CASE PollObjects
  <2>1. faults' \in 0 .. MaxFaults
    <3>1. IsFiniteSet({"queue", "qmgr"})
      BY TwoStages
    <3>2. PICK f \in StageFailures({"queue", "qmgr"}) : UseFaults(f)
      BY <1>4 DEF PollObjects
    <3> QED
      BY <3>1, <3>2, StageFaults
  <2> QED
    BY <1>4, <2>1 DEF PollObjects, HandleStatus, End, Gone
<1>5. CASE PollStatus
  <2>1. faults' \in 0 .. MaxFaults
    <3>1. IsFiniteSet({"channel", "other"})
      BY TwoStages
    <3>2. PICK f \in StageFailures({"channel", "other"}) : UseFaults(f)
      BY <1>5 DEF PollStatus
    <3> QED
      BY <3>1, <3>2, StageFaults
  <2> QED
    BY <1>5, <2>1 DEF PollStatus, HandleStatus, End, Gone
<1>6. CASE Rediscover
  BY <1>6, FaultsTyped DEF Rediscover, Gone
<1>7. CASE Report
  BY <1>7 DEF Report, Gone
<1>8. CASE Collect
  BY <1>8 DEF Collect, Gone
<1>9. CASE Export
  BY <1>9, FaultsTyped DEF Export, Gone
<1>10. CASE Judge
  BY <1>10 DEF Judge, End, TooManyErrors, Gone
<1>11. CASE Sleep
  BY <1>11 DEF Sleep, Gone
<1>12. CASE EnvStep
  BY <1>12 DEF EnvStep, QMgrPublishes, ChannelMovesMessage, ChannelRestarts, ConnectionBreaks,
     EndpointLost, Interrupt, Elsewhere, Gone
<1>13. CASE UNCHANGED vars
  BY <1>13 DEF vars, Gone
<1> QED
  BY <1>1, <1>2, <1>3, <1>4, <1>5, <1>6, <1>7, <1>8, <1>9, <1>10, <1>11, <1>12, <1>13
     DEF Next, MainStep, ProcessGone

\* The values stay numbers.
LEMMA ValuesStep == ASSUME ValuesTyped, LoopTyped, WorldTyped, [Next]_vars PROVE ValuesTyped'
<1> USE BoundAssumption DEF ValuesTyped, data, sdk, flow, history, Zero, Series, NoValue
<1>1. CASE Startup \/ SkipPoll \/ PollObjects \/ Rediscover \/ Judge \/ Sleep
  BY <1>1 DEF Startup, SkipPoll, PollObjects, Rediscover, Judge, Sleep
<1>2. CASE ReadPublications
  BY <1>2 DEF ReadPublications, ClearedValues
<1>3. CASE PollStatus
  BY <1>3 DEF PollStatus, Delta
<1>4. CASE Report
  BY <1>4 DEF Report, PublishedDelta, StatusDelta
<1>5. CASE Collect
  BY <1>5 DEF Collect
<1>6. CASE Export
  BY <1>6 DEF Export
<1>7. CASE EnvStep
  BY <1>7 DEF EnvStep, QMgrPublishes, ChannelMovesMessage, ChannelRestarts, ConnectionBreaks,
     EndpointLost, Interrupt, Elsewhere
<1>8. CASE UNCHANGED vars
  BY <1>8 DEF vars
<1> QED
  BY <1>1, <1>2, <1>3, <1>4, <1>5, <1>6, <1>7, <1>8 DEF Next, MainStep, ProcessGone

\* A gauge is stashed, or evicted if it has no value.
LEMMA GaugesStep ==
    ASSUME GaugesTyped, Evictions, LoopTyped, [Next]_vars PROVE GaugesTyped' /\ Evictions'
<1> USE DEF GaugesTyped, Evictions, data, sdk, loop
<1>1. CASE Startup \/ SkipPoll \/ PollObjects \/ Rediscover \/ Sleep
  BY <1>1 DEF Startup, SkipPoll, PollObjects, Rediscover, Sleep, HandleStatus, End
<1>2. CASE ReadPublications
  BY <1>2 DEF ReadPublications, ClearedGauge, End
<1>3. CASE PollStatus
  BY <1>3 DEF PollStatus, HandleStatus, End
<1>4. CASE Report
  <2>1. \A g \in Gauges : Stashed(g) \in {"absent", "nil", "fresh", "stale"}
    BY DEF Stashed
  <2> QED
    BY <1>4, <2>1 DEF Report, Evicted
<1>5. CASE Collect
  BY <1>5 DEF Collect
<1>6. CASE Export \/ Judge
  BY <1>6 DEF Export, Judge, End
<1>7. CASE EnvStep
  BY <1>7 DEF EnvStep, QMgrPublishes, ChannelMovesMessage, ChannelRestarts, ConnectionBreaks,
     EndpointLost, Interrupt, Elsewhere
<1>8. CASE UNCHANGED vars
  BY <1>8 DEF vars
<1> QED
  BY <1>1, <1>2, <1>3, <1>4, <1>5, <1>6, <1>7, <1>8 DEF Next, MainStep, ProcessGone

LEMMA TypeInit == Init => TypeInv
<1> SUFFICES ASSUME Init PROVE TypeInv
  OBVIOUS
<1> USE MaxErrorsAssumption, BoundAssumption DEF Init
<1>1. WorldTyped
  BY DEF WorldTyped
<1>2. LoopTyped
  BY <1>1, SwitchesTyped DEF LoopTyped, PCs, Exits
<1>3. CountsTyped /\ BelowLimits
  BY DEF CountsTyped, BelowLimits, maxStatusCollectionErrors
<1>4. ValuesTyped
  BY DEF ValuesTyped, Zero, Series, NoValue
<1>5. GaugesTyped /\ Evictions
  BY DEF GaugesTyped, Evictions
<1> QED
  BY <1>1, <1>2, <1>3, <1>4, <1>5 DEF TypeInv, TypeOK

LEMMA TypeStep == TypeInv /\ [Next]_vars => TypeInv'
BY LoopStep, WorldStep, CountsStep, ValuesStep, GaugesStep DEF TypeInv, TypeOK

\* Every variable of mq_otel stays in its type; in particular the counts of
\* errors stay within one of their limits, at which the process ends.
THEOREM TypeOKTheorem == Spec => []TypeOK
<1>1. TypeInv => TypeOK
  BY DEF TypeInv
<1> QED
  BY <1>1, TypeInit, TypeStep, PTL DEF Spec

-----------------------------------------------------------------------------
\* What is to be known of the place of the published delta: the first cycle has
\* no backlog until it reads one, and it ends in Report; what was collected is
\* held for the export only.
Places ==
    /\ first => pc \in {"start", "read", "poll", "status", "discover", "report", "gone"}
    /\ first /\ pc \in {"start", "read"} => backlog = 0
    /\ pc # "export" => rm["published"] = 0 /\ rm["channel"] = 0
CountInv == Places /\ PublishedCountedOnce

\* The actions that neither move a delta nor leave the stages of a cycle in
\* which elem waits to be reported.
LEMMA CountKept ==
    ASSUME CountInv, LoopTyped, ValuesTyped,
           UNCHANGED <<first, elem, pubQ, produced, backlog, pending, rm, exported, lost>>,
           \/ pc = "start" /\ pc' \in {"read", "gone"}
           \/ pc \in {"poll", "status", "discover"}
              /\ pc' \in {"poll", "status", "discover", "report", "gone"}
           \/ pc \in {"collect", "judge", "sleep"} /\ pc' \in {"judge", "sleep", "read", "gone"}
           \/ pc' = pc
    PROVE  CountInv'
BY DEF CountInv, Places, PublishedCountedOnce, Unreported, Gone, LoopTyped, PCs

LEMMA CountStep ==
    ASSUME CountInv, LoopTyped, ValuesTyped, [Next]_vars PROVE CountInv'
<1> USE DEF loop, data, sdk, flow, history
<1>1. CASE Startup
  BY <1>1, CountKept DEF Startup, End
<1>2. CASE ReadPublications
  BY <1>2 DEF ReadPublications, End, ClearedValues, CountInv, Places, PublishedCountedOnce,
     Unreported, Gone, LoopTyped, ValuesTyped, Series
<1>3. CASE SkipPoll
  BY <1>3, CountKept DEF SkipPoll
<1>4. CASE PollObjects
  BY <1>4, CountKept DEF PollObjects, HandleStatus, End
<1>5. CASE PollStatus
  BY <1>5, CountKept DEF PollStatus, HandleStatus, End
<1>6. CASE Rediscover
  BY <1>6, CountKept DEF Rediscover
<1>7. CASE Report
  BY <1>7 DEF Report, PublishedDelta, NotFirst, CountInv, Places, PublishedCountedOnce,
     Unreported, Gone, LoopTyped, ValuesTyped, Series
<1>8. CASE Collect
  <2>1. CASE interrupted
    BY <1>8, <2>1, CountKept DEF Collect
  <2>2. CASE ~interrupted
    BY <1>8, <2>2 DEF Collect, Zero, CountInv, Places, PublishedCountedOnce, Unreported, Gone,
       LoopTyped, ValuesTyped, Series
  <2> QED
    BY <2>1, <2>2
<1>9. CASE Export
  BY <1>9 DEF Export, Zero, CountInv, Places, PublishedCountedOnce, Unreported, Gone, LoopTyped,
     ValuesTyped, Series
<1>10. CASE Judge
  BY <1>10, CountKept DEF Judge, End
<1>11. CASE Sleep
  BY <1>11, CountKept DEF Sleep
<1>12. CASE QMgrPublishes
  BY <1>12 DEF QMgrPublishes, Elsewhere, CountInv, Places, PublishedCountedOnce, Unreported,
     Gone, LoopTyped, ValuesTyped, Series
<1>13. CASE ChannelMovesMessage
  BY <1>13 DEF ChannelMovesMessage, Elsewhere, CountInv, Places, PublishedCountedOnce,
     Unreported, Gone, LoopTyped, ValuesTyped, Series
<1>14. CASE ChannelRestarts \/ ConnectionBreaks \/ EndpointLost \/ Interrupt
  BY <1>14, CountKept DEF ChannelRestarts, ConnectionBreaks, EndpointLost, Interrupt, Elsewhere
<1>15. CASE UNCHANGED vars
  BY <1>15, CountKept DEF vars
<1> QED
  BY <1>1, <1>2, <1>3, <1>4, <1>5, <1>6, <1>7, <1>8, <1>9, <1>10, <1>11, <1>12, <1>13, <1>14,
     <1>15 DEF Next, MainStep, EnvStep, ProcessGone

\* A published delta is counted once, for every limit of errors, every number
\* of messages and every sequence of failures of polls, collections and exports.
THEOREM CountedOnceTheorem == Spec => []PublishedCountedOnce
<1>1. Init => CountInv
  BY DEF Init, CountInv, Places, PublishedCountedOnce, Unreported, Gone, Zero, Series
<1>2. TypeInv /\ CountInv /\ [Next]_vars => CountInv'
  BY CountStep DEF TypeInv, TypeOK
<1>3. CountInv => PublishedCountedOnce
  BY DEF CountInv
<1> QED
  BY <1>1, <1>2, <1>3, TypeInit, TypeStep, PTL DEF Spec

-----------------------------------------------------------------------------
\* How a gauge stays that of its cycle: it has no value until the report, the
\* value of a poll without an error is new, and only a cycle without an error
\* gets to the SDK.
StatusKnown == pollStatus /\ chlDelta # NoValue /\ ~chlFresh => err
GaugesOfCycle ==
    /\ pc \in {"poll", "status", "discover", "report"} =>
           \A g \in Gauges : gaugeMap[g] \in {"absent", "nil"}
    /\ pc \in {"discover", "report"} => StatusKnown
    /\ pc = "collect" => \A g \in Gauges : gaugeMap[g] \in {"absent", "fresh"}
    /\ GaugesFresh

\* A rediscovery that replaces the error of the poll by its own success is the
\* only step that could break it.
LEMMA FreshStep ==
    ASSUME GaugesOfCycle, LoopTyped, WorldTyped, GaugesTyped, Evictions, [Next]_vars,
           Rediscover /\ err => err'
    PROVE  GaugesOfCycle'
<1> USE DEF GaugesOfCycle, StatusKnown, GaugesFresh, data, sdk, clock
<1>3. CASE Startup
  BY <1>3 DEF Startup, End
<1>4. CASE ReadPublications
  BY <1>4 DEF ReadPublications, ClearedGauge, End, GaugesTyped
<1>5. CASE SkipPoll
  BY <1>5 DEF SkipPoll
<1>6. CASE PollObjects
  BY <1>6 DEF PollObjects, HandleStatus, End
<1>7. CASE PollStatus
  BY <1>7 DEF PollStatus, HandleStatus, End
<1>8. CASE Rediscover
  BY <1>8 DEF Rediscover
<1>9. CASE Report
  <2>1. pc' = "collect" => ~err
    BY <1>9 DEF Report
  <2>2. pc' \in {"judge", "collect"} /\ UNCHANGED <<rediscoverDue, rmGauges>>
    BY <1>9 DEF Report
  <2>3. ASSUME ~err, NEW g \in Gauges PROVE Stashed(g) \in {"absent", "nil", "fresh"}
    BY <1>9, <2>3 DEF Report, Stashed
  <2>4. ~err => \A g \in Gauges : gaugeMap'[g] \in {"absent", "fresh"}
    BY <1>9, <2>3 DEF Report, Evicted
  <2> QED
    BY <2>1, <2>2, <2>4
<1>10. CASE Collect
  BY <1>10 DEF Collect
<1>11. CASE Export
  BY <1>11 DEF Export
<1>12. CASE Judge
  BY <1>12 DEF Judge, End
<1>13. CASE Sleep
  BY <1>13 DEF Sleep
<1>14. CASE EnvStep
  BY <1>14 DEF EnvStep, QMgrPublishes, ChannelMovesMessage, ChannelRestarts, ConnectionBreaks,
     EndpointLost, Interrupt, Elsewhere, loop
<1>15. CASE UNCHANGED vars
  BY <1>15 DEF vars, loop
<1> QED
  BY <1>3, <1>4, <1>5, <1>6, <1>7, <1>8, <1>9, <1>10, <1>11, <1>12, <1>13, <1>14, <1>15
     DEF Next, MainStep, ProcessGone

\* No error of a poll is replaced by the success of a rediscovery.  Without
\* this, GaugesFresh does not hold.
ErrorsKept == [][Rediscover /\ err => err']_vars

LEMMA FreshInit == Init => GaugesOfCycle
BY DEF Init, GaugesOfCycle, StatusKnown, GaugesFresh

LEMMA StutterRediscovers == UNCHANGED vars => (Rediscover /\ err => err')
BY DEF Rediscover, vars, loop

\* "Clear out everything we know so far ... so the collection starts clean"
\* (GetMetrics): if no error of a poll is replaced, every gauge that is exported
\* was read in its cycle, whichever calls fail and whatever is rediscovered.
THEOREM ErrorsKeptTheorem == Spec /\ ErrorsKept => []GaugesFresh
<1>1. TypeInv /\ GaugesOfCycle /\ [Next]_vars /\ [Rediscover /\ err => err']_vars
        => GaugesOfCycle'
  BY FreshStep, StutterRediscovers DEF TypeInv, TypeOK
<1>2. GaugesOfCycle => GaugesFresh
  BY DEF GaugesOfCycle
<1> QED
  BY <1>1, <1>2, FreshInit, TypeInit, TypeStep, PTL DEF Spec, ErrorsKept

\* A deployment without rediscovery never finds one due.
NeverDue == ~Rediscovers => ~rediscoverDue
FreshInv == NeverDue /\ (~Rediscovers => GaugesOfCycle)

LEMMA NeverDueStep ==
    ASSUME NeverDue, LoopTyped, WorldTyped, [Next]_vars
    PROVE  NeverDue' /\ Rediscovers' = Rediscovers
<1>1. Rediscovers' = Rediscovers
  BY DEF Next, MainStep, EnvStep, ProcessGone, vars, Rediscovers
<1>2. CASE Sleep
  <2>1. ~Rediscovers => ~rediscoverDue'
    BY <1>2, SwitchesTyped DEF Sleep
  <2> QED
    BY <1>1, <2>1 DEF NeverDue
<1>3. CASE UNCHANGED rediscoverDue
  BY <1>1, <1>3 DEF NeverDue
<1> QED
  BY <1>1, <1>2, <1>3 DEF Next, MainStep, EnvStep, ProcessGone, Startup, ReadPublications,
     SkipPoll, PollObjects, PollStatus, Rediscover, Report, Collect, Export, Judge,
     QMgrPublishes, ChannelMovesMessage, ChannelRestarts, ConnectionBreaks, EndpointLost,
     Interrupt, Elsewhere, clock, vars

\* Without rediscovery, every gauge that is exported was read in its cycle,
\* whichever calls of whichever cycles fail.
THEOREM GaugesFreshTheorem == Spec => []GaugesFreshUnlessRediscovered
<1>1. Init => FreshInv
  BY FreshInit DEF Init, FreshInv, NeverDue
<1>2. TypeInv /\ FreshInv /\ [Next]_vars => FreshInv'
  <2> SUFFICES ASSUME TypeInv, FreshInv, [Next]_vars PROVE FreshInv'
    OBVIOUS
  <2>1. NeverDue' /\ Rediscovers' = Rediscovers
    BY NeverDueStep DEF FreshInv, TypeInv, TypeOK
  <2>2. ~Rediscovers => (Rediscover /\ err => err')
    BY DEF Rediscover, FreshInv, NeverDue
  <2> QED
    BY <2>1, <2>2, FreshStep DEF FreshInv, TypeInv, TypeOK
<1>3. FreshInv => GaugesFreshUnlessRediscovered
  BY DEF FreshInv, GaugesOfCycle, GaugesFreshUnlessRediscovered
<1> QED
  BY <1>1, <1>2, <1>3, TypeInit, TypeStep, PTL DEF Spec

-----------------------------------------------------------------------------
(* The counter of a channel's messages.                                    *)

\* The polls of queues and queue manager, which come before that of the
\* channels, succeed.  Without this, NeverOvercounts does not hold.
QueuesAnswer == [][PollObjects => ~err']_vars

\* What the counter was ever given; what it is about to be given; and, in
\* Delta, what the next poll will find.
Counted == pending["channel"] + rm["channel"] + exported["channel"] + lost["channel"]
Unadded ==
    IF pc \in {"discover", "report"} /\ pollStatus /\ chlDelta # NoValue THEN chlDelta ELSE 0
CounterInv == Counted + Unadded + Delta <= produced["channel"]

\* All parts of the balance are natural numbers.
LEMMA PartsTyped ==
    ASSUME ValuesTyped
    PROVE  /\ Counted \in Nat /\ Unadded \in Nat /\ Delta \in Nat
           /\ produced["channel"] \in Nat
BY BoundAssumption DEF ValuesTyped, Counted, Unadded, Delta, Series, NoValue

\* A step that leaves counter, channel and status alone, and does not turn to
\* the report, keeps the balance.
LEMMA CounterKept ==
    ASSUME CounterInv, ValuesTyped,
           UNCHANGED <<pending, rm, exported, lost, prevValue, chlDelta, chlCount>>,
           produced'["channel"] = produced["channel"],
           pc' \notin {"discover", "report"} \/ Unadded' = Unadded \/ ~pollStatus'
    PROVE  CounterInv'
<1>1. Counted' = Counted /\ Delta' = Delta
  BY DEF Counted, Delta
<1>2. Unadded' = Unadded \/ Unadded' = 0
  BY DEF Unadded
<1> QED
  BY <1>1, <1>2, PartsTyped DEF CounterInv

\* The poll of the channels takes the delta over from the queue manager.
LEMMA CounterPolled ==
    ASSUME CounterInv, ValuesTyped, PollStatus PROVE CounterInv'
<1> USE DEF data, sdk, flow, history
<1>1. Unadded = 0 /\ Counted' = Counted /\ UNCHANGED <<produced, chlCount>>
  BY DEF PollStatus, Unadded, Counted
<1>2. PICK answered \in BOOLEAN : /\ prevValue' = IF answered THEN chlCount ELSE NoValue
                                  /\ chlDelta' = IF answered THEN Delta ELSE NoValue
  BY DEF PollStatus
<1>3. Delta' = 0
  BY <1>1, <1>2 DEF Delta, ValuesTyped, NoValue
<1>4. Unadded' = 0 \/ Unadded' = Delta
  BY <1>2 DEF Unadded
<1> QED
  BY <1>1, <1>3, <1>4, PartsTyped DEF CounterInv

\* The report gives the counter what the poll found.
LEMMA CounterReported ==
    ASSUME CounterInv, ValuesTyped, Report PROVE CounterInv'
<1> USE DEF data, sdk, flow, history
<1>1. StatusDelta = Unadded /\ Unadded' = 0
  BY DEF Report, StatusDelta, Unadded
<1>2. pending'["channel"] = pending["channel"] + StatusDelta
  BY DEF Report, ValuesTyped, Series
<1>3. UNCHANGED <<rm, exported, lost, produced>> /\ Delta' = Delta
  BY DEF Report, Delta
<1>4. Counted' = Counted + Unadded
  BY <1>1, <1>2, <1>3, PartsTyped DEF Counted, ValuesTyped, Series
<1> QED
  BY <1>1, <1>3, <1>4, PartsTyped DEF CounterInv

\* Collecting and exporting move what was counted, and lose nothing of it.
LEMMA CounterMoved ==
    ASSUME CounterInv, ValuesTyped, LoopTyped, Places, Collect \/ Export PROVE CounterInv'
<1> USE DEF data, sdk, flow, history
<1>1. Counted' = Counted
  <2>1. CASE Collect
    BY <2>1 DEF Collect, Counted, Places, ValuesTyped, Series, Zero
  <2>2. CASE Export
    BY <2>2 DEF Export, Counted, ValuesTyped, Series, Zero
  <2> QED
    BY <2>1, <2>2
<1>2. Unadded' = 0 /\ Delta' = Delta /\ UNCHANGED produced
  BY DEF Collect, Export, Unadded, Delta
<1> QED
  BY <1>1, <1>2, PartsTyped DEF CounterInv

\* A message of the channel is one more to find; a restart is none.
LEMMA CounterEnv ==
    ASSUME CounterInv, ValuesTyped, ChannelMovesMessage \/ ChannelRestarts PROVE CounterInv'
<1> USE DEF Elsewhere, loop, data, sdk, history
<1>1. Counted' = Counted /\ Unadded' = Unadded
  BY DEF ChannelMovesMessage, ChannelRestarts, Counted, Unadded
<1>2. CASE ChannelMovesMessage
  <2>1. produced'["channel"] = produced["channel"] + 1
    BY <1>2 DEF ChannelMovesMessage, ValuesTyped, Series
  <2>2. Delta' <= Delta + 1
    BY <1>2 DEF ChannelMovesMessage, Delta, ValuesTyped, NoValue
  <2>3. Delta' \in Nat
    BY <1>2 DEF ChannelMovesMessage, Delta, ValuesTyped, NoValue
  <2> QED
    BY <1>1, <2>1, <2>2, <2>3, PartsTyped DEF CounterInv
<1>3. CASE ChannelRestarts
  <2>1. Delta' = 0 /\ UNCHANGED produced
    BY <1>3 DEF ChannelRestarts, Delta, ValuesTyped, NoValue
  <2> QED
    BY <1>1, <2>1, PartsTyped DEF CounterInv
<1> QED
  BY <1>2, <1>3

\* No step upsets the balance, if the earlier stages of the poll succeed.
LEMMA CounterStep ==
    ASSUME CounterInv, Places, LoopTyped, ValuesTyped, [Next]_vars, PollObjects => ~err'
    PROVE  CounterInv'
<1> USE DEF loop, data, sdk, flow, history
<1>1. CASE PollObjects
  <2>1. pc' = "status"
    BY <1>1 DEF PollObjects
  <2> QED
    BY <1>1, <2>1, CounterKept DEF PollObjects
<1>2. CASE Startup \/ ReadPublications \/ SkipPoll
  BY <1>2, CounterKept DEF Startup, ReadPublications, SkipPoll, End
<1>3. CASE Rediscover
  BY <1>3, CounterKept DEF Rediscover, Unadded
<1>4. CASE Judge \/ Sleep
  BY <1>4, CounterKept DEF Judge, Sleep, End
<1>5. CASE QMgrPublishes
  <2>1. produced'["channel"] = produced["channel"] /\ Unadded' = Unadded
    BY <1>5 DEF QMgrPublishes, Elsewhere, ValuesTyped, Series, Unadded
  <2> QED
    BY <1>5, <2>1, CounterKept DEF QMgrPublishes, Elsewhere
<1>6. CASE ConnectionBreaks \/ EndpointLost \/ Interrupt \/ UNCHANGED vars
  <2>1. Unadded' = Unadded
    BY <1>6 DEF ConnectionBreaks, EndpointLost, Interrupt, Elsewhere, vars, Unadded
  <2> QED
    BY <1>6, <2>1, CounterKept DEF ConnectionBreaks, EndpointLost, Interrupt, Elsewhere, vars
<1> QED
  BY <1>1, <1>2, <1>3, <1>4, <1>5, <1>6, CounterPolled, CounterReported, CounterMoved,
     CounterEnv DEF Next, MainStep, EnvStep, ProcessGone

\* If the polls of queues and queue manager succeed, the counter of a channel's
\* messages never shows more than there were, whatever else fails: polls of
\* the channels, collections, exports; however often the channel restarts. So
\* the failure that the violation shows is the only one that does it.
THEOREM ChannelCountedTheorem == Spec /\ QueuesAnswer => []NeverOvercounts
<1>1. Init => CountInv /\ CounterInv
  BY DEF Init, CountInv, Places, PublishedCountedOnce, Unreported, Gone, Zero, Series,
     CounterInv, Counted, Unadded, Delta, NoValue
<1>2. TypeInv /\ CountInv /\ [Next]_vars => CountInv'
  BY CountStep DEF TypeInv, TypeOK
<1>3. TypeInv /\ CountInv /\ CounterInv /\ [Next]_vars /\ [PollObjects => ~err']_vars
        => CounterInv'
  <2>1. UNCHANGED vars => (PollObjects => ~err')
    BY DEF PollObjects, HandleStatus, End, vars, loop
  <2> QED
    BY <2>1, CounterStep DEF TypeInv, TypeOK, CountInv
<1>4. TypeInv /\ CounterInv => NeverOvercounts
  BY PartsTyped DEF CounterInv, NeverOvercounts, Counted, TypeInv, TypeOK
<1> QED
  BY <1>1, <1>2, <1>3, <1>4, TypeInit, TypeStep, PTL DEF Spec, QueuesAnswer
-----------------------------------------------------------------------------
(* The promise about the counter of published deltas.                      *)

DeliveryStep == [Delivery!DeliveryNext]_Delivery!dvars

\* A step that leaves the amounts where they are is a stutter of the promise,
\* and so is one that moves them from one part of the collector to another.
LEMMA MapStutter ==
    ASSUME ~Gone, ~Gone', UNCHANGED <<pubQ, backlog, exported, lost>>,
           Held' = Held, DeliveryPhase' = DeliveryPhase
    PROVE  DeliveryStep
BY DEF DeliveryStep, Delivery!dvars, Delivery!amounts

\* Whatever the collector still held when its process ends is left behind.
LEMMA MapEnd ==
    ASSUME ~Gone, Gone', UNCHANGED <<pubQ, backlog, exported, lost>> PROVE DeliveryStep
<1>1. DeliveryPhase # "ended" /\ DeliveryPhase' = "ended"
  BY DEF DeliveryPhase
<1> QED
  BY <1>1 DEF DeliveryStep, Delivery!DeliveryNext, Delivery!End

\* The steps of a cycle that neither read nor send.
LEMMA MapQuiet ==
    ASSUME ~Gone, LoopTyped,
           UNCHANGED <<first, elem, pubQ, backlog, pending, rm, exported, lost>>,
           \/ pc = "start" /\ pc' \in {"read", "gone"}
           \/ pc \in {"poll", "status", "discover"}
              /\ pc' \in {"poll", "status", "discover", "report", "gone"}
           \/ pc \in {"collect", "judge"} /\ pc' \in {"judge", "sleep", "gone"}
           \/ pc = "sleep" /\ pc' = "read" /\ ~first
           \/ pc' = pc
    PROVE  DeliveryStep
<1>1. CASE Gone'
  BY <1>1, MapEnd
<1>2. CASE ~Gone'
  <2>1. Held' = Held
    BY <1>2 DEF Held, Unreported, Gone, LoopTyped, PCs
  <2>2. DeliveryPhase' = DeliveryPhase
    BY <1>2 DEF DeliveryPhase, Gone, LoopTyped, PCs
  <2> QED
    BY <1>2, <2>1, <2>2, MapStutter
<1> QED
  BY <1>1, <1>2

\* Reading skips what waited for the first collection, and later takes all.
LEMMA MapRead ==
    ASSUME CountInv, LoopTyped, ValuesTyped, ReadPublications PROVE DeliveryStep
<1> USE DEF data, sdk, flow, history
<1>1. ~Gone
  BY DEF ReadPublications, Gone
<1>2. CASE pc' = "gone"
  BY <1>1, <1>2, MapEnd DEF ReadPublications, End, Gone
<1>3. CASE pc' = "poll"
  <2>1. /\ pubQ' = 0 /\ elem' = pubQ /\ backlog' = IF first THEN pubQ ELSE backlog
        /\ UNCHANGED <<first, pending, rm, exported, lost>>
        /\ pc = "read" /\ ~Gone'
    BY <1>3 DEF ReadPublications, End, ClearedValues, ValuesTyped, Gone
  <2>2. Held' = IF first THEN Held ELSE Held + pubQ
    BY <1>3, <2>1 DEF Held, Unreported, ValuesTyped, Series
  <2>3. CASE first
    <3>1. DeliveryPhase = "new" /\ DeliveryPhase' = "counting"
      BY <1>1, <1>3, <2>1, <2>3 DEF DeliveryPhase
    <3> QED
      BY <1>1, <2>1, <2>2, <2>3, <3>1 DEF DeliveryStep, Delivery!DeliveryNext, Delivery!SkipBacklog
  <2>4. CASE ~first
    <3>1. DeliveryPhase = "counting" /\ DeliveryPhase' = "counting"
      BY <1>1, <1>3, <2>1, <2>4 DEF DeliveryPhase
    <3> QED
      BY <1>1, <2>1, <2>2, <2>4, <3>1 DEF DeliveryStep, Delivery!DeliveryNext, Delivery!Take
  <2> QED
    BY <2>3, <2>4
<1> QED
  BY <1>2, <1>3 DEF ReadPublications, End

\* The report and the collection move what is held towards the export.
LEMMA MapMoved ==
    ASSUME CountInv, LoopTyped, ValuesTyped, Report \/ (Collect /\ ~interrupted)
    PROVE  DeliveryStep
<1> USE DEF data, sdk, flow, history
<1>1. ~Gone /\ ~Gone' /\ UNCHANGED <<pubQ, backlog, exported, lost>>
  BY DEF Report, Collect, Gone
<1>2. DeliveryPhase' = DeliveryPhase
  BY <1>1 DEF DeliveryPhase, Report, Collect, CountInv, Places
<1>3. Held' = Held
  <2>1. CASE Report
    BY <2>1 DEF Report, PublishedDelta, NotFirst, Held, Unreported, CountInv, Places,
       ValuesTyped, LoopTyped, Series
  <2>2. CASE Collect /\ ~interrupted
    BY <2>2 DEF Collect, Held, Unreported, CountInv, Places, ValuesTyped, Series, Zero
  <2> QED
    BY <2>1, <2>2
<1> QED
  BY <1>1, <1>2, <1>3, MapStutter

\* An export has all that is held: the collection left nothing in the SDK.
NothingLeft == pc = "export" => pending["published"] = 0 /\ ~first

\* So it delivers everything, or drops everything.
LEMMA MapExport ==
    ASSUME CountInv, NothingLeft, LoopTyped, ValuesTyped, Export PROVE DeliveryStep
<1> USE DEF data, sdk, flow, history
<1>1. ~Gone /\ ~Gone' /\ UNCHANGED <<pubQ, backlog>>
  BY DEF Export, Gone
<1>2. DeliveryPhase = "counting" /\ DeliveryPhase' = "counting"
  BY <1>1 DEF DeliveryPhase, Export, NothingLeft
<1>3. Held = rm["published"] /\ Held' = 0
  BY DEF Export, Held, Unreported, NothingLeft, ValuesTyped, Series, Zero
<1>4. \/ /\ exported'["published"] = exported["published"] + rm["published"]
         /\ UNCHANGED lost
      \/ /\ lost'["published"] = lost["published"] + rm["published"]
         /\ UNCHANGED exported
  BY DEF Export, Series
<1> QED
  BY <1>1, <1>2, <1>3, <1>4
     DEF DeliveryStep, Delivery!DeliveryNext, Delivery!Deliver, Delivery!Drop

\* A publication waits on the reply queue.
LEMMA MapPublish == ASSUME ~Gone, QMgrPublishes PROVE DeliveryStep
<1>1. /\ ~Gone' /\ pubQ' = pubQ + 1
      /\ UNCHANGED <<first, pc, elem, backlog, pending, rm, exported, lost>>
  BY DEF QMgrPublishes, Elsewhere, loop, data, sdk, history, Gone
<1>2. Held' = Held /\ DeliveryPhase' = DeliveryPhase /\ DeliveryPhase # "ended"
  BY <1>1 DEF Held, Unreported, DeliveryPhase, Gone
<1> QED
  BY <1>1, <1>2 DEF DeliveryStep, Delivery!DeliveryNext, Delivery!Publish

LEMMA MapStep ==
    ASSUME CountInv, NothingLeft, LoopTyped, ValuesTyped, [Next]_vars PROVE DeliveryStep
<1> USE DEF loop, data, sdk, flow, history
<1>1. CASE UNCHANGED vars
  <2>1. UNCHANGED <<pubQ, backlog, exported, lost>> /\ Held' = Held
           /\ DeliveryPhase' = DeliveryPhase /\ Gone' = Gone
    BY <1>1 DEF vars, Held, Unreported, DeliveryPhase, Gone
  <2> QED
    BY <2>1 DEF DeliveryStep, Delivery!dvars, Delivery!amounts
<1>2. ASSUME ~Gone,
             \/ Startup \/ SkipPoll \/ PollObjects \/ PollStatus \/ Rediscover
             \/ (Collect /\ interrupted) \/ Judge \/ Sleep
      PROVE  DeliveryStep
  <2>1. UNCHANGED <<first, elem, pubQ, backlog, pending, rm, exported, lost>>
    BY <1>2 DEF Startup, SkipPoll, PollObjects, PollStatus, Rediscover, Collect, Judge, Sleep
  <2>2. \/ pc = "start" /\ pc' \in {"read", "gone"}
        \/ pc \in {"poll", "status", "discover"}
           /\ pc' \in {"poll", "status", "discover", "report", "gone"}
        \/ pc \in {"collect", "judge"} /\ pc' \in {"judge", "sleep", "gone"}
        \/ pc = "sleep" /\ pc' = "read" /\ ~first
    BY <1>2 DEF Startup, SkipPoll, PollObjects, PollStatus, Rediscover, Collect, Judge, Sleep,
       HandleStatus, End, CountInv, Places
  <2> QED
    BY <1>2, <2>1, <2>2, MapQuiet
<1>3. ASSUME ~Gone,
             ChannelMovesMessage \/ ChannelRestarts \/ ConnectionBreaks \/ EndpointLost \/ Interrupt
      PROVE  DeliveryStep
  BY <1>3, MapQuiet DEF ChannelMovesMessage, ChannelRestarts, ConnectionBreaks, EndpointLost,
     Interrupt, Elsewhere
<1> QED
  BY <1>1, <1>2, <1>3, MapRead, MapMoved, MapExport, MapPublish
     DEF Next, MainStep, EnvStep, ProcessGone

LEMMA NothingLeftStep ==
    ASSUME NothingLeft, CountInv, LoopTyped, [Next]_vars PROVE NothingLeft'
<1> USE DEF NothingLeft, loop, sdk
<1>1. CASE Collect
  BY <1>1 DEF Collect, Zero, Series, CountInv, Places
<1>2. CASE EnvStep \/ UNCHANGED vars
  BY <1>2 DEF EnvStep, QMgrPublishes, ChannelMovesMessage, ChannelRestarts, ConnectionBreaks,
     EndpointLost, Interrupt, Elsewhere, vars
<1>3. CASE MainStep /\ ~Collect
  BY <1>3 DEF MainStep, Startup, ReadPublications, SkipPoll, PollObjects, PollStatus,
     Rediscover, Report, Export, Judge, Sleep, HandleStatus, End
<1> QED
  BY <1>1, <1>2, <1>3 DEF Next, ProcessGone

\* Every behaviour of mq_otel is one that CounterDelivery allows: what was
\* published is taken once, and each export delivers, or loses, all that was
\* taken since the one before, for any number of messages and failures.
THEOREM DeliveryTheorem == Spec => DeliversAsPromised
<1>1. Init => CountInv /\ NothingLeft /\ Delivery!DeliveryInit
  BY DEF Init, CountInv, Places, PublishedCountedOnce, Unreported, Gone, Zero, Series,
     NothingLeft, Delivery!DeliveryInit, DeliveryPhase, Held
<1>2. TypeInv /\ CountInv /\ [Next]_vars => CountInv'
  BY CountStep DEF TypeInv, TypeOK
<1>3. TypeInv /\ CountInv /\ NothingLeft /\ [Next]_vars => NothingLeft'
  BY NothingLeftStep DEF TypeInv, TypeOK
<1>4. TypeInv /\ CountInv /\ NothingLeft /\ [Next]_vars
        => [Delivery!DeliveryNext]_Delivery!dvars
  BY MapStep DEF TypeInv, TypeOK, DeliveryStep
<1> QED
  BY <1>1, <1>2, <1>3, <1>4, TypeInit, TypeStep, PTL
     DEF Spec, DeliversAsPromised, Delivery!DeliverySpec
=============================================================================
