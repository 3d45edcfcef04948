--------------------------- MODULE MCOtelCollector ---------------------------
(***************************************************************************)
(* Deployments of the OpenTelemetry collector for TLC, as its configuration *)
(* makes them.                                                             *)
(***************************************************************************)
EXTENDS OtelCollector, Config

NotSaid == [env |-> Absent, cli |-> Absent, file |-> TRUE, entry |-> Absent]
Flag(value) == [NotSaid EXCEPT !.cli = value]
Env(value) == [NotSaid EXCEPT !.env = value]
Entry(value) == [NotSaid EXCEPT !.entry = value]

\* The deployment that follows from what is said of three parameters
Deployment(usePublications, rediscoverInterval, amqpChannels) ==
    LET Value(name, s) == Effective(CommonParameters[name], s) IN
    [usePublications |-> Value("usePublications", usePublications) = "true",
     rediscovers |-> Value("rediscoverInterval", rediscoverInterval) # "0s",
     attrChannels |-> Value("amqpChannels", amqpChannels) # ""]

\* One without rediscovery, where publications are read in every cycle; and
\* one that uses status only, where nothing but a poll notices a failure
MCDeployments ==
    {Deployment(NotSaid, Entry("0s"), Entry("*")),
     Deployment(Env("false"), NotSaid, NotSaid)}

\* One with everything switched on
MCFull == {Deployment(Flag("true"), NotSaid, Env("*"))}

\* Everything that can be said of a parameter, by texts of each kind
Texts == {Absent, Mistyped, "", "0", "true", "text"}
Sources == [env : Texts \ {""}, cli : Texts, file : BOOLEAN, entry : Texts]
Parms ==
    {CommonParameters[name] : name \in DOMAIN CommonParameters}
        \union {PrometheusParameters[name] : name \in DOMAIN PrometheusParameters}
        \union {OtelParameters[name] : name \in DOMAIN OtelParameters}
        \union {JsonParameters[name] : name \in DOMAIN JsonParameters}

\* Every parameter is declared as WellFormed says
ASSUME ParmsAssumption == \A p \in Parms : WellFormed(p)

\* The README's order of precedence holds, but for what PrecedenceKept excludes
ASSUME PrecedenceChecked == \A p \in Parms, s \in Sources : PrecedenceKept(p, s)

\* What PrecedenceKept excludes does occur: the defaults that a file takes away,
\* and a panic
ASSUME DefaultsLost ==
    {p.default : p \in {q \in Parms : LosesDefault(q)}}
        = {"error", "#", "*", "SYSTEM.ADMIN.STATISTICS.QUEUE", "9157", "true", "100", "10s"}
ASSUME WaitIntervalPanics ==
    Effective(CommonParameters.waitInterval, Flag("5")) = Panic

\* "If someone has explicitly said not to use publications, then they must
\* require use of the xxSTATUS commands", and RESET QSTATS needs them too,
\* whatever else is forced; but for the variable that undoes it, with which a
\* collector may be left with nothing to read.
ASSUME StatusWhenNeeded ==
    /\ \A usePublications, useResetQStats, forced \in BOOLEAN :
           ~usePublications \/ useResetQStats
               => UseStatus(usePublications, useResetQStats, forced, FALSE)
    /\ ~UseStatus(FALSE, FALSE, TRUE, TRUE)

\* Statistics are asked of all queues, from a queue that has a name, whatever
\* is said of either
ASSUME StatisticsComplete ==
    \A said \in {s \in Sources : WellGiven(s)}, queuesFile \in {"", "text"} :
        LET statisticsQ == Effective(CommonParameters.statisticsQueue, said)
            queues == FilePatterns(Effective(CommonParameters.queues, said), queuesFile, "text") IN
        StatisticsQ(statisticsQ, TRUE) # "" /\ MonitoredQueues(queues, TRUE) = "*"

\* Tags are the one parameter where the file overrides the command line: its
\* map does, its list does not
ASSUME MapOverridesFlags ==
    /\ MetadataTags(Flag("text"), "map") = "map"
    /\ MetadataTags([Flag("text") EXCEPT !.entry = "list"], Absent) = "text"

\* A user is asked for a password only if neither it nor a file with it is given
\* on any level
ASSUME PasswordAsked ==
    LET Given(s) == s.cli # Absent \/ s.env # Absent \/ (s.file /\ s.entry # Absent)
        Value(name, s) == Effective(CommonParameters[name], s) IN
    \A password, passwordFile \in {s \in Sources : WellGiven(s)} :
        PasswordFrom("text", Value("password", password), Value("passwordFile", passwordFile))
            = "stdin" <=> ~Given(password) /\ ~Given(passwordFile)
=============================================================================
