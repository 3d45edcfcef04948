---------------------------- MODULE Config_proofs ----------------------------
(***************************************************************************)
(* Theorems of Config, for every parameter that is declared as WellFormed  *)
(* says and all texts that can be said of it.                              *)
(***************************************************************************)
EXTENDS Config, TLAPS

USE DEF Absent, Mistyped, Panic, Usage, Refused, Copies

\* Without an environment variable and a flag the parsed value is the default.
LEMMA ParsedDefault ==
    ASSUME NEW p, NEW s, ~UserSet(s) PROVE Parsed(p, s) = p.default
BY DEF UserSet, Parsed, FlagDefault

\* What the user gives well is parsed as it is, the flag before the environment.
LEMMA ParsedGiven ==
    ASSUME NEW p, NEW s, WellGiven(s), UserSet(s)
    PROVE  /\ Parsed(p, s) = IF s.cli # Absent THEN s.cli ELSE s.env
           /\ Parsed(p, s) # ""
BY DEF WellGiven, UserSet, Parsed, FlagDefault, FromEnv

\* The README's "order of precedence": for every parameter, the command line is
\* before the environment, that before the file, that before the default,
\* unless one of PrecedenceKept's exceptions applies.
THEOREM PrecedenceTheorem == ASSUME NEW p, WellFormed(p), NEW s PROVE PrecedenceKept(p, s)
<1> SUFFICES ASSUME WellGiven(s), p.copy # "asString", p.copy = "never" => s.entry = Absent,
                    ~(LosesDefault(p) /\ s.file /\ ~UserSet(s) /\ s.entry = Absent)
             PROVE  Effective(p, s) = Documented(p, s)
  BY DEF PrecedenceKept
<1>1. CASE UserSet(s)
  <2>1. Documented(p, s) = Parsed(p, s) /\ Parsed(p, s) # ""
    BY <1>1, ParsedGiven DEF Documented, UserSet
  <2>2. Copied(p, s) = Parsed(p, s)
    BY <1>1, <2>1 DEF Copied, CopyParmIfNotSet
  <2> QED
    BY <2>1, <2>2 DEF Effective, Undecodable, WellGiven
<1>2. CASE ~UserSet(s)
  <2>1. Parsed(p, s) = p.default /\ p.default # Usage
    BY <1>2, ParsedDefault DEF WellFormed
  <2>2. CASE ~s.file
    BY <1>2, <2>1, <2>2 DEF Effective, Documented, UserSet, WellFormed
  <2>3. CASE s.file /\ s.entry # Absent
    <3>1. FromFile(p, s) = s.entry /\ s.entry # "" /\ Documented(p, s) = s.entry
      BY <1>2, <2>3 DEF FromFile, WellGiven, Documented, UserSet
    <3>2. Copied(p, s) = s.entry
      BY <1>2, <2>1, <2>3, <3>1 DEF Copied, CopyParmIfNotSet, WellFormed
    <3> QED
      BY <2>1, <2>3, <3>1, <3>2 DEF Effective, Undecodable, WellGiven
  <2>4. CASE s.file /\ s.entry = Absent
    <3>1. FromFile(p, s) = p.missing /\ Documented(p, s) = p.default
      BY <1>2, <2>4 DEF FromFile, Documented, UserSet
    <3>2. CASE p.copy \in {"copied", "typed"}
      <4>1. Copied(p, s) = p.missing
        BY <1>2, <3>1, <3>2 DEF Copied, CopyParmIfNotSet
      <4>2. (IF p.missing = "" THEN p.filled ELSE p.missing) = p.default
        BY <1>2, <2>4, <3>2 DEF LosesDefault
      <4> QED
        BY <2>1, <2>4, <3>1, <4>1, <4>2 DEF Effective, Undecodable
    <3>3. CASE p.copy \notin {"copied", "typed"}
      <4>1. Copied(p, s) = p.default
        BY <1>2, <2>1, <3>1, <3>3 DEF Copied, CopyParmIfNotSet, WellFormed
      <4> QED
        BY <2>1, <2>4, <3>1, <4>1 DEF Effective, Undecodable, WellFormed
    <3> QED
      BY <3>2, <3>3
  <2> QED
    BY <2>2, <2>3, <2>4
<1> QED
  BY <1>1, <1>2

-----------------------------------------------------------------------------
(* The defaults that are lost.                                             *)

\* What a file that says nothing of a parameter makes of it.
Silenced(p) ==
    IF p.copy \in {"copied", "typed", "asString"}
    THEN IF p.missing = "" THEN p.filled ELSE p.missing
    ELSE p.default

LEMMA SilentFile ==
    ASSUME NEW p, WellFormed(p), NEW s, s.file, ~UserSet(s), s.entry = Absent
    PROVE  Effective(p, s) = Silenced(p)
<1>1. Parsed(p, s) = p.default /\ p.default # Usage /\ ~Undecodable(p, s)
  BY ParsedDefault DEF WellFormed, Undecodable
<1>2. Copied(p, s) = IF p.copy \in {"copied", "typed", "asString"} THEN p.missing ELSE p.default
  BY <1>1 DEF Copied, CopyParmIfNotSet, FromFile, WellFormed
<1> QED
  BY <1>1, <1>2 DEF Effective, Silenced, WellFormed

\* What a silent file makes of a declaration, and that it is made well.
Declared(p, default, silenced) == WellFormed(p) /\ p.default = default /\ Silenced(p) = silenced

LEMMA KindsDeclared ==
    ASSUME NEW default, default \notin {Panic, Usage, Refused}
    PROVE  /\ Declared(Str(default), default, "")
           /\ Declared(StrFilled(default), default, default)
           /\ default # "" =>
                  /\ Declared(Bool(default, default), default, default)
                  /\ Declared(TypedBool(default), default, "false")
                  /\ Declared(TypedInt(default), default, "0")
           /\ Declared(NoEntry(default, default), default, default)
<1> USE DEF Declared, WellFormed, Silenced, Parm
<1>1. Declared(Str(default), default, "") /\ Declared(StrFilled(default), default, default)
  BY DEF Str, StrFilled
<1>2. default # "" => Declared(Bool(default, default), default, default)
  BY DEF Bool
<1>3. default # "" => /\ Declared(TypedBool(default), default, "false")
                      /\ Declared(TypedInt(default), default, "0")
  BY DEF TypedBool, TypedInt
<1>4. Declared(NoEntry(default, default), default, default)
  BY DEF NoEntry
<1> QED
  BY <1>1, <1>2, <1>3, <1>4

\* Every parameter is declared well; of which ones a silent file takes the default.
Loses(parameters, names) ==
    \A name \in DOMAIN parameters :
        /\ WellFormed(parameters[name])
        /\ Silenced(parameters[name]) # parameters[name].default <=> name \in names
Keeps(p) == WellFormed(p) /\ Silenced(p) = p.default
Loser(p) == WellFormed(p) /\ Silenced(p) # p.default

LEMMA CommonDeclared ==
    Loses(CommonParameters, {"logLevel", "topics", "subscriptions", "statisticsQueue"})
<1>1. /\ Declared(Str(""), "", "") /\ Declared(Str("error"), "error", "")
      /\ Declared(Str("#"), "#", "") /\ Declared(Str("*"), "*", "")
      /\ Declared(Str("SYSTEM.ADMIN.STATISTICS.QUEUE"), "SYSTEM.ADMIN.STATISTICS.QUEUE", "")
      /\ Declared(Bool("false", "false"), "false", "false")
      /\ Declared(Bool("true", "true"), "true", "true")
      /\ Declared(StrFilled("0h"), "0h", "0h") /\ Declared(StrFilled("0s"), "0s", "0s")
      /\ Declared(StrFilled("1h"), "1h", "1h")
      /\ Declared(NoEntry("false", "false"), "false", "false") /\ Declared(NoEntry("", ""), "", "")
  BY KindsDeclared
<1>2. Declared(Parm("ifGiven", "SYSTEM.DEFAULT.MODEL.QUEUE", "", "", ""),
               "SYSTEM.DEFAULT.MODEL.QUEUE", "SYSTEM.DEFAULT.MODEL.QUEUE")
  BY DEF Declared, WellFormed, Silenced, Parm
<1>3. Declared(Parm("asString", "3", "0", "3", "0"), "3", "3")
  BY DEF Declared, WellFormed, Silenced, Parm
<1>4. Declared(Parm("ifEmpty", "", "", "", ""), "", "")
  BY DEF Declared, WellFormed, Silenced, Parm
<1>5. DOMAIN CommonParameters =
          {"logLevel", "topics", "subscriptions", "queueManager", "ccdtUrl", "connName",
          "channel", "replyQueue2", "durableSubPrefix", "metaPrefix", "queues", "channels",
          "amqpChannels", "mqttChannels", "queueSubscriptionSelector", "user", "password",
          "passwordFile", "locale", "metadataTags", "metadataValues", "replyQueue",
          "statisticsQueue", "waitInterval", "showInactiveChannels", "showCustomAttribute",
          "showUnknownSince", "hideSvrConnJobname", "hideAMQPClientId", "hideMQTTClientId",
          "useResetQStats", "useStatistics", "clientConnection", "usePublications", "tzOffset",
          "pollInterval", "rediscoverInterval", "include", "exclude", "useObjectStatus",
          "configurationFile", "queuesFile", "channelsFile", "amqpChannelsFile",
          "mqttChannelsFile", "topicsFile", "subscriptionsFile"}
  BY DEF CommonParameters
<1>6. /\ CommonParameters.logLevel = Str("error")
      /\ CommonParameters.topics = Str("#")
      /\ CommonParameters.subscriptions = Str("*")
      /\ \A name \in {"queueManager", "ccdtUrl", "connName", "channel", "replyQueue2",
             "durableSubPrefix", "metaPrefix", "queues", "channels", "amqpChannels",
             "mqttChannels", "queueSubscriptionSelector", "user", "password", "passwordFile",
             "locale", "metadataTags", "metadataValues"} :
             CommonParameters[name] = Str("")
      /\ CommonParameters.replyQueue = Parm("ifGiven", "SYSTEM.DEFAULT.MODEL.QUEUE", "", "", "")
      /\ CommonParameters.statisticsQueue = Str("SYSTEM.ADMIN.STATISTICS.QUEUE")
      /\ CommonParameters.waitInterval = Parm("asString", "3", "0", "3", "0")
      /\ \A name \in {"showInactiveChannels", "showCustomAttribute", "showUnknownSince",
             "hideSvrConnJobname", "hideAMQPClientId", "hideMQTTClientId", "useResetQStats",
             "useStatistics", "clientConnection"} :
             CommonParameters[name] = Bool("false", "false")
      /\ CommonParameters.usePublications = Bool("true", "true")
      /\ CommonParameters.tzOffset = StrFilled("0h")
      /\ CommonParameters.pollInterval = StrFilled("0s")
      /\ CommonParameters.rediscoverInterval = StrFilled("1h")
      /\ \A name \in {"include", "exclude"} :
             CommonParameters[name] = Parm("ifEmpty", "", "", "", "")
      /\ CommonParameters.useObjectStatus = NoEntry("false", "false")
      /\ \A name \in {"configurationFile", "queuesFile", "channelsFile", "amqpChannelsFile",
             "mqttChannelsFile", "topicsFile", "subscriptionsFile"} :
             CommonParameters[name] = NoEntry("", "")
  BY DEF CommonParameters
<1> QED
  <2>1. \A name \in {"queueManager", "ccdtUrl", "connName", "channel", "replyQueue2",
            "durableSubPrefix", "metaPrefix", "queues", "channels", "amqpChannels",
            "mqttChannels", "queueSubscriptionSelector", "user", "password", "passwordFile",
            "locale", "metadataTags", "metadataValues"} :
            Keeps(CommonParameters[name])
    BY <1>1, <1>2, <1>3, <1>4, <1>6 DEF Declared, Keeps
  <2>2. \A name \in {"showInactiveChannels", "showCustomAttribute", "showUnknownSince",
            "hideSvrConnJobname", "hideAMQPClientId", "hideMQTTClientId", "useResetQStats",
            "useStatistics", "clientConnection"} :
            Keeps(CommonParameters[name])
    BY <1>1, <1>2, <1>3, <1>4, <1>6 DEF Declared, Keeps
  <2>3. \A name \in {"include", "exclude"} :
            Keeps(CommonParameters[name])
    BY <1>1, <1>2, <1>3, <1>4, <1>6 DEF Declared, Keeps
  <2>4. \A name \in {"configurationFile", "queuesFile", "channelsFile", "amqpChannelsFile",
            "mqttChannelsFile", "topicsFile", "subscriptionsFile"} :
            Keeps(CommonParameters[name])
    BY <1>1, <1>2, <1>3, <1>4, <1>6 DEF Declared, Keeps
  <2>5. \A name \in {"replyQueue", "waitInterval", "usePublications", "tzOffset",
            "pollInterval", "rediscoverInterval", "useObjectStatus"} :
            Keeps(CommonParameters[name])
    <3>1. Keeps(CommonParameters.replyQueue)
      BY <1>2, <1>6 DEF Declared, Keeps
    <3>2. Keeps(CommonParameters.waitInterval)
      BY <1>3, <1>6 DEF Declared, Keeps
    <3>3. Keeps(CommonParameters.usePublications) /\ Keeps(CommonParameters.useObjectStatus)
      BY <1>1, <1>6 DEF Declared, Keeps
    <3>4. /\ Keeps(CommonParameters.tzOffset) /\ Keeps(CommonParameters.pollInterval)
          /\ Keeps(CommonParameters.rediscoverInterval)
      BY <1>1, <1>6 DEF Declared, Keeps
    <3> QED
      BY <3>1, <3>2, <3>3, <3>4
  <2>6. \A name \in {"logLevel", "topics", "subscriptions", "statisticsQueue"} :
            Loser(CommonParameters[name])
    BY <1>1, <1>6 DEF Declared, Loser
  <2> QED
    BY <1>5, <2>1, <2>2, <2>3, <2>4, <2>5, <2>6 DEF Loses, Keeps, Loser

LEMMA PrometheusDeclared == Loses(PrometheusParameters, {"port", "keepRunning"})
<1>1. /\ Declared(Str(""), "", "") /\ Declared(Str("9157"), "9157", "")
      /\ Declared(StrFilled("/metrics"), "/metrics", "/metrics")
      /\ Declared(StrFilled("5s"), "5s", "5s") /\ Declared(StrFilled("ibmmq"), "ibmmq", "ibmmq")
      /\ Declared(TypedBool("true"), "true", "false")
  BY KindsDeclared
<1>2. DOMAIN PrometheusParameters =
          {"port", "host", "metricsPath", "keepRunning", "reconnectInterval", "httpsCertFile",
          "httpsKeyFile", "namespace", "overrideCType"}
  BY DEF PrometheusParameters
<1>3. /\ PrometheusParameters.port = Str("9157")
      /\ \A name \in {"host", "httpsCertFile", "httpsKeyFile", "overrideCType"} :
             PrometheusParameters[name] = Str("")
      /\ PrometheusParameters.metricsPath = StrFilled("/metrics")
      /\ PrometheusParameters.keepRunning = TypedBool("true")
      /\ PrometheusParameters.reconnectInterval = StrFilled("5s")
      /\ PrometheusParameters.namespace = StrFilled("ibmmq")
  BY DEF PrometheusParameters
<1> QED
  <2>1. \A name \in {"host", "httpsCertFile", "httpsKeyFile", "overrideCType"} :
            Keeps(PrometheusParameters[name])
    BY <1>1, <1>3 DEF Declared, Keeps
  <2>2. \A name \in {"metricsPath", "reconnectInterval", "namespace"} :
            Keeps(PrometheusParameters[name])
    BY <1>1, <1>3 DEF Declared, Keeps
  <2>3. \A name \in {"port", "keepRunning"} : Loser(PrometheusParameters[name])
    BY <1>1, <1>3 DEF Declared, Loser
  <2> QED
    BY <1>2, <2>1, <2>2, <2>3 DEF Loses, Keeps, Loser

LEMMA OtelDeclared == Loses(OtelParameters, {"interval", "maxErrors"})
<1>1. /\ Declared(Str(""), "", "") /\ Declared(Str("10s"), "10s", "")
      /\ Declared(TypedInt("100"), "100", "0")
  BY KindsDeclared
<1>2. DOMAIN OtelParameters =
          {"endpoint", "interval", "maxErrors", "logLevel", "insecure", "overrideCType"}
  BY DEF OtelParameters
<1>3. /\ \A name \in {"endpoint", "logLevel", "insecure", "overrideCType"} :
             OtelParameters[name] = Str("")
      /\ OtelParameters.interval = Str("10s")
      /\ OtelParameters.maxErrors = TypedInt("100")
  BY DEF OtelParameters
<1> QED
  BY <1>1, <1>2, <1>3 DEF Loses, Declared

LEMMA JsonDeclared == Loses(JsonParameters, {"interval", "recordmax"})
<1>1. /\ Declared(Str("10s"), "10s", "") /\ Declared(TypedBool("false"), "false", "false")
      /\ Declared(TypedInt("100"), "100", "0")
  BY KindsDeclared
<1>2. DOMAIN JsonParameters =
          {"interval", "oneline", "recordmax"}
  BY DEF JsonParameters
<1>3. /\ JsonParameters.interval = Str("10s")
      /\ JsonParameters.oneline = TypedBool("false")
      /\ JsonParameters.recordmax = TypedInt("100")
  BY DEF JsonParameters
<1> QED
  BY <1>1, <1>2, <1>3 DEF Loses, Declared

\* "The YAML overrides the hardcoded default values" (README): it does so also by
\* what it does not say.  Of the parameters that neither the environment nor the
\* command line sets, a file without an entry for them takes the default away from
\* exactly these, whatever else it says; without a file, every one keeps it.
THEOREM DefaultLostTheorem ==
    ASSUME NEW s, ~UserSet(s)
    PROVE  /\ s.file /\ s.entry = Absent =>
                  /\ Lost(CommonParameters, s)
                         = {"logLevel", "topics", "subscriptions", "statisticsQueue"}
                  /\ Lost(PrometheusParameters, s) = {"port", "keepRunning"}
                  /\ Lost(OtelParameters, s) = {"interval", "maxErrors"}
                  /\ Lost(JsonParameters, s) = {"interval", "recordmax"}
           /\ ~s.file =>
                  /\ Lost(CommonParameters, s) = {} /\ Lost(PrometheusParameters, s) = {}
                  /\ Lost(OtelParameters, s) = {} /\ Lost(JsonParameters, s) = {}
<1>1. ASSUME NEW parameters, NEW names, names \subseteq DOMAIN parameters,
             Loses(parameters, names), s.file, s.entry = Absent
      PROVE  Lost(parameters, s) = names
  BY <1>1, SilentFile DEF Lost, Loses
<1>2. ASSUME NEW parameters, NEW names, Loses(parameters, names), ~s.file
      PROVE  Lost(parameters, s) = {}
  <2>1. ASSUME NEW p, WellFormed(p) PROVE Effective(p, s) = p.default
    BY <1>2, <2>1, ParsedDefault DEF Effective, WellFormed
  <2> QED
    BY <1>2, <2>1 DEF Lost, Loses
<1>3. {"logLevel", "topics", "subscriptions", "statisticsQueue"} \subseteq DOMAIN CommonParameters
  BY DEF CommonParameters
<1>4. {"port", "keepRunning"} \subseteq DOMAIN PrometheusParameters
  BY DEF PrometheusParameters
<1>5. /\ {"interval", "maxErrors"} \subseteq DOMAIN OtelParameters
      /\ {"interval", "recordmax"} \subseteq DOMAIN JsonParameters
  BY DEF OtelParameters, JsonParameters
<1>6. s.file /\ s.entry = Absent =>
          /\ Lost(CommonParameters, s)
                 = {"logLevel", "topics", "subscriptions", "statisticsQueue"}
          /\ Lost(PrometheusParameters, s) = {"port", "keepRunning"}
          /\ Lost(OtelParameters, s) = {"interval", "maxErrors"}
          /\ Lost(JsonParameters, s) = {"interval", "recordmax"}
  BY <1>1, <1>3, <1>4, <1>5, CommonDeclared, PrometheusDeclared, OtelDeclared, JsonDeclared
<1>7. ~s.file =>
          /\ Lost(CommonParameters, s) = {} /\ Lost(PrometheusParameters, s) = {}
          /\ Lost(OtelParameters, s) = {} /\ Lost(JsonParameters, s) = {}
  BY <1>2, CommonDeclared, PrometheusDeclared, OtelDeclared, JsonDeclared
<1> QED
  BY <1>6, <1>7

-----------------------------------------------------------------------------
(* The password.                                                           *)

\* Whether something is said of a parameter, on any level.
Given(s) == s.cli # Absent \/ s.env # Absent \/ (s.file /\ s.entry # Absent)

\* Both parameters are texts without a default, which the file may give.
LEMMA PasswordParameters ==
    /\ CommonParameters.password = Str("") /\ CommonParameters.passwordFile = Str("")
    /\ WellFormed(Str("")) /\ Str("").copy = "copied" /\ Str("").default = ""
    /\ ~LosesDefault(Str(""))
<1>1. CommonParameters.password = Str("") /\ CommonParameters.passwordFile = Str("")
  BY DEF CommonParameters
<1>2. /\ Str("").copy = "copied" /\ Str("").default = ""
      /\ Str("").missing = "" /\ Str("").filled = ""
  BY DEF Str, Parm
<1>3. WellFormed(Str("")) /\ ~LosesDefault(Str(""))
  BY <1>2 DEF WellFormed, LosesDefault
<1> QED
  BY <1>1, <1>2, <1>3

\* Such a parameter is empty only if nobody gave it.
LEMMA EmptyUnlessGiven ==
    ASSUME NEW s, WellGiven(s) PROVE Effective(Str(""), s) = "" <=> ~Given(s)
<1>1. Effective(Str(""), s) = Documented(Str(""), s)
  BY PasswordParameters, PrecedenceTheorem DEF PrecedenceKept
<1>2. s.cli # "" /\ s.env # "" /\ s.entry # ""
  BY DEF WellGiven
<1> QED
  BY <1>1, <1>2, PasswordParameters DEF Documented, Given

\* A user is asked for a password exactly if neither it nor a file with it is
\* given on any level, whatever the texts are (initConfig).
THEOREM PasswordTheorem ==
    ASSUME NEW user, user # "",
           NEW password, WellGiven(password), NEW passwordFile, WellGiven(passwordFile)
    PROVE  PasswordFrom(user, Effective(CommonParameters.password, password),
                        Effective(CommonParameters.passwordFile, passwordFile)) = "stdin"
             <=> ~Given(password) /\ ~Given(passwordFile)
BY PasswordParameters, EmptyUnlessGiven DEF PasswordFrom
=============================================================================
