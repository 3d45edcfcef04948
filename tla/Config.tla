-------------------------------- MODULE Config --------------------------------
(***************************************************************************)
(* The configuration of the collectors, pkg/config and cmd/*/config.go:    *)
(* what a parameter is in the end, given what the environment, the command *)
(* line and the YAML file say of it.                                       *)
(*                                                                         *)
(* Values are strings: the zero value of a string is "", those of the      *)
(* other types "0" and "false".  Absent is a place that says nothing,      *)
(* Mistyped a text that is neither a number nor a boolean.                 *)
(***************************************************************************)

Absent == "(absent)"
Mistyped == "(mistyped)"
Panic == "(panic)"     \* the program ends with a panic
Usage == "(usage)"     \* flag.Parse ends the program

Refused == "(refused)" \* the file cannot be decoded, which is an error

\* How a parameter gets its value from the file: "copied" or "typed" (the entry
\* is not a string in the file) if the user did not set it; "ifGiven", if the
\* outcome is not empty; "asString", where the flag is an integer but the copy
\* takes it for a string; "ifEmpty", if the parsed flag is empty; "never", as
\* there is no such entry.
Copies == {"copied", "typed", "ifGiven", "asString", "ifEmpty", "never"}

\* default: hardcoded; zero: of its type; missing: what is copied if the entry
\* is not in the file; filled: what replaces an empty string in the end
Parm(copy, default, zero, missing, filled) ==
    [copy |-> copy, default |-> default, zero |-> zero, missing |-> missing,
     filled |-> filled]
Str(default) == Parm("copied", default, "", "", "")
StrFilled(default) == Parm("copied", default, "", "", default)
Bool(default, missing) == Parm("copied", default, "false", missing, "false")
TypedBool(default) == Parm("typed", default, "false", "false", "false")
TypedInt(default) == Parm("typed", default, "0", "0", "0")
NoEntry(default, zero) == Parm("never", default, zero, zero, zero)

\* InitConfig with CopyYamlConfig, AsBool, asInt and VerifyConfig.  Parameters
\* of one kind that differ in nothing else stand in one line.
CommonParameters ==
    [logLevel |-> Str("error"), topics |-> Str("#"), subscriptions |-> Str("*"),
     queueManager |-> Str(""), ccdtUrl |-> Str(""), connName |-> Str(""), channel |-> Str(""),
     replyQueue2 |-> Str(""), durableSubPrefix |-> Str(""), metaPrefix |-> Str(""),
     queues |-> Str(""), channels |-> Str(""), amqpChannels |-> Str(""), mqttChannels |-> Str(""),
     queueSubscriptionSelector |-> Str(""), user |-> Str(""), password |-> Str(""),
     passwordFile |-> Str(""), locale |-> Str(""), metadataTags |-> Str(""),
     metadataValues |-> Str(""),
     replyQueue |-> Parm("ifGiven", "SYSTEM.DEFAULT.MODEL.QUEUE", "", "", ""),
     statisticsQueue |-> Str("SYSTEM.ADMIN.STATISTICS.QUEUE"),
     waitInterval |-> Parm("asString", "3", "0", "3", "0"),
     showInactiveChannels |-> Bool("false", "false"), showCustomAttribute |-> Bool("false", "false"),
     showUnknownSince |-> Bool("false", "false"), hideSvrConnJobname |-> Bool("false", "false"),
     hideAMQPClientId |-> Bool("false", "false"), hideMQTTClientId |-> Bool("false", "false"),
     useResetQStats |-> Bool("false", "false"), useStatistics |-> Bool("false", "false"),
     clientConnection |-> Bool("false", "false"), usePublications |-> Bool("true", "true"),
     tzOffset |-> StrFilled("0h"), pollInterval |-> StrFilled("0s"),
     rediscoverInterval |-> StrFilled("1h"),
     include |-> Parm("ifEmpty", "", "", "", ""), exclude |-> Parm("ifEmpty", "", "", "", ""),
     useObjectStatus |-> NoEntry("false", "false"), configurationFile |-> NoEntry("", ""),
     queuesFile |-> NoEntry("", ""), channelsFile |-> NoEntry("", ""),
     amqpChannelsFile |-> NoEntry("", ""), mqttChannelsFile |-> NoEntry("", ""),
     topicsFile |-> NoEntry("", ""), subscriptionsFile |-> NoEntry("", "")]

PrometheusParameters ==
    [port |-> Str("9157"), host |-> Str(""), metricsPath |-> StrFilled("/metrics"),
     keepRunning |-> TypedBool("true"), reconnectInterval |-> StrFilled("5s"),
     httpsCertFile |-> Str(""), httpsKeyFile |-> Str(""), namespace |-> StrFilled("ibmmq"),
     overrideCType |-> Str("")]
OtelParameters ==
    [endpoint |-> Str(""), interval |-> Str("10s"), maxErrors |-> TypedInt("100"),
     logLevel |-> Str(""), insecure |-> Str(""), overrideCType |-> Str("")]
JsonParameters ==
    [interval |-> Str("10s"), oneline |-> TypedBool("false"),
     recordmax |-> TypedInt("100")]

-----------------------------------------------------------------------------
(* What is said of a parameter: env and cli, whether there is a file (-f), *)
(* and entry, which counts only if there is one.  An empty environment     *)
(* variable is an absent one.                                              *)

\* ParseParms: the environment replaces the default, and what cannot be parsed
\* of it becomes the zero value
FromEnv(p, s) == IF s.env = Mistyped /\ p.zero # "" THEN p.zero ELSE s.env
FlagDefault(p, s) == IF s.env # Absent THEN FromEnv(p, s) ELSE p.default
Parsed(p, s) ==
    IF s.cli = Absent THEN FlagDefault(p, s)
    ELSE IF s.cli \in {Mistyped, ""} /\ p.zero # "" THEN Usage
    ELSE s.cli
UserSet(s) == s.env # Absent \/ s.cli # Absent

\* AsBool and asInt replace what they cannot decode like what is missing
FromFile(p, s) ==
    IF s.entry = Absent \/ (s.entry \in {Mistyped, ""} /\ p.zero # "") THEN p.missing
    ELSE s.entry

\* CopyParmIfNotSet: the flag, or what the file says.  Of an integer, *(*string)
\* is a failed type assertion.
CopyParmIfNotSet(p, s) ==
    IF ~UserSet(s) THEN FromFile(p, s)
    ELSE IF p.copy = "asString" THEN Panic
    ELSE Parsed(p, s)

Copied(p, s) ==
    CASE p.copy \in {"copied", "typed", "asString"} -> CopyParmIfNotSet(p, s)
      [] p.copy = "ifGiven" /\ CopyParmIfNotSet(p, s) # "" -> CopyParmIfNotSet(p, s)
      [] p.copy = "ifEmpty" /\ Parsed(p, s) = "" -> FromFile(p, s)
      [] OTHER -> Parsed(p, s)

\* ReadConfigFile: yaml.Unmarshal refuses the file, whoever set the parameter
Undecodable(p, s) == p.copy = "typed" /\ s.entry = Mistyped

\* initConfig
Effective(p, s) ==
    LET value == IF Parsed(p, s) = Usage \/ ~s.file THEN Parsed(p, s)
                 ELSE IF Undecodable(p, s) THEN Refused
                 ELSE Copied(p, s)
    IN  IF value = "" THEN p.filled ELSE value

\* The map of the YAML file comes before all other tags
MetadataTags(s, metadataMap) ==
    IF s.file /\ metadataMap # Absent THEN metadataMap
    ELSE Effective(CommonParameters.metadataTags, s)

-----------------------------------------------------------------------------
(* VerifyConfig                                                            *)

\* forced and unforced: the environment variables MQIGO_FORCE_USESTATUS_FALSE
\* and MQIGO_NOFORCE_USESTATUS
UseStatus(usePublications, useResetQStats, forced, unforced) ==
    \/ ~forced
    \/ ~usePublications /\ ~unforced
    \/ useResetQStats

\* A file of patterns replaces them
FilePatterns(queues, queuesFile, patterns) == IF queuesFile # "" THEN patterns ELSE queues

\* Statistics need all queues
MonitoredQueues(queues, useStatistics) == IF useStatistics THEN "*" ELSE queues

StatisticsQ(statisticsQ, useStatistics) ==
    IF useStatistics /\ statisticsQ = "" THEN "SYSTEM.ADMIN.STATISTICS.QUEUE" ELSE statisticsQ

\* Where the password comes from
PasswordFrom(user, password, passwordFile) ==
    IF user = "" \/ password # "" THEN "config"
    ELSE IF passwordFile = "" THEN "stdin" ELSE "file"

-----------------------------------------------------------------------------
(* What the README says.                                                   *)

\* "The command line flags are highest precedence. Environment variables
\* override settings in the YAML file, And the YAML overrides the hardcoded
\* default values."
Documented(p, s) ==
    IF s.cli # Absent THEN s.cli
    ELSE IF s.env # Absent THEN s.env
    ELSE IF s.file /\ s.entry # Absent THEN s.entry
    ELSE p.default

\* How the parameters are declared: what is left empty by default stays so, and
\* what the file fills in only if it has something gets nothing from a file that
\* has nothing.
WellFormed(p) ==
    /\ p.copy \in Copies /\ p.default \notin {Panic, Usage, Refused}
    /\ p.default = "" => p.filled = ""
    /\ p.copy \in {"ifGiven", "ifEmpty"} => p.missing = ""
    /\ p.copy = "ifEmpty" => p.default = ""

\* The values are of the right type, and not empty
WellGiven(s) == \A value \in {s.env, s.cli, s.entry} : value \notin {Mistyped, ""}

\* The precedence is kept for a parameter that the copy takes for what it is,
\* unless its default is lost: the file has no entry for it, nor does the user
\* set it.  (No entry at all means that the file is not asked.)
LosesDefault(p) ==
    p.copy \in {"copied", "typed"} /\ (IF p.missing = "" THEN p.filled ELSE p.missing) # p.default
PrecedenceKept(p, s) ==
    WellGiven(s) /\ p.copy # "asString" /\ (p.copy = "never" => s.entry = Absent)
    /\ ~(LosesDefault(p) /\ s.file /\ ~UserSet(s) /\ s.entry = Absent)
        => Effective(p, s) = Documented(p, s)

\* The parameters of which a file that says nothing of them takes the hardcoded
\* default away, if nobody else sets them
Lost(parameters, s) ==
    {name \in DOMAIN parameters : Effective(parameters[name], s) # parameters[name].default}
=============================================================================
