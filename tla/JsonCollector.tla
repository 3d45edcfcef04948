---------------------------- MODULE JsonCollector ----------------------------
(***************************************************************************)
(* The JSON collector, cmd/mq_json: one goroutine that in every cycle      *)
(* reads the publications, polls for object status when that is due, and   *)
(* prints the values it read as "points", one for each set of tags, in     *)
(* blocks of a limited length.  main() ignores what Collect returns; only  *)
(* pkg/errors and a failure to read publications end the program.          *)
(*                                                                         *)
(* The objects are queues, which have published values and, after a poll,  *)
(* status values, and channels, which have status values only.  A point is *)
(* its object, the kinds of values it holds, and whether all of them were  *)
(* read in the current cycle.  Reading publications and polling is modelled*)
(* for the order of their failures; the values themselves are not.         *)
(***************************************************************************)
EXTENDS Integers, FiniteSets, Sequences, SequencesExt

CONSTANTS
    Queues, Channels,     \* monitored objects
    UsePublications,      \* config.cf.CC.UsePublications
    Warnings,             \* MQCONNX may complete with MQCC_WARNING
    recordmax,            \* config.recordmax
    MaxPoints,            \* bound: a poll is due when there are this many points
    MaxFaults             \* bound on failures of single calls

Objects == Queues \union Channels

ASSUME ObjectsAssumption ==
    Queues \cap Channels = {} /\ IsFiniteSet(Queues) /\ IsFiniteSet(Channels)
ASSUME SwitchAssumption == UsePublications \in BOOLEAN /\ Warnings \in BOOLEAN
ASSUME RecordAssumption == recordmax \in Int
ASSUME BoundAssumption == MaxPoints \in Nat /\ MaxFaults \in Nat

maxStatusCollectionErrors == 3
MQCC_WARNING == 1
MQRC_Q_MGR_QUIESCING == 2161          \* a reason that comes with a warning
PCs == {"start", "read", "poll", "status", "handle", "points", "print", "printed",
        "sleep", "gone"}
Points == [obj : Objects, holds : SUBSET {"published", "status"}, fresh : BOOLEAN]

VARIABLES
    pc, exit,
    first, pollStatus, err,        \* the exporter's flag; locals of Collect
    published,                     \* the queues with published values
    statusOf,                      \* the status values of each object, if any
    AllPoints, printed,            \* the points; the blocks of the last report
    statusErrors,
    pollDue, connected, faults,
    badPolls                       \* history: failed polls in a row

local == <<first, pollStatus, err>>
output == <<AllPoints, printed>>
env == <<pollDue, connected, faults>>
vars == <<pc, exit, local, published, statusOf, output, statusErrors, env,
          badPolls>>

ControlTyped ==
    /\ pc \in PCs /\ exit \in {"running", "1", "30"}
    /\ first \in BOOLEAN /\ pollStatus \in BOOLEAN /\ err \in BOOLEAN
    /\ pollDue \in BOOLEAN /\ connected \in BOOLEAN
CountsTyped ==
    /\ statusErrors \in 0 .. maxStatusCollectionErrors + 1
    /\ badPolls \in 0 .. maxStatusCollectionErrors + 1
    /\ faults \in 0 .. MaxFaults
ValuesTyped ==
    /\ published \subseteq Queues
    /\ statusOf \in [Objects -> {"none", "fresh", "stale"}]
PointsTyped == AllPoints \in Seq(Points) /\ printed \in Seq(Seq(Points))
TypeOK == ControlTyped /\ CountsTyped /\ ValuesTyped /\ PointsTyped

Init ==
    /\ pc = "start" /\ exit = "running"
    /\ first = TRUE /\ pollStatus = FALSE /\ err = FALSE
    /\ published = {} /\ statusOf = [o \in Objects |-> "none"]
    /\ AllPoints = <<>> /\ printed = <<>>
    /\ statusErrors = 0 /\ pollDue = FALSE /\ connected = TRUE /\ faults = MaxFaults
    /\ badPolls = 0

Gone == pc = "gone"
End(code) == pc' = "gone" /\ exit' = code

\* A call that may fail: for good reason, or by using up one of the faults
Fails(works) == IF works THEN faults > 0 /\ faults' = faults - 1
                         ELSE UNCHANGED faults

-----------------------------------------------------------------------------
\* mqcc is assigned the reason code, not the completion code
WarningSeen(cc, rc) == LET mqcc == rc IN mqcc = MQCC_WARNING

\* A connection with a warning is an error of InitConnection; and so is a
\* failure of discovery, which is fatal like any other error
Startup ==
    /\ pc = "start"
    /\ \/ connected /\ pc' = "read" /\ UNCHANGED <<exit, faults>>
       \/ /\ connected /\ Warnings
          /\ IF WarningSeen(MQCC_WARNING, MQRC_Q_MGR_QUIESCING)
             THEN pc' = "read" /\ UNCHANGED exit ELSE End("1")
          /\ UNCHANGED faults
       \/ Fails(connected) /\ \E code \in {"1", "30"} : End(code)
    /\ UNCHANGED <<local, published, statusOf, output, statusErrors, pollDue, connected,
                   badPolls>>

\* History only: what is still there from the last cycle is no longer fresh
Aged(points) == [i \in DOMAIN points |-> [points[i] EXCEPT !.fresh = FALSE]]

\* Collect up to the poll.  An error of ProcessPublications is fatal.
ReadPublications ==
    /\ pc = "read"
    /\ err' = FALSE /\ pollStatus' = (pollDue \/ first)
    /\ statusOf' = [o \in Objects |-> IF statusOf[o] = "none" THEN "none" ELSE "stale"]
    /\ AllPoints' = Aged(AllPoints) /\ printed' = <<>>
    /\ \/ /\ connected \/ ~UsePublications
          /\ \E queues \in SUBSET Queues :
                /\ ~UsePublications => queues = {}
                /\ published' = queues
          /\ pc' = "poll"
          /\ UNCHANGED <<exit, faults>>
       \/ /\ UsePublications /\ Fails(connected)
          /\ End("1") /\ UNCHANGED published
    /\ UNCHANGED <<first, statusErrors, pollDue, connected, badPolls>>

\* Mutant: what an object that does not answer had before is kept
KeptCollected(objects, missing) ==
    [o \in Objects |-> IF o \in objects \ missing THEN "fresh" ELSE statusOf[o]]

\* The values of one kind of object after its status was collected: emptied
\* first, then filled by the replies that arrive, all of them if it succeeds
Collected(objects, missing) ==
    [o \in Objects |-> IF o \notin objects THEN statusOf[o]
                       ELSE IF o \in missing THEN "none" ELSE "fresh"]

CollectStatus(objects) ==
    \/ /\ connected
       /\ statusOf' = Collected(objects, {})
       /\ UNCHANGED <<err, faults>>
    \/ /\ Fails(connected)
       /\ \E missing \in SUBSET objects :
             /\ ~connected => missing = objects
             /\ statusOf' = Collected(objects, missing)
       /\ err' = TRUE

\* CollectQueueStatus and CollectChannelStatus send one command for each pattern
\* of names, and return the error of the last one: that of another is forgotten
EarlierPatternFails(objects) ==
    /\ connected /\ Fails(connected)
    /\ \E missing \in SUBSET objects : statusOf' = Collected(objects, missing)
    /\ UNCHANGED err

PollQueues ==
    /\ pc = "poll" /\ pollStatus
    /\ CollectStatus(Queues) \/ EarlierPatternFails(Queues)
    /\ pc' = "status"
    /\ UNCHANGED <<exit, first, pollStatus, published, output, statusErrors, pollDue,
                   connected, badPolls>>

\* CollectQueueManagerStatus, whose error (but not that of the queues) keeps
\* the rest from being collected; the error of any of them is reported
PollChannels ==
    /\ pc = "status"
    /\ \/ CollectStatus(Channels) \/ EarlierPatternFails(Channels)
       \/ Fails(connected) /\ err' = TRUE /\ UNCHANGED statusOf
    /\ pc' = "handle"
    /\ UNCHANGED <<exit, first, pollStatus, published, output, statusErrors, pollDue,
                   connected, badPolls>>

SkipPoll ==
    /\ pc = "poll" /\ ~pollStatus
    /\ pc' = "handle"
    /\ UNCHANGED <<exit, local, published, statusOf, output, statusErrors, env, badPolls>>

\* Mutants: one failure more; a success does not reset the count
TooManyByOne(n) == n > maxStatusCollectionErrors + 1
TooMany(n) == n > maxStatusCollectionErrors
NeverReset == statusErrors
CountAfterSuccess == 0

\* HandleStatus, called in every cycle, whether it polled or not; rediscovery,
\* whose errors are ignored, follows
HandleStatus ==
    /\ pc = "handle"
    /\ statusErrors' = IF err THEN statusErrors + 1 ELSE CountAfterSuccess
    /\ badPolls' = IF ~pollStatus THEN badPolls
                   ELSE IF ~err THEN 0
                   ELSE IF badPolls > maxStatusCollectionErrors THEN badPolls
                   ELSE badPolls + 1
    /\ IF TooMany(statusErrors')
       THEN End("1") ELSE pc' = "points" /\ UNCHANGED exit
    /\ UNCHANGED <<local, published, statusOf, output, env>>

\* ptMap: a point for every object with status values.  That of a queue with
\* a point in ptMapPub is the same point: each is the merge of both.
Point(o) ==
    [obj |-> o,
     holds |-> (IF o \in published THEN {"published"} ELSE {})
               \union (IF pollStatus /\ statusOf[o] # "none" THEN {"status"} ELSE {}),
     fresh |-> ~pollStatus \/ statusOf[o] # "stale"]
ptMap == {Point(o) : o \in {x \in Objects : statusOf[x] # "none"}}
ptMapPub == {Point(q) : q \in published}

\* Mutant: the array is never emptied
AllEarlier == AllPoints
EarlierPoints == IF pollStatus THEN <<>> ELSE AllPoints
PublishedPoints == SetToSeq(ptMapPub)

\* The array is emptied only in cycles that poll; the first cycle makes no points
MakePoints ==
    /\ pc = "points"
    /\ first' = FALSE
    /\ IF first
       THEN pc' = "sleep" /\ UNCHANGED AllPoints
       ELSE /\ AllPoints' = EarlierPoints
                            \o (IF pollStatus THEN SetToSeq(ptMap) ELSE <<>>)
                            \o PublishedPoints
            /\ pc' = "print"
    /\ UNCHANGED <<exit, pollStatus, err, published, statusOf, printed, statusErrors, env,
                   badPolls>>

\* Mutant: the last, shorter block is left out
FullBlocks(n, size) == n \div size
Blocks(n, size) == (n + size - 1) \div size

\* chunk: slices of chunkSize elements, the last one shorter; 0 or less is
\* no limit
chunk(slice, size) ==
    LET chunkSize == IF size <= 0 THEN Len(slice) ELSE size
        end(k) == IF k * chunkSize > Len(slice) THEN Len(slice) ELSE k * chunkSize
    IN  IF slice = <<>> THEN <<>>
        ELSE [k \in 1 .. Blocks(Len(slice), chunkSize) |->
                 SubSeq(slice, (k - 1) * chunkSize + 1, end(k))]

PrintReport ==
    /\ pc = "print"
    /\ printed' = chunk(AllPoints, recordmax)
    /\ pc' = "printed"
    /\ UNCHANGED <<exit, local, published, statusOf, AllPoints, statusErrors, env, badPolls>>

EndCollect ==
    /\ pc = "printed" /\ pc' = "sleep"
    /\ UNCHANGED <<exit, local, published, statusOf, output, statusErrors, env, badPolls>>

\* time.Sleep(d), after which the clock decides whether a poll is due
Sleep ==
    /\ pc = "sleep" /\ pc' = "read"
    /\ pollDue' \in BOOLEAN
    /\ Len(AllPoints) >= MaxPoints => pollDue'
    /\ UNCHANGED <<exit, local, published, statusOf, output, statusErrors, connected,
                   faults, badPolls>>

MainStep ==
    \/ Startup \/ ReadPublications \/ PollQueues \/ PollChannels \/ SkipPoll
    \/ HandleStatus \/ MakePoints \/ PrintReport \/ EndCollect \/ Sleep

\* The collector does not reconnect: a broken connection stays broken
ConnectionBreaks ==
    /\ connected /\ connected' = FALSE
    /\ UNCHANGED <<pc, exit, local, published, statusOf, output, statusErrors, pollDue,
                   faults, badPolls>>

ProcessGone == Gone /\ UNCHANGED vars

Next == (~Gone /\ (MainStep \/ ConnectionBreaks)) \/ ProcessGone

Spec == Init /\ [][Next]_vars

\* The loop keeps running, and the poll interval elapses again and again
PollBecomesDue == Sleep /\ pollDue'
FairSpec == Spec /\ WF_vars(MainStep) /\ SF_vars(PollBecomesDue)

-----------------------------------------------------------------------------
(* Properties.                                                             *)

\* Nothing read in a cycle is left out of its report, however it is split:
\* every published value, every status value of a poll, also of a poll that
\* failed part-way; and no block is longer than recordmax.
Reported == UNION {ToSet(block) : block \in ToSet(printed)}
ReportsEverything ==
    pc = "printed" =>
        /\ \A q \in published : \E p \in Reported : p.obj = q /\ "published" \in p.holds
        /\ \A o \in Objects : pollStatus /\ statusOf[o] = "fresh" =>
              \E p \in Reported : p.obj = o /\ "status" \in p.holds /\ p.fresh
        /\ recordmax > 0 => \A block \in ToSet(printed) : Len(block) \in 1 .. recordmax

\* A report that polls never repeats a publication of an earlier cycle, however
\* many reports without a poll came before it.
PolledReportIsOwn ==
    pc = "printed" /\ pollStatus =>
        \A p \in Reported : "published" \in p.holds => p.obj \in published

\* "Allow (but still report) a small number of consecutive failures": a poll
\* that fails ends the program only if it is the fourth in a row to fail.
EndsForCause ==
    [][pc = "handle" /\ pc' = "gone" => badPolls' > maxStatusCollectionErrors]_vars

\* "the number of messages across it at each interval" (README of mq_json): a
\* report shows what was read in its own interval.
OnlyThisInterval == pc = "printed" => \A p \in ToSet(AllPoints) : p.fresh

\* It does so after a poll that reported no error, also if the error of one of
\* its patterns of names was forgotten: what was not read is missing then,
\* and not taken from an earlier interval.
FreshAfterGoodPoll == pollStatus /\ ~err => OnlyThisInterval

\* "Allow ... a small number of consecutive failures in collecting status. If
\* that's exceeded, then exit with a fatal error" (pkg/errors): when no poll
\* succeeds any more the program ends.
FailedPollsEnd == ~connected ~> Gone
=============================================================================
