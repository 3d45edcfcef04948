------------------------- MODULE JsonCollector_proofs -------------------------
(***************************************************************************)
(* Theorems of JsonCollector, for any finite sets of queues and channels,  *)
(* every recordmax and any number of failures.                             *)
(***************************************************************************)
EXTENDS JsonCollector, TLAPS, FiniteSetTheorems

\* What typing rests on: the process ends in the step that reaches the limit.
BelowLimit == ~Gone => statusErrors <= maxStatusCollectionErrors
TypeInv == TypeOK /\ BelowLimit

-----------------------------------------------------------------------------
(* The sequences a report is made of.                                      *)

\* SetToSeq has the elements of its set, each of them and no other.
LEMMA SetAsSequence ==
    ASSUME NEW S, IsFiniteSet(S)
    PROVE  SetToSeq(S) \in Seq(S) /\ ToSet(SetToSeq(S)) = S
<1> DEFINE n == Cardinality(S)
           f == SetToSeq(S)
<1>1. n \in Nat /\ ExistsBijection(1 .. n, S)
  BY FS_CardinalityType
<1>2. \E g \in [1 .. n -> S] : IsInjective(g)
  BY <1>1 DEF ExistsBijection, Bijection, Injection
<1>3. f \in [1 .. n -> S] /\ IsInjective(f)
  BY <1>2 DEF SetToSeq
<1>4. f \in Injection(1 .. n, S)
  BY <1>3 DEF Injection
<1>5. IsFiniteSet(1 .. n) /\ Cardinality(1 .. n) = n
  BY <1>1, FS_Interval
<1>6. f \in Surjection(1 .. n, S)
  BY <1>4, <1>5, FS_Injection
<1>7. \A x \in S : \E k \in 1 .. n : f[k] = x
  BY <1>6 DEF Surjection
<1>8. f \in Seq(S)
  BY <1>1, <1>3
<1> QED
  BY <1>3, <1>7, <1>8 DEF ToSet

\* A concatenation has the elements of both.
LEMMA ConcatSet ==
    ASSUME NEW S, NEW s \in Seq(S), NEW t \in Seq(S)
    PROVE  ToSet(s \o t) = ToSet(s) \union ToSet(t)
<1>1. PICK m \in Nat, n \in Nat : m = Len(s) /\ n = Len(t)
  OBVIOUS
<1>2. DOMAIN s = 1 .. m /\ DOMAIN t = 1 .. n /\ DOMAIN (s \o t) = 1 .. m + n
  BY <1>1
<1>3. \A k \in 1 .. m : (s \o t)[k] = s[k]
  BY <1>1
<1>4. \A k \in m + 1 .. m + n : k - m \in 1 .. n /\ (s \o t)[k] = t[k - m]
  BY <1>1
<1>5. \A k \in 1 .. n : m + k \in m + 1 .. m + n /\ (s \o t)[m + k] = t[k]
  BY <1>1
<1>6. \A k \in 1 .. m + n : k \in 1 .. m \/ k \in m + 1 .. m + n
  OBVIOUS
<1>7. 1 .. m \subseteq 1 .. m + n /\ m + 1 .. m + n \subseteq 1 .. m + n
  OBVIOUS
<1>8. ASSUME NEW x PROVE x \in ToSet(s \o t) <=> x \in ToSet(s) \union ToSet(t)
  <2>1. x \in ToSet(s \o t) => x \in ToSet(s) \union ToSet(t)
    BY <1>2, <1>3, <1>4, <1>6 DEF ToSet
  <2>2. x \in ToSet(s) => x \in ToSet(s \o t)
    BY <1>2, <1>3, <1>7 DEF ToSet
  <2>3. x \in ToSet(t) => x \in ToSet(s \o t)
    BY <1>2, <1>5, <1>7 DEF ToSet
  <2> QED
    BY <2>1, <2>2, <2>3
<1> QED
  BY <1>8

\* Dividing rounds down.
LEMMA Division ==
    ASSUME NEW n \in Nat, NEW d \in Nat \ {0}
    PROVE  n \div d \in Nat /\ d * (n \div d) <= n /\ n < d * (n \div d) + d
OBVIOUS

\* Of n elements in blocks of c, b - 1 are full, and the last one has the rest.
LEMMA EnoughBlocks ==
    ASSUME NEW n \in Nat, n > 0, NEW c \in Nat, c > 0, NEW b, b = (n + c - 1) \div c
    PROVE  b \in Nat /\ n <= c * b /\ c * b < n + c
<1>1. n + c - 1 \in Nat
  OBVIOUS
<1>2. b \in Nat /\ c * b <= n + c - 1 /\ n + c - 1 < c * b + c
  BY <1>1, Division
<1>3. PICK l \in Nat : l = c * b
  BY <1>2
<1> QED
  BY <1>2, <1>3

\* A block starts, after p others, among the elements.
LEMMA BlockStarts ==
    ASSUME NEW n \in Nat, NEW c \in Nat, c > 0, NEW b \in Nat, c * b < n + c,
           NEW k \in 1 .. b
    PROVE  \E p \in Nat : p = (k - 1) * c /\ k * c = p + c /\ p < n
<1>1. PICK p \in Nat : p = (k - 1) * c
  OBVIOUS
<1>2. k * c = p + c
  BY <1>1
<1>3. PICK q \in Nat : q = (b - k) * c
  OBVIOUS
<1>4. c * b = p + c + q
  BY <1>1, <1>3
<1> QED
  BY <1>1, <1>2, <1>4

\* The k-th block of c, after p others, has the j-th element.
InBlock(j, k, c) ==
    \E p \in Nat : p = (k - 1) * c /\ k * c = p + c /\ p < j /\ j <= p + c

\* Every element is in a block.
LEMMA InSomeBlock ==
    ASSUME NEW n \in Nat, NEW c \in Nat, c > 0, NEW b \in Nat, n <= c * b, NEW j \in 1 .. n
    PROVE  \E k \in 1 .. b : InBlock(j, k, c)
<1>1. PICK q : q = (j - 1) \div c
  OBVIOUS
<1>2. j - 1 \in Nat
  OBVIOUS
<1>3. q \in Nat /\ c * q <= j - 1 /\ j - 1 < c * q + c
  BY <1>1, <1>2, Division
<1>4. PICK l \in Nat : l = c * q
  BY <1>3
<1>5. l < c * b /\ l < j /\ j <= l + c
  BY <1>3, <1>4
<1>6. q < b
  BY <1>3, <1>4, <1>5
<1>7. PICK k \in 1 .. b : k = q + 1
  BY <1>3, <1>6
<1>8. l = (k - 1) * c /\ k * c = l + c
  BY <1>3, <1>4, <1>7
<1>9. InBlock(j, k, c)
  BY <1>4, <1>5, <1>8 DEF InBlock
<1> QED
  BY <1>9

\* A slice between two of its positions.
LEMMA Slice ==
    ASSUME NEW S, NEW slice \in Seq(S), NEW s \in 1 .. Len(slice), NEW e \in s .. Len(slice)
    PROVE  /\ SubSeq(slice, s, e) \in Seq(S) /\ Len(SubSeq(slice, s, e)) = e - s + 1
           /\ ToSet(SubSeq(slice, s, e)) = {slice[j] : j \in s .. e}
<1>1. SubSeq(slice, s, e) = [x \in 1 .. e - s + 1 |-> slice[s + x - 1]]
  OBVIOUS
<1>2. SubSeq(slice, s, e) \in Seq(S) /\ Len(SubSeq(slice, s, e)) = e - s + 1
  OBVIOUS
<1>3. \A j \in s .. e : j - s + 1 \in 1 .. e - s + 1 /\ s + (j - s + 1) - 1 = j
  OBVIOUS
<1>4. \A x \in 1 .. e - s + 1 : s + x - 1 \in s .. e
  OBVIOUS
<1>5. ToSet(SubSeq(slice, s, e)) = {slice[s + x - 1] : x \in 1 .. e - s + 1}
  BY <1>1 DEF ToSet
<1>6. {slice[s + x - 1] : x \in 1 .. e - s + 1} = {slice[j] : j \in s .. e}
  <2>1. ASSUME NEW j \in s .. e PROVE \E x \in 1 .. e - s + 1 : slice[j] = slice[s + x - 1]
    BY <1>3
  <2> QED
    BY <1>4, <2>1
<1> QED
  BY <1>2, <1>5, <1>6

\* chunk, for every slice and every size: blocks within the limit, made of the
\* elements of the slice, and with all of them.
LEMMA Chunked ==
    ASSUME NEW S, NEW slice \in Seq(S), NEW size \in Int
    PROVE  /\ chunk(slice, size) \in Seq(Seq(S))
           /\ UNION {ToSet(block) : block \in ToSet(chunk(slice, size))} = ToSet(slice)
           /\ size > 0 => \A block \in ToSet(chunk(slice, size)) : Len(block) \in 1 .. size
<1>1. CASE slice = <<>>
  <2>1. chunk(slice, size) = <<>>
    BY <1>1 DEF chunk
  <2>2. ToSet(slice) = {} /\ ToSet(chunk(slice, size)) = {}
    BY <1>1, <2>1 DEF ToSet
  <2> QED
    BY <2>1, <2>2
<1>2. CASE slice # <<>>
  <2>1. PICK n \in Nat : n > 0 /\ n = Len(slice) /\ DOMAIN slice = 1 .. n
    BY <1>2
  <2>2. PICK c \in Nat : c > 0 /\ c = IF size <= 0 THEN n ELSE size
    <3>1. CASE size <= 0
      BY <2>1, <3>1
    <3>2. CASE ~(size <= 0)
      BY <3>2
    <3> QED
      BY <3>1, <3>2
  <2>3. PICK b \in Nat : b = (n + c - 1) \div c /\ n <= c * b /\ c * b < n + c
    <3> n > 0 /\ c > 0
      BY <2>1, <2>2
    <3> QED
      BY EnoughBlocks
  <2> DEFINE start(k) == (k - 1) * c + 1
             end(k) == IF k * c > n THEN n ELSE k * c
             block(k) == SubSeq(slice, start(k), end(k))
  <2>4. chunk(slice, size) = [k \in 1 .. b |-> block(k)]
    BY <1>2, <2>1, <2>2, <2>3 DEF chunk, Blocks
  <2>5. ASSUME NEW k \in 1 .. b
        PROVE  start(k) \in 1 .. n /\ end(k) \in start(k) .. n /\ end(k) <= start(k) + c - 1
    <3> c > 0 /\ c * b < n + c
      BY <2>2, <2>3
    <3>1. PICK p \in Nat : p = (k - 1) * c /\ k * c = p + c /\ p < n
      BY BlockStarts
    <3>2. start(k) = p + 1 /\ end(k) = IF p + c > n THEN n ELSE p + c
      BY <3>1
    <3> HIDE DEF start, end
    <3> QED
      BY <3>1, <3>2
  <2>6. ASSUME NEW j \in 1 .. n PROVE \E k \in 1 .. b : j \in start(k) .. end(k)
    <3> c > 0 /\ n <= c * b
      BY <2>2, <2>3
    <3>1. PICK k \in 1 .. b : InBlock(j, k, c)
      BY InSomeBlock
    <3>2. PICK p \in Nat : p = (k - 1) * c /\ k * c = p + c /\ p < j /\ j <= p + c
      BY <3>1 DEF InBlock
    <3>3. start(k) = p + 1 /\ end(k) = IF p + c > n THEN n ELSE p + c
      BY <3>2
    <3> HIDE DEF start, end
    <3>4. j \in start(k) .. end(k)
      BY <3>2, <3>3
    <3> QED
      BY <3>4
  <2> HIDE DEF start, end
  <2>7. ASSUME NEW k \in 1 .. b
        PROVE  /\ block(k) \in Seq(S) /\ Len(block(k)) = end(k) - start(k) + 1
               /\ ToSet(block(k)) = {slice[j] : j \in start(k) .. end(k)}
    BY <2>1, <2>5, Slice
  <2>8. ASSUME NEW k \in 1 .. b PROVE Len(block(k)) \in 1 .. c
    <3> HIDE DEF block
    <3>1. PICK s \in Nat, e \in Nat : s = start(k) /\ e = end(k)
      BY <2>5, <2>1
    <3>2. e >= s /\ e <= s + c - 1 /\ Len(block(k)) = e - s + 1
      BY <2>5, <2>7, <3>1
    <3> QED
      BY <3>2
  <2> HIDE DEF block
  <2>9. chunk(slice, size) \in Seq(Seq(S))
    BY <2>4, <2>7
  <2>10. ToSet(chunk(slice, size)) = {block(k) : k \in 1 .. b}
    BY <2>4 DEF ToSet
  <2>11. size > 0 => \A l \in ToSet(chunk(slice, size)) : Len(l) \in 1 .. size
    BY <2>2, <2>8, <2>10
  <2>12. ToSet(slice) = {slice[j] : j \in 1 .. n}
    BY <2>1 DEF ToSet
  <2>13. \A k \in 1 .. b : start(k) .. end(k) \subseteq 1 .. n
    BY <2>5
  <2>14. \A k \in 1 .. b : ToSet(block(k)) \subseteq ToSet(slice)
    BY <2>7, <2>12, <2>13
  <2>15. \A j \in 1 .. n : \E k \in 1 .. b : slice[j] \in ToSet(block(k))
    BY <2>6, <2>7
  <2>16. UNION {ToSet(l) : l \in ToSet(chunk(slice, size))} = ToSet(slice)
    BY <2>10, <2>12, <2>14, <2>15
  <2> QED
    BY <2>9, <2>11, <2>16
<1> QED
  BY <1>1, <1>2

-----------------------------------------------------------------------------
(* Types.                                                                  *)

LEMMA FaultsTyped ==
    ASSUME faults \in 0 .. MaxFaults, NEW works \in BOOLEAN, Fails(works)
    PROVE  faults' \in 0 .. MaxFaults
BY BoundAssumption DEF Fails

\* What a stage of a poll leaves of the status values, and whether it failed.
LEMMA CollectedTyped ==
    ASSUME statusOf \in [Objects -> {"none", "fresh", "stale"}], NEW objects, NEW missing
    PROVE  Collected(objects, missing) \in [Objects -> {"none", "fresh", "stale"}]
BY DEF Collected

LEMMA StatusTyped ==
    ASSUME ValuesTyped, NEW objects, CollectStatus(objects) \/ EarlierPatternFails(objects),
           err \in BOOLEAN, connected \in BOOLEAN, faults \in 0 .. MaxFaults
    PROVE  /\ statusOf' \in [Objects -> {"none", "fresh", "stale"}]
           /\ err' \in BOOLEAN /\ faults' \in 0 .. MaxFaults
<1>1. faults' \in 0 .. MaxFaults
  <2>1. faults' = faults \/ Fails(connected)
    BY DEF CollectStatus, EarlierPatternFails
  <2> QED
    BY <2>1, FaultsTyped
<1>2. err' \in BOOLEAN
  <2>1. err' = err \/ err' = TRUE
    BY Zenon DEF CollectStatus, EarlierPatternFails
  <2> QED
    BY <2>1
<1>3. PICK some, missing : statusOf' = Collected(some, missing)
  <2>1. CASE CollectStatus(objects)
    BY <2>1 DEF CollectStatus
  <2>2. CASE EarlierPatternFails(objects)
    BY <2>2 DEF EarlierPatternFails
  <2> QED
    BY <2>1, <2>2
<1>4. statusOf' \in [Objects -> {"none", "fresh", "stale"}]
  BY <1>3, CollectedTyped DEF ValuesTyped
<1> QED
  BY <1>1, <1>2, <1>4

LEMMA ObjectsFinite == IsFiniteSet(Objects) /\ Queues \subseteq Objects
BY ObjectsAssumption, FS_Union DEF Objects

\* A set of points, one for each of some objects, is finite, and all are points.
LEMMA PointsOf ==
    ASSUME NEW objects \in SUBSET Objects
    PROVE  IsFiniteSet({Point(o) : o \in objects}) /\ {Point(o) : o \in objects} \subseteq Points
<1>1. IsFiniteSet(objects)
  BY ObjectsFinite, FS_Subset
<1> DEFINE S == {Point(o) : o \in objects}
           f == [o \in objects |-> Point(o)]
<1>2. f \in Surjection(objects, S)
  BY DEF Surjection
<1>3. IsFiniteSet(S)
  BY <1>1, <1>2, FS_Surjection
<1>4. \A o \in Objects : Point(o) \in Points
  BY DEF Point, Points
<1> QED
  BY <1>3, <1>4

\* The points of a report: those of the maps, as sequences.
LEMMA MapsTyped ==
    ASSUME ValuesTyped
    PROVE  /\ SetToSeq(ptMap) \in Seq(Points) /\ ToSet(SetToSeq(ptMap)) = ptMap
           /\ PublishedPoints \in Seq(Points) /\ ToSet(PublishedPoints) = ptMapPub
<1>1. {x \in Objects : statusOf[x] # "none"} \in SUBSET Objects /\ published \in SUBSET Objects
  BY ObjectsFinite DEF ValuesTyped
<1>2. IsFiniteSet(ptMap) /\ ptMap \subseteq Points
  BY <1>1, PointsOf DEF ptMap
<1>3. IsFiniteSet(ptMapPub) /\ ptMapPub \subseteq Points
  BY <1>1, PointsOf DEF ptMapPub
<1>4. SetToSeq(ptMap) \in Seq(ptMap) /\ ToSet(SetToSeq(ptMap)) = ptMap
  BY <1>2, SetAsSequence
<1>5. SetToSeq(ptMapPub) \in Seq(ptMapPub) /\ ToSet(SetToSeq(ptMapPub)) = ptMapPub
  BY <1>3, SetAsSequence
<1> QED
  BY <1>2, <1>3, <1>4, <1>5 DEF PublishedPoints

\* What MakePoints puts in the array.
LEMMA MadeTyped ==
    ASSUME ValuesTyped, PointsTyped, MakePoints
    PROVE  /\ AllPoints' \in Seq(Points)
           /\ ~first => ToSet(AllPoints') = (IF pollStatus THEN ptMap ELSE ToSet(AllPoints))
                                            \union ptMapPub
<1>1. CASE first
  BY <1>1 DEF MakePoints, PointsTyped
<1>2. CASE ~first
  <2> DEFINE polled == IF pollStatus THEN SetToSeq(ptMap) ELSE <<>>
  <2>1. AllPoints' = EarlierPoints \o polled \o PublishedPoints
    BY <1>2 DEF MakePoints
  <2>2. PICK made : made = (IF pollStatus THEN SetToSeq(ptMap) ELSE AllPoints)
    OBVIOUS
  <2>3. made \in Seq(Points) /\ EarlierPoints \o polled = made
    <3>1. \A points \in Seq(Points) : <<>> \o points = points /\ points \o <<>> = points
      OBVIOUS
    <3> QED
      BY <2>2, <3>1, MapsTyped DEF EarlierPoints, PointsTyped
  <2>4. ToSet(made) = IF pollStatus THEN ptMap ELSE ToSet(AllPoints)
    BY <2>2, MapsTyped
  <2>5. AllPoints' = made \o PublishedPoints /\ PublishedPoints \in Seq(Points)
    BY <2>1, <2>3, MapsTyped
  <2>6. ToSet(made \o PublishedPoints) = ToSet(made) \union ToSet(PublishedPoints)
    BY <2>3, <2>5, ConcatSet
  <2> QED
    BY <1>2, <2>3, <2>4, <2>5, <2>6, MapsTyped
<1> QED
  BY <1>1, <1>2

LEMMA ControlStep ==
    ASSUME ControlTyped, ValuesTyped, CountsTyped, [Next]_vars PROVE ControlTyped'
<1> USE DEF ControlTyped, local, env, PCs
<1>1. CASE Startup
  BY <1>1 DEF Startup, End
<1>2. CASE ReadPublications
  BY <1>2 DEF ReadPublications, End
<1>3. CASE PollQueues
  <2>1. err' \in BOOLEAN
    BY <1>3, StatusTyped DEF PollQueues, CountsTyped
  <2> QED
    BY <1>3, <2>1 DEF PollQueues
<1>4. CASE PollChannels
  <2>1. err' \in BOOLEAN
    BY <1>4, StatusTyped DEF PollChannels, CountsTyped
  <2> QED
    BY <1>4, <2>1 DEF PollChannels
<1>5. CASE SkipPoll \/ PrintReport \/ EndCollect
  BY <1>5 DEF SkipPoll, PrintReport, EndCollect
<1>6. CASE HandleStatus
  BY <1>6 DEF HandleStatus, End
<1>7. CASE MakePoints
  BY <1>7 DEF MakePoints
<1>8. CASE Sleep
  BY <1>8 DEF Sleep
<1>9. CASE ConnectionBreaks
  BY <1>9 DEF ConnectionBreaks
<1>10. CASE UNCHANGED vars
  BY <1>10 DEF vars
<1> QED
  BY <1>1, <1>2, <1>3, <1>4, <1>5, <1>6, <1>7, <1>8, <1>9, <1>10
     DEF Next, MainStep, ProcessGone

LEMMA CountsStep ==
    ASSUME CountsTyped, BelowLimit, ControlTyped, ValuesTyped, [Next]_vars
    PROVE  CountsTyped' /\ BelowLimit'
<1> USE DEF CountsTyped, BelowLimit, Gone, maxStatusCollectionErrors
<1>1. CASE Startup
  BY <1>1, FaultsTyped DEF Startup, End, ControlTyped
<1>2. CASE ReadPublications
  BY <1>2, FaultsTyped DEF ReadPublications, End, ControlTyped
<1>3. CASE PollQueues
  <2>1. faults' \in 0 .. MaxFaults
    BY <1>3, StatusTyped DEF PollQueues, ControlTyped
  <2> QED
    BY <1>3, <2>1 DEF PollQueues
<1>4. CASE PollChannels
  <2>1. faults' \in 0 .. MaxFaults
    BY <1>4, StatusTyped, FaultsTyped DEF PollChannels, ControlTyped
  <2> QED
    BY <1>4, <2>1 DEF PollChannels
<1>5. CASE SkipPoll \/ MakePoints \/ PrintReport \/ EndCollect \/ Sleep
  BY <1>5 DEF SkipPoll, MakePoints, PrintReport, EndCollect, Sleep, env
<1>6. CASE HandleStatus
  BY <1>6 DEF HandleStatus, End, env, TooMany, CountAfterSuccess
<1>7. CASE ConnectionBreaks
  BY <1>7 DEF ConnectionBreaks
<1>8. CASE UNCHANGED vars
  BY <1>8 DEF vars, env
<1> QED
  BY <1>1, <1>2, <1>3, <1>4, <1>5, <1>6, <1>7, <1>8 DEF Next, MainStep, ProcessGone

LEMMA ValuesStep ==
    ASSUME ValuesTyped, ControlTyped, CountsTyped, [Next]_vars PROVE ValuesTyped'
<1>1. CASE ReadPublications
  BY <1>1 DEF ReadPublications, ValuesTyped
<1>2. CASE PollQueues
  BY <1>2, StatusTyped DEF PollQueues, ControlTyped, CountsTyped, ValuesTyped
<1>3. CASE PollChannels
  BY <1>3, StatusTyped DEF PollChannels, ControlTyped, CountsTyped, ValuesTyped
<1>4. CASE UNCHANGED <<published, statusOf>>
  BY <1>4 DEF ValuesTyped
<1> QED
  BY <1>1, <1>2, <1>3, <1>4 DEF Next, MainStep, ProcessGone, Startup, SkipPoll, HandleStatus,
     MakePoints, PrintReport, EndCollect, Sleep, ConnectionBreaks, vars

LEMMA PointsStep ==
    ASSUME PointsTyped, ValuesTyped, [Next]_vars PROVE PointsTyped'
<1>1. CASE ReadPublications
  <2>1. AllPoints' = Aged(AllPoints) /\ printed' = <<>>
    BY <1>1 DEF ReadPublications
  <2>2. PICK n \in Nat : AllPoints \in [1 .. n -> Points]
    BY DEF PointsTyped
  <2>3. \A p \in Points : [p EXCEPT !.fresh = FALSE] \in Points
    BY DEF Points
  <2>4. Aged(AllPoints) \in [1 .. n -> Points]
    BY <2>2, <2>3 DEF Aged
  <2>5. Aged(AllPoints) \in Seq(Points)
    BY <2>4
  <2> QED
    BY <2>1, <2>5 DEF PointsTyped
<1>2. CASE MakePoints
  BY <1>2, MadeTyped DEF MakePoints, PointsTyped
<1>3. CASE PrintReport
  BY <1>3, Chunked, RecordAssumption DEF PrintReport, PointsTyped
<1>4. CASE UNCHANGED <<AllPoints, printed>>
  BY <1>4 DEF PointsTyped
<1> QED
  BY <1>1, <1>2, <1>3, <1>4 DEF Next, MainStep, ProcessGone, Startup, PollQueues, PollChannels,
     SkipPoll, HandleStatus, EndCollect, Sleep, ConnectionBreaks, vars, output

LEMMA TypeInit == Init => TypeInv
<1> SUFFICES ASSUME Init PROVE TypeInv
  OBVIOUS
<1> USE BoundAssumption DEF Init
<1>1. ControlTyped
  BY DEF ControlTyped, PCs
<1>2. CountsTyped /\ BelowLimit
  BY DEF CountsTyped, BelowLimit, maxStatusCollectionErrors
<1>3. ValuesTyped /\ PointsTyped
  BY DEF ValuesTyped, PointsTyped
<1> QED
  BY <1>1, <1>2, <1>3 DEF TypeInv, TypeOK

LEMMA TypeStep == TypeInv /\ [Next]_vars => TypeInv'
BY ControlStep, CountsStep, ValuesStep, PointsStep DEF TypeInv, TypeOK

\* Every variable of mq_json stays in its type; in particular reports are
\* sequences of blocks of points, and the count of failed polls stays within one
\* of its limit, at which the process ends.
THEOREM TypeOKTheorem == Spec => []TypeOK
<1>1. TypeInv => TypeOK
  BY DEF TypeInv
<1> QED
  BY <1>1, TypeInit, TypeStep, PTL DEF Spec

-----------------------------------------------------------------------------
\* How the two counts of failed polls are related: that of pkg/errors, which is
\* also reset by cycles without a poll, is never ahead.
PollErrors ==
    /\ pc = "poll" => ~err
    /\ pc = "status" => pollStatus
    /\ pc = "handle" => (err => pollStatus)
CauseInv == TypeInv /\ PollErrors /\ (~Gone => statusErrors <= badPolls)

LEMMA CauseStep == ASSUME CauseInv, [Next]_vars PROVE CauseInv'
<1>1. TypeInv'
  BY TypeStep DEF CauseInv
<1>2. PollErrors'
  <2> USE DEF PollErrors, CauseInv, local
  <2>1. CASE ReadPublications
    BY <2>1 DEF ReadPublications, End
  <2>2. CASE PollQueues
    BY <2>2 DEF PollQueues
  <2>3. CASE PollChannels
    BY <2>3 DEF PollChannels
  <2>4. CASE SkipPoll
    BY <2>4 DEF SkipPoll
  <2>5. CASE pc' \notin {"poll", "status", "handle"}
    BY <2>5
  <2>6. CASE UNCHANGED <<pc, local>>
    BY <2>6
  <2> QED
    BY <2>1, <2>2, <2>3, <2>4, <2>5, <2>6 DEF Next, MainStep, ProcessGone, Startup, HandleStatus,
       MakePoints, PrintReport, EndCollect, Sleep, ConnectionBreaks, End, vars
<1>3. ~Gone' => statusErrors' <= badPolls'
  <2> USE DEF CauseInv, TypeInv, TypeOK, CountsTyped, BelowLimit, Gone,
              maxStatusCollectionErrors
  <2>1. CASE HandleStatus
    <3>1. CASE err
      BY <2>1, <3>1 DEF HandleStatus, End, PollErrors
    <3>2. CASE ~err
      BY <2>1, <3>2 DEF HandleStatus, End, CountAfterSuccess
    <3> QED
      BY <3>1, <3>2
  <2>2. CASE UNCHANGED <<statusErrors, badPolls>> /\ (pc = "gone" => pc' = "gone")
    BY <2>2
  <2> QED
    BY <2>1, <2>2 DEF Next, MainStep, ProcessGone, Startup, ReadPublications, PollQueues,
       PollChannels, SkipPoll, MakePoints, PrintReport, EndCollect, Sleep, ConnectionBreaks, vars
<1> QED
  BY <1>1, <1>2, <1>3 DEF CauseInv

\* Nothing but more than maxStatusCollectionErrors failed polls in a row ends the
\* program at HandleStatus, however many cycles without a poll are in between.
THEOREM EndsForCauseTheorem == Spec => EndsForCause
<1>1. Init => CauseInv
  BY TypeInit DEF Init, CauseInv, PollErrors, Gone
<1>2. CauseInv /\ [Next]_vars => CauseInv'
  BY CauseStep
<1>3. CauseInv /\ [Next]_vars =>
          [pc = "handle" /\ pc' = "gone" => badPolls' > maxStatusCollectionErrors]_vars
  <2> SUFFICES ASSUME CauseInv, Next, pc = "handle", pc' = "gone"
               PROVE  badPolls' > maxStatusCollectionErrors
    OBVIOUS
  <2>1. HandleStatus
    BY DEF Next, MainStep, ProcessGone, Gone, Startup, ReadPublications, PollQueues,
       PollChannels, SkipPoll, MakePoints, PrintReport, EndCollect, Sleep, ConnectionBreaks
  <2>2. statusErrors' > maxStatusCollectionErrors
    BY <2>1 DEF HandleStatus, TooMany
  <2>3. err
    BY <2>1, <2>2 DEF HandleStatus, CountAfterSuccess, maxStatusCollectionErrors
  <2> QED
    BY <2>1, <2>2, <2>3 DEF HandleStatus, CauseInv, PollErrors, TypeInv, TypeOK, CountsTyped,
       BelowLimit, Gone, maxStatusCollectionErrors
<1> QED
  BY <1>1, <1>2, <1>3, PTL DEF Spec, EndsForCause

-----------------------------------------------------------------------------
\* What a report has from the moment its points are made: every value of the
\* cycle, and in a polled report no publication but those of the cycle.
HasEverything(points) ==
    /\ \A q \in published : \E p \in points : p.obj = q /\ "published" \in p.holds
    /\ \A o \in Objects : pollStatus /\ statusOf[o] = "fresh" =>
          \E p \in points : p.obj = o /\ "status" \in p.holds /\ p.fresh
IsOwn(points) ==
    pollStatus => \A p \in points : "published" \in p.holds => p.obj \in published
Blocked ==
    /\ Reported = ToSet(AllPoints)
    /\ recordmax > 0 => \A block \in ToSet(printed) : Len(block) \in 1 .. recordmax
ReportInv ==
    /\ TypeInv
    /\ pc \in {"print", "printed"} => HasEverything(ToSet(AllPoints)) /\ IsOwn(ToSet(AllPoints))
    /\ pc = "printed" => Blocked

\* The points that MakePoints makes are such.
LEMMA PointsMade ==
    ASSUME TypeInv, MakePoints, ~first
    PROVE  HasEverything(ToSet(AllPoints))' /\ IsOwn(ToSet(AllPoints))'
<1> DEFINE made == ToSet(AllPoints')
<1>1. made = (IF pollStatus THEN ptMap ELSE ToSet(AllPoints)) \union ptMapPub
  BY MadeTyped DEF TypeInv, TypeOK
<1>2. UNCHANGED <<published, statusOf, pollStatus>>
  BY DEF MakePoints
<1> HIDE DEF made
<1>3. \A q \in published : \E p \in made : p.obj = q /\ "published" \in p.holds
  <2> TAKE q \in published
  <2>1. Point(q) \in made
    BY <1>1 DEF ptMapPub
  <2>2. Point(q).obj = q /\ "published" \in Point(q).holds
    BY DEF Point
  <2> QED
    BY <2>1, <2>2
<1>4. ASSUME NEW o \in Objects, pollStatus, statusOf[o] = "fresh"
      PROVE  \E p \in made : p.obj = o /\ "status" \in p.holds /\ p.fresh
  <2>1. Point(o) \in made
    BY <1>1, <1>4 DEF ptMap
  <2>2. Point(o).obj = o /\ "status" \in Point(o).holds /\ Point(o).fresh
    BY <1>4 DEF Point
  <2> QED
    BY <2>1, <2>2
<1>5. ASSUME pollStatus, NEW p \in made, "published" \in p.holds PROVE p.obj \in published
  <2>1. PICK o : p = Point(o)
    BY <1>1, <1>5 DEF ptMap, ptMapPub
  <2>2. p.obj = o /\ ("published" \in p.holds => o \in published)
    BY <2>1 DEF Point
  <2> QED
    BY <1>5, <2>2
<1> QED
  BY <1>2, <1>3, <1>4, <1>5 DEF HasEverything, IsOwn, made

LEMMA ReportStep == ASSUME ReportInv, [Next]_vars PROVE ReportInv'
<1>1. TypeInv'
  BY TypeStep DEF ReportInv
<1>2. CASE MakePoints
  <2>1. CASE first
    BY <1>1, <1>2, <2>1 DEF MakePoints, ReportInv
  <2>2. CASE ~first
    <3>1. pc' = "print"
      BY <1>2, <2>2 DEF MakePoints
    <3>2. HasEverything(ToSet(AllPoints))' /\ IsOwn(ToSet(AllPoints))'
      BY <1>2, <2>2, PointsMade DEF ReportInv
    <3> QED
      BY <1>1, <3>1, <3>2 DEF ReportInv
  <2> QED
    BY <2>1, <2>2
<1>3. CASE PrintReport
  <2>1. /\ UNCHANGED <<AllPoints, published, statusOf, pollStatus>> /\ pc = "print"
        /\ printed' = chunk(AllPoints, recordmax)
    BY <1>3 DEF PrintReport, local
  <2>2. Blocked'
    BY <2>1, Chunked, RecordAssumption
       DEF Blocked, Reported, ReportInv, TypeInv, TypeOK, PointsTyped
  <2> QED
    BY <1>1, <2>1, <2>2 DEF ReportInv, HasEverything, IsOwn
<1>4. CASE pc' \notin {"print", "printed"}
  BY <1>1, <1>4 DEF ReportInv
<1>5. CASE UNCHANGED <<pc, published, statusOf, pollStatus, AllPoints, printed>>
  BY <1>1, <1>5 DEF ReportInv, HasEverything, IsOwn, Blocked, Reported
<1> QED
  BY <1>2, <1>3, <1>4, <1>5 DEF Next, MainStep, ProcessGone, Startup, ReadPublications, PollQueues,
     PollChannels, SkipPoll, HandleStatus, EndCollect, Sleep, ConnectionBreaks, End, vars, local,
     output

LEMMA ReportAlways == Spec => []ReportInv
<1>1. Init => ReportInv
  BY TypeInit DEF Init, ReportInv
<1>2. ReportInv /\ [Next]_vars => ReportInv'
  BY ReportStep
<1> QED
  BY <1>1, <1>2, PTL DEF Spec

\* A report has everything that was read in its cycle, in blocks no longer than
\* recordmax, for every number of objects and every recordmax.
THEOREM ReportsEverythingTheorem == Spec => []ReportsEverything
<1>1. ReportInv => ReportsEverything
  BY DEF ReportInv, ReportsEverything, HasEverything, Blocked
<1> QED
  BY <1>1, ReportAlways, PTL

\* A report of a cycle that polled has no publication of an earlier cycle.
THEOREM PolledReportTheorem == Spec => []PolledReportIsOwn
<1>1. ReportInv => PolledReportIsOwn
  BY DEF ReportInv, PolledReportIsOwn, IsOwn, Blocked
<1> QED
  BY <1>1, ReportAlways, PTL

-----------------------------------------------------------------------------
\* Once its status was collected, an object has no value of an earlier interval,
\* unless an error was noted; nor have the points that are made of the values.
NoneStale(objects) == \A o \in objects : statusOf[o] # "stale"
FreshInv ==
    /\ pc = "status" => NoneStale(Queues)
    /\ pc \in {"handle", "points"} /\ pollStatus /\ ~err => NoneStale(Objects)
    /\ pc \in {"print", "printed"} /\ pollStatus /\ ~err =>
          \A p \in ToSet(AllPoints) : p.fresh

\* Collecting the status of some objects leaves them no value of an earlier
\* interval, and gives no other object one.
LEMMA CollectedFresh ==
    ASSUME ValuesTyped, NEW objects \in SUBSET Objects, NEW missing,
           statusOf' = Collected(objects, missing)
    PROVE  /\ NoneStale(objects)'
           /\ \A o \in Objects : statusOf[o] # "stale" => statusOf'[o] # "stale"
BY DEF Collected, NoneStale, ValuesTyped

LEMMA FreshStep == ASSUME TypeInv, FreshInv, [Next]_vars PROVE FreshInv'
<1> USE DEF local, output
<1>0. Queues \subseteq Objects /\ Channels \subseteq Objects /\ Objects = Queues \union Channels
  BY DEF Objects
<1>1. CASE PollQueues
  <2>1. pc' = "status"
    BY <1>1 DEF PollQueues
  <2>2. PICK missing : statusOf' = Collected(Queues, missing)
    BY <1>1 DEF PollQueues, CollectStatus, EarlierPatternFails
  <2>3. NoneStale(Queues)'
    BY <1>0, <2>2, CollectedFresh DEF TypeInv, TypeOK
  <2> QED
    BY <2>1, <2>3 DEF FreshInv
<1>2. CASE PollChannels
  <2>1. pc' = "handle" /\ NoneStale(Queues)
    BY <1>2 DEF PollChannels, FreshInv
  <2>2. CASE err'
    BY <2>1, <2>2 DEF FreshInv
  <2>3. CASE ~err'
    <3>1. PICK missing : statusOf' = Collected(Channels, missing)
      BY <1>2, <2>3 DEF PollChannels, CollectStatus, EarlierPatternFails
    <3>2. NoneStale(Objects)'
      BY <1>0, <2>1, <3>1, CollectedFresh DEF TypeInv, TypeOK, NoneStale
    <3> QED
      BY <2>1, <3>2 DEF FreshInv
  <2> QED
    BY <2>2, <2>3
<1>3. CASE SkipPoll
  BY <1>3 DEF SkipPoll, FreshInv
<1>4. CASE HandleStatus
  BY <1>4 DEF HandleStatus, End, FreshInv, NoneStale
<1>5. CASE MakePoints
  <2>1. CASE first
    BY <1>5, <2>1 DEF MakePoints, FreshInv
  <2>2. CASE ~first
    <3>1. pc' = "print" /\ UNCHANGED <<pollStatus, err>>
      BY <1>5, <2>2 DEF MakePoints
    <3>2. ASSUME pollStatus, ~err PROVE \A p \in ToSet(AllPoints') : p.fresh
      <4>1. ToSet(AllPoints') = ptMap \union ptMapPub
        BY <1>5, <2>2, <3>2, MadeTyped DEF TypeInv, TypeOK
      <4>2. \A o \in Objects : Point(o).fresh
        BY <1>5, <3>2 DEF MakePoints, FreshInv, NoneStale, Point
      <4>3. published \subseteq Objects
        BY <1>0 DEF TypeInv, TypeOK, ValuesTyped
      <4> QED
        BY <4>1, <4>2, <4>3 DEF ptMap, ptMapPub
    <3> QED
      BY <3>1, <3>2 DEF FreshInv
  <2> QED
    BY <2>1, <2>2
<1>6. CASE PrintReport
  BY <1>6 DEF PrintReport, FreshInv
<1>7. CASE pc' \notin {"status", "handle", "points", "print", "printed"}
  BY <1>7 DEF FreshInv
<1>8. CASE UNCHANGED <<pc, pollStatus, err, statusOf, AllPoints>>
  BY <1>8 DEF FreshInv, NoneStale
<1> QED
  BY <1>1, <1>2, <1>3, <1>4, <1>5, <1>6, <1>7, <1>8 DEF Next, MainStep, ProcessGone, Startup,
     ReadPublications, EndCollect, Sleep, ConnectionBreaks, End, vars

\* "the number of messages across it at each interval" (README of mq_json): a
\* report after a poll without an error has nothing of an earlier interval,
\* for any sets of objects and whatever polls failed before.
THEOREM FreshAfterGoodPollTheorem == Spec => []FreshAfterGoodPoll
<1>1. Init => FreshInv
  BY DEF Init, FreshInv
<1>2. TypeInv /\ FreshInv /\ [Next]_vars => FreshInv'
  BY FreshStep
<1>3. FreshInv => FreshAfterGoodPoll
  BY DEF FreshInv, FreshAfterGoodPoll, OnlyThisInterval
<1> QED
  BY <1>1, <1>2, <1>3, TypeInit, TypeStep, PTL DEF Spec
=============================================================================
