--------------------------- MODULE DatabaseProofs ---------------------------
(***************************************************************************)
(* Proofs about what becomes of an action by its results, and what they    *)
(* make of later batches (Results), for any peaks, limits and number of    *)
(* batches; about submitted texts and the priorities of their actions      *)
(* (Submission), for any keys and edges; and about the locks of the        *)
(* transactions (Transactions), for any batch and number of connections.   *)
(***************************************************************************)
EXTENDS MCDatabase, FiniteSetTheorems, WellFoundedInduction, TLAPS

\* The inductive invariant: a theory that took the standard tier's memory has a hint
\* that says so.
HintsInv ==
    /\ hint \in [mb : Nat \cup {None}, age : Nat] /\ batches \in Nat
    /\ moved \in BOOLEAN
    /\ moved => hint.mb # None /\ hint.mb >= StandardMb

\* A record that is taken reports a peak, or none.
LEMMA PeakIsNumber ==
    ASSUME NEW fetch \in Reported!Fetches, NEW found \in Reported!Records,
           Reported!ParseResult(Reported!Reported(fetch, found))
    PROVE  Reported!Reported(fetch, found).peak \in Peaks \cup {None}
<1>1. \A s, f : Reported!Record(s, f).peak = None
  BY DEF Reported!Record
<1>2. \A f : Reported!FailedRecord(f).peak = None
  BY DEF Reported!FailedRecord, Reported!Record
<1>3. found.peak \in Peaks \cup {None, BadNumber}
  BY <1>1 DEF Reported!Records, Reported!NoRecord, Reported!Record
<1>4. QED
  BY <1>2, <1>3 DEF Reported!Reported, Reported!ParseResult

\* _record_peak keeps the highest peak: a hint never falls.
LEMMA RecordPeakFacts ==
    ASSUME Reported!Parameters, HintsInv, NEW mb \in Nat, Reported!RecordPeak(mb)
    PROVE  /\ hint' \in [mb : Nat \cup {None}, age : Nat]
           /\ hint'.mb # None /\ hint'.mb >= mb
           /\ hint.mb # None => hint'.mb >= hint.mb
BY DEF Reported!Parameters, HintsInv, Reported!RecordPeak

\* A result is reported, whatever becomes of the action.
LEMMA ResultInv ==
    ASSUME Reported!Parameters, HintsInv,
           NEW fetch \in Reported!Fetches, NEW found \in Reported!Records,
           Reported!Result(fetch, found)
    PROVE  HintsInv' /\ batches' = batches
<1>1. CASE Reported!Refused(fetch, found) \/ Reported!NotStarted(fetch, found)
             \/ Reported!FailsAgain(fetch, found)
  BY <1>1 DEF Reported!Refused, Reported!NotStarted, Reported!FailsAgain, Reported!Ends, HintsInv
<1>2. CASE Reported!MovesUp(fetch, found)
  <2>1. /\ Reported!RecordPeak(StandardMb) /\ StandardMb \in Nat
        /\ moved' = TRUE /\ batches' = batches
    BY <1>2 DEF Reported!MovesUp, Reported!Ends, Reported!Parameters
  <2>2. QED
    BY <2>1, RecordPeakFacts DEF HintsInv
<1>3. CASE Reported!Succeeds(fetch, found)
  <2>1. PICK r \in {Reported!Reported(fetch, found)} :
          /\ Reported!ParseResult(r) /\ batches' = batches
          /\ IF r.peak = None THEN UNCHANGED hint ELSE Reported!RecordPeak(r.peak)
          /\ moved' = (moved \/ (r.peak # None /\ r.peak >= StandardMb))
    BY <1>3 DEF Reported!Succeeds, Reported!Takes, Reported!Ends
  <2>2. r.peak \in Nat \cup {None}
    BY <2>1, PeakIsNumber DEF Reported!Parameters
  <2>3. CASE r.peak = None
    BY <2>1, <2>3 DEF HintsInv
  <2>4. CASE r.peak # None
    <3>1. r.peak \in Nat /\ StandardMb \in Nat
      BY <2>2, <2>4 DEF Reported!Parameters
    <3>2. /\ hint' \in [mb : Nat \cup {None}, age : Nat]
          /\ hint'.mb # None /\ hint'.mb >= r.peak
          /\ hint.mb # None => hint'.mb >= hint.mb
      BY <2>1, <2>4, <3>1, RecordPeakFacts
    <3>3. QED
      BY <2>1, <3>1, <3>2 DEF HintsInv
  <2>5. QED
    BY <2>3, <2>4
<1>4. QED
  BY <1>1, <1>2, <1>3 DEF Reported!Result

\* Only a new batch counts one, and none of the steps forgets the memory a theory took
\* short of its hint's expiry.
LEMMA HintsNext ==
    ASSUME Reported!Parameters, HintsInv, [Reported!Next]_(Reported!vars)
    PROVE  HintsInv' /\ (Reported!Submit \/ batches' = batches)
<1>1. CASE Reported!Submit
  BY <1>1 DEF Reported!Submit, HintsInv
<1>2. CASE Reported!Tick
  <2>1. hint.age \in Nat /\ Ttl \in Nat /\ batches' = batches
    BY <1>2 DEF Reported!Tick, HintsInv, Reported!Parameters
  <2>2. CASE hint.age = Ttl
    <3>1. hint' = [mb |-> None, age |-> 0] /\ moved' = (moved /\ hint.age < Ttl)
      BY <1>2, <2>2 DEF Reported!Tick
    <3>2. ~(hint.age < Ttl)
      BY <2>1, <2>2
    <3>3. moved' = FALSE
      BY <3>1, <3>2, Zenon
    <3>4. QED
      BY <2>1, <3>1, <3>3 DEF HintsInv
  <2>3. CASE hint.age # Ttl
    <3>1. hint' = [hint EXCEPT !.age = hint.age + 1] /\ (moved' => moved)
      BY <1>2, <2>3 DEF Reported!Tick
    <3>2. moved' \in BOOLEAN
      BY <1>2 DEF Reported!Tick
    <3>3. QED
      BY <2>1, <3>1, <3>2 DEF HintsInv
  <2>4. QED
    BY <2>2, <2>3
<1>3. CASE Reported!Claim \/ Reported!Evicted
  BY <1>3 DEF Reported!Claim, Reported!Evicted, HintsInv
<1>4. CASE Reported!Expires
  BY <1>4 DEF Reported!Expires, Reported!Ends, HintsInv
<1>5. ASSUME NEW fetch \in Reported!Fetches,
             NEW found \in IF fetch = "release" THEN Reported!Records ELSE {Reported!NoRecord},
             Reported!Result(fetch, found)
      PROVE  HintsInv' /\ batches' = batches
  <2>1. found \in Reported!Records
    BY DEF Reported!Records
  <2>2. QED
    BY <1>5, <2>1, ResultInv
<1>6. CASE UNCHANGED Reported!vars
  BY <1>6 DEF Reported!vars, HintsInv
<1>7. QED
  BY <1>1, <1>2, <1>3, <1>4, <1>5, <1>6 DEF Reported!Next

\* A theory that took the standard tier's memory in any build (by complete's 'memory'
\* failure or the peak it reported) is submitted on the high tier as long as its hint
\* lives, whatever the later builds report.
THEOREM TheoriesKeepTheirTier ==
    ASSUME Reported!Parameters PROVE Reported!Spec => MemoryIsRemembered
<1>1. ASSUME Reported!Init PROVE HintsInv
  <2>1. hint \in [mb : Nat \cup {None}, age : Nat] /\ batches \in Nat
    BY <1>1 DEF Reported!Init
  <2>2. moved = FALSE
    BY <1>1 DEF Reported!Init
  <2>3. QED
    BY <2>1, <2>2 DEF HintsInv
<1>2. HintsInv /\ [Reported!Next]_(Reported!vars) => HintsInv'
  BY HintsNext
<1>3. HintsInv /\ [Reported!Next]_(Reported!vars)
        => [batches' > batches /\ moved => tier' = "high"]_(Reported!vars)
  <2> SUFFICES ASSUME HintsInv, [Reported!Next]_(Reported!vars), batches' > batches, moved
               PROVE  tier' = "high"
    OBVIOUS
  <2>1. Reported!Submit
    BY HintsNext DEF HintsInv
  <2>2. QED
    BY <2>1 DEF Reported!Submit, HintsInv
<1>4. QED
  BY <1>1, <1>2, <1>3, PTL DEF Reported!Spec, MemoryIsRemembered, Reported!MemoryIsRemembered

-----------------------------------------------------------------------------
(* Retries.                                                                  *)

\* How attempts end.
Causes == Reported!Failures \cup {"done", "outage", "expired"}

\* The columns keep what the history tells: attempts is the number of claims, outages
\* aside, and last_failure is a full disk if the last result was one.
ColumnsTell ==
    /\ past \in Seq(Causes)
    /\ state \in {"none", "waiting", "running", "abandoned", "done", "failed"}
    /\ tier \in {"standard", "high"}
    /\ attempts = Reported!Claimed(past) + (IF state \in {"running", "abandoned"} THEN 1 ELSE 0)
    /\ lastFailure = "disk" <=> Reported!LastReport(past) = "disk"

\* The cardinalities of a component are those of the theorems about finite sets.
LEMMA ReportedCardinality == \A S : Reported!Cardinality(S) = Cardinality(S)
  BY DEF Reported!Cardinality, Reported!IsFiniteSet, Cardinality, IsFiniteSet

\* Some natural numbers have a least one.
LEMMA HasLeast ==
    ASSUME NEW S \in SUBSET Nat, S # {}
    PROVE  \E x \in S : \A y \in S : ~(y < x)
<1>1. \E x \in S : \A y \in S : ~(<<y, x>> \in OpToRel(<, Nat))
  BY NatLessThanWellFounded, WFMin, Zenon
<1>2. ASSUME NEW x \in Nat, NEW y \in Nat, y < x PROVE <<y, x>> \in OpToRel(<, Nat)
  BY <1>2 DEF OpToRel
<1>3. QED
  BY <1>1, <1>2, Zenon

\* Among the first n numbers, some have a greatest one.
LEMMA HasGreatest ==
    ASSUME NEW n \in Nat, NEW S \in SUBSET (1..n), S # {}
    PROVE  \E i \in S : \A j \in S : j <= i
<1> DEFINE D == {n - i : i \in S}
<1>1. D \subseteq Nat /\ D # {}
  <2>1. \A i \in S : n - i \in Nat /\ n - i \in D
    OBVIOUS
  <2>2. QED
    BY <2>1
<1>2. PICK x \in D : \A y \in D : ~(y < x)
  <2> HIDE DEF D
  <2>1. QED
    BY <1>1, HasLeast
<1>3. PICK i \in S : x = n - i
  OBVIOUS
<1>4. ASSUME NEW j \in S PROVE j <= i
  <2>1. n - j \in D
    OBVIOUS
  <2>2. ~(n - j < n - i)
    BY <1>2, <1>3, <2>1
  <2>3. QED
    BY <2>2
<1>5. QED
  BY <1>4

\* What one more end of an attempt changes.
LEMMA OneEndMore ==
    ASSUME NEW h \in Seq(Causes), NEW c \in Causes
    PROVE  /\ Append(h, c) \in Seq(Causes) /\ Len(Append(h, c)) = Len(h) + 1
           /\ Reported!Last(Append(h, c)) = c /\ Reported!Front(Append(h, c)) = h
           /\ Reported!Claimed(h) \in Nat
           /\ Reported!Claimed(Append(h, c)) = Reported!Claimed(h) + (IF c = "outage" THEN 0 ELSE 1)
           /\ Reported!LastReport(Append(h, c)) =
                IF c = "expired" THEN Reported!LastReport(h) ELSE c
<1> DEFINE k == Append(h, c)
           n == Len(h)
<1>1. /\ k \in Seq(Causes) /\ Len(k) = n + 1 /\ n \in Nat
      /\ k[n + 1] = c /\ \A i \in 1..n : k[i] = h[i]
  OBVIOUS
<1>2. Reported!Last(k) = c
  BY <1>1 DEF Reported!Last
<1>3. Reported!Front(k) = h
  <2>1. Reported!Front(k) = SubSeq(k, 1, n)
    BY <1>1 DEF Reported!Front
  <2>2. SubSeq(k, 1, n) \in Seq(Causes) /\ Len(SubSeq(k, 1, n)) = n
    BY <1>1
  <2>3. \A i \in 1..n : SubSeq(k, 1, n)[i] = h[i]
    BY <1>1
  <2> HIDE DEF k
  <2>4. QED
    BY <1>1, <2>1, <2>2, <2>3
<1> HIDE DEF k, n
<1>4. /\ Reported!Claimed(h) \in Nat
      /\ Reported!Claimed(k) = Reported!Claimed(h) + (IF c = "outage" THEN 0 ELSE 1)
  <2> DEFINE S == {i \in 1..n : h[i] # "outage"}
             T == {i \in 1..(n + 1) : k[i] # "outage"}
  <2>1. IsFiniteSet(S)
    BY <1>1, FS_Interval, FS_Subset
  <2>2. Reported!Claimed(h) = Cardinality(S) /\ Reported!Claimed(k) = Cardinality(T)
    <3>1. Reported!Claimed(h) = Cardinality(S)
      BY ReportedCardinality DEF Reported!Claimed, n
    <3>2. Reported!Claimed(k) = Cardinality(T)
      BY <1>1, ReportedCardinality DEF Reported!Claimed
    <3>3. QED
      BY <3>1, <3>2
  <2>3. T = IF c = "outage" THEN S ELSE S \cup {n + 1}
    BY <1>1
  <2>4. n + 1 \notin S
    BY <1>1
  <2> HIDE DEF S, T
  <2>5. Cardinality(S) \in Nat /\ Cardinality(S \cup {n + 1}) = Cardinality(S) + 1
    BY <2>1, <2>4, FS_CardinalityType, FS_AddElement
  <2>6. QED
    BY <2>2, <2>3, <2>5
<1>5. Reported!LastReport(k) = IF c = "expired" THEN Reported!LastReport(h) ELSE c
  <2> DEFINE S == {i \in 1..n : h[i] # "expired"}
             T == {i \in 1..(n + 1) : k[i] # "expired"}
             Greatest(X) == CHOOSE i \in X : \A j \in X : j <= i
  <2>1. /\ Reported!LastReport(h) = IF S = {} THEN "none" ELSE h[Greatest(S)]
        /\ Reported!LastReport(k) = IF T = {} THEN "none" ELSE k[Greatest(T)]
    <3>1. Reported!LastReport(h) = IF S = {} THEN "none" ELSE h[Greatest(S)]
      BY DEF Reported!LastReport, n
    <3>2. Reported!LastReport(k) = IF T = {} THEN "none" ELSE k[Greatest(T)]
      BY <1>1 DEF Reported!LastReport
    <3>3. QED
      BY <3>1, <3>2
  <2>2. CASE c = "expired"
    <3>1. T = S
      BY <1>1, <2>2
    <3>2. S # {} => Greatest(S) \in S
      <4>1. SUFFICES ASSUME S # {} PROVE Greatest(S) \in S
        OBVIOUS
      <4>2. \E i \in S : \A j \in S : j <= i
        BY <1>1, <4>1, HasGreatest
      <4>3. QED
        BY <4>2
    <3>3. \A i \in S : k[i] = h[i]
      BY <1>1
    <3> HIDE DEF S, T, Greatest
    <3>4. QED
      BY <2>1, <2>2, <3>1, <3>2, <3>3
  <2>3. CASE c # "expired"
    <3>1. n + 1 \in T /\ \A j \in T : j <= n + 1
      BY <1>1, <2>3
    <3>2. Greatest(T) = n + 1
      <4>1. T \subseteq Nat
        BY <1>1
      <4> HIDE DEF T
      <4>2. \A i \in T : (\A j \in T : j <= i) <=> i = n + 1
        BY <1>1, <3>1, <4>1
      <4>3. QED
        BY <3>1, <4>2
    <3> HIDE DEF S, T, Greatest
    <3>3. QED
      BY <1>1, <2>1, <2>3, <3>1, <3>2
  <2>4. QED
    BY <2>2, <2>3
<1>6. QED
  BY <1>1, <1>2, <1>3, <1>4, <1>5 DEF k, n

\* What a record that counts can say, and what it says of the cache.
LEMMA ResultFacts ==
    ASSUME NEW fetch \in Reported!Fetches,
           NEW found \in IF fetch = "release" THEN Reported!Records ELSE {Reported!NoRecord},
           NEW r, r = Reported!Reported(fetch, found), Reported!ParseResult(r)
    PROVE  /\ r.failure \in Reported!Failures \cup {"none"}
           /\ r.failure = "none" <=> r.status # "failed"
           /\ r.failure = "unavailable" <=> fetch \in Reported!Outages
           /\ r.failure # "none" => Reported!Cause(fetch, r.failure) =
                IF r.failure = "unavailable" THEN "outage" ELSE r.failure
<1>1. r.failure \in Reported!Failures \cup {"none"} /\ (r.failure = "none" <=> r.status # "failed")
  BY DEF Reported!ParseResult
<1>2. CASE fetch \in Reported!Outages
  <2>1. r = Reported!FailedRecord("unavailable")
    BY <1>2 DEF Reported!Reported, Reported!SpecVersion, Reported!Outages
  <2>2. r.failure = "unavailable"
    BY <2>1 DEF Reported!FailedRecord, Reported!Record
  <2>3. QED
    BY <1>1, <1>2, <2>2 DEF Reported!Cause
<1>3. CASE fetch \notin Reported!Outages
  <2>1. found.failure # "unavailable"
    BY DEF Reported!Records, Reported!NoRecord, Reported!Record
  <2>2. \/ r = found
        \/ r \in {Reported!FailedRecord("internal"), Reported!FailedRecord("spec-rejected")}
    BY <1>3 DEF Reported!Reported, Reported!SpecVersion, Reported!Outages, Reported!Fetches
  <2>3. r.failure # "unavailable"
    BY <2>1, <2>2 DEF Reported!FailedRecord, Reported!Record
  <2>4. QED
    BY <1>1, <1>3, <2>3 DEF Reported!Cause
<1>4. QED
  BY <1>2, <1>3

\* What the columns make of a running action's end.
Decided(c) ==
    CASE c = "outage" -> "waiting"
      [] c = "memory" /\ tier = "standard" -> "waiting"
      [] \/ c = "memory" /\ tier # "standard"
         \/ c \in Reported!Retryable \cup {"input-missing", "expired"} ->
            IF attempts < MaxAttempts THEN "waiting" ELSE "failed"
      [] c = "disk" ->
            IF attempts < MaxAttempts /\ lastFailure # "disk" THEN "waiting" ELSE "failed"
      [] c = "done" -> "done"
      [] OTHER -> "failed"

\* What RetriesAsDocumented says of a step.
FollowsTable ==
    Len(past') > Len(past) =>
        /\ state' = Reported!Documented(past', tier = "standard")
        /\ tier' = IF Reported!Last(past') = "memory" THEN "high" ELSE tier

\* An attempt that ends as the columns decide ends as the README's table says.
LEMMA EndFollowsTable ==
    ASSUME ColumnsTell, NEW c \in Causes, state \in {"running", "abandoned"},
           past' = Append(past, c), state' = Decided(c),
           tier' = IF c = "memory" THEN "high" ELSE tier,
           attempts' = IF c = "outage" THEN attempts - 1 ELSE attempts,
           IF c = "expired" THEN lastFailure' = lastFailure
                            ELSE lastFailure' = "disk" <=> c = "disk"
    PROVE  ColumnsTell' /\ FollowsTable
<1>1. /\ Append(past, c) \in Seq(Causes)
      /\ Reported!Last(Append(past, c)) = c /\ Reported!Front(Append(past, c)) = past
      /\ Reported!Claimed(past) \in Nat
      /\ Reported!Claimed(Append(past, c)) =
           Reported!Claimed(past) + (IF c = "outage" THEN 0 ELSE 1)
      /\ Reported!LastReport(Append(past, c)) =
           IF c = "expired" THEN Reported!LastReport(past) ELSE c
  BY OneEndMore DEF ColumnsTell
<1>2. attempts = Reported!Claimed(past) + 1 /\ state' \in {"waiting", "done", "failed"}
  <2>1. attempts = Reported!Claimed(past) + 1
    BY DEF ColumnsTell
  <2>2. Decided(c) \in {"waiting", "done", "failed"}
    BY Zenon DEF Decided
  <2>3. QED
    BY <2>1, <2>2
<1>3. ColumnsTell'
  <2>1. past' \in Seq(Causes) /\ tier' \in {"standard", "high"}
    BY <1>1 DEF ColumnsTell
  <2>2. attempts' = Reported!Claimed(past)' + (IF state' \in {"running", "abandoned"} THEN 1 ELSE 0)
    <3>1. Reported!Claimed(past)' = Reported!Claimed(Append(past, c))
      BY DEF Reported!Claimed
    <3>2. QED
      BY <1>1, <1>2, <3>1
  <2>3. lastFailure' = "disk" <=> Reported!LastReport(past)' = "disk"
    <3>1. Reported!LastReport(past)' = Reported!LastReport(Append(past, c))
      BY DEF Reported!LastReport
    <3>2. QED
      BY <1>1, <3>1 DEF ColumnsTell
  <2>4. QED
    BY <1>2, <2>1, <2>2, <2>3 DEF ColumnsTell
<1>4. Reported!Documented(Append(past, c), tier = "standard") = Decided(c)
  <2>1. PICK n : n = Reported!Claimed(past) + (IF c = "outage" THEN 0 ELSE 1)
    OBVIOUS
  <2>2. c # "outage" => n = attempts
    BY <1>1, <1>2, <2>1
  <2>3. Reported!Claimed(Append(past, c)) = n
    BY <1>1, <2>1
  <2>4. Reported!Documented(Append(past, c), tier = "standard") =
             CASE c = "outage" -> "waiting"
               [] c = "memory" /\ tier = "standard" -> "waiting"
               [] \/ c = "memory" /\ tier # "standard"
                  \/ c \in Reported!Retryable \cup {"input-missing", "expired"} ->
                     IF n < MaxAttempts THEN "waiting" ELSE "failed"
               [] c = "disk" ->
                     IF n < MaxAttempts /\ Reported!LastReport(past) # "disk"
                     THEN "waiting" ELSE "failed"
               [] c = "done" -> "done"
               [] OTHER -> "failed"
    BY <1>1, <2>3, Zenon DEF Reported!Documented
  <2>5. lastFailure = "disk" <=> Reported!LastReport(past) = "disk"
    BY DEF ColumnsTell
  <2>6. c \in Reported!Retryable \cup {"memory", "input-missing", "expired", "disk"} => c # "outage"
    BY DEF Reported!Retryable
  <2>7. QED
    BY <2>2, <2>4, <2>5, <2>6 DEF Decided
<1>5. FollowsTable
  <2>1. /\ state' = Reported!Documented(past', tier = "standard")
        /\ Reported!Last(past') = c
    BY <1>1, <1>4, Zenon
  <2>2. QED
    BY <2>1 DEF FollowsTable
<1>6. QED
  BY <1>3, <1>5

\* A step that leaves the history and the columns alone is none of the table's business.
LEMMA NoEnd ==
    ASSUME ColumnsTell, past' = past, tier' = tier, lastFailure' = lastFailure,
           state' \in {"none", "waiting", "running", "abandoned", "done", "failed"},
           attempts' = Reported!Claimed(past)
                         + (IF state' \in {"running", "abandoned"} THEN 1 ELSE 0)
    PROVE  ColumnsTell' /\ FollowsTable
<1>1. /\ Reported!Claimed(past)' = Reported!Claimed(past)
      /\ Reported!LastReport(past)' = Reported!LastReport(past)
  BY DEF Reported!Claimed, Reported!LastReport
<1>2. ColumnsTell'
  BY <1>1 DEF ColumnsTell
<1>3. FollowsTable
  BY DEF FollowsTable, ColumnsTell
<1>4. QED
  BY <1>2, <1>3

\* A batch that begins has an empty history.
LEMMA EmptyHistory == Reported!Claimed(<<>>) = 0 /\ Reported!LastReport(<<>>) = "none"
<1>1. /\ {i \in 1..Len(<<>>) : <<>>[i] # "outage"} = {}
      /\ {i \in 1..Len(<<>>) : <<>>[i] # "expired"} = {}
  OBVIOUS
<1>2. Reported!Cardinality({}) = 0
  BY ReportedCardinality, FS_EmptySet
<1>3. QED
  BY <1>1, <1>2, Zenon DEF Reported!Claimed, Reported!LastReport

\* A result that counts, by what it says.
LEMMA ResultFollowsTable ==
    ASSUME ColumnsTell, NEW fetch \in Reported!Fetches,
           NEW found \in IF fetch = "release" THEN Reported!Records ELSE {Reported!NoRecord},
           Reported!Result(fetch, found)
    PROVE  ColumnsTell' /\ FollowsTable
<1> DEFINE r == Reported!Reported(fetch, found)
<1>1. CASE Reported!Refused(fetch, found)
  <2>1. state = "running" /\ state' = "abandoned"
        /\ past' = past /\ tier' = tier /\ lastFailure' = lastFailure /\ attempts' = attempts
    BY <1>1 DEF Reported!Refused
  <2>2. QED
    BY <2>1, NoEnd DEF ColumnsTell
<1>2. ASSUME Reported!ParseResult(r)
      PROVE  /\ r.failure \in Reported!Failures \cup {"none"}
             /\ r.failure = "none" <=> r.status # "failed"
             /\ r.failure = "unavailable" <=> fetch \in Reported!Outages
             /\ r.failure # "none" => Reported!Cause(fetch, r.failure) =
                  IF r.failure = "unavailable" THEN "outage" ELSE r.failure
  BY <1>2, ResultFacts
<1>3. CASE Reported!Succeeds(fetch, found)
  <2>1. /\ state = "running" /\ Reported!ParseResult(r) /\ r.status # "failed"
        /\ lastFailure' = r.failure /\ state' = "done" /\ past' = Append(past, "done")
        /\ tier' = tier /\ attempts' = attempts
    BY <1>3 DEF Reported!Succeeds, Reported!Takes, Reported!Ends
  <2>2. r.failure = "none"
    BY <1>2, <2>1
  <2>3. Decided("done") = "done" /\ "done" \in Causes
    BY DEF Decided, Causes, Reported!Retryable
  <2>4. QED
    BY <2>1, <2>2, <2>3, EndFollowsTable
<1>4. CASE Reported!MovesUp(fetch, found)
  <2>1. /\ state = "running" /\ Reported!ParseResult(r) /\ r.failure = "memory" /\ tier = "standard"
        /\ lastFailure' = r.failure /\ state' = "waiting"
        /\ past' = Append(past, Reported!Cause(fetch, "memory"))
        /\ tier' = "high" /\ attempts' = attempts
    BY <1>4 DEF Reported!MovesUp, Reported!Takes, Reported!Ends
  <2>2. Reported!Cause(fetch, "memory") = "memory"
    BY <1>2, <2>1
  <2>3. Decided("memory") = "waiting" /\ "memory" \in Causes
    BY <2>1 DEF Decided, Causes, Reported!Failures, Reported!Retryable
  <2>4. QED
    BY <2>1, <2>2, <2>3, EndFollowsTable
<1>5. CASE Reported!NotStarted(fetch, found)
  <2>1. /\ state = "running" /\ Reported!ParseResult(r) /\ r.failure = "unavailable"
        /\ lastFailure' = r.failure /\ state' = "waiting"
        /\ past' = Append(past, Reported!Cause(fetch, "unavailable"))
        /\ tier' = tier /\ attempts' = attempts - 1
    BY <1>5 DEF Reported!NotStarted, Reported!Takes, Reported!Ends
  <2>2. Reported!Cause(fetch, "unavailable") = "outage"
    BY <1>2, <2>1
  <2>3. Decided("outage") = "waiting" /\ "outage" \in Causes
    BY DEF Decided, Causes, Reported!Retryable
  <2>4. QED
    BY <2>1, <2>2, <2>3, EndFollowsTable
<1>6. CASE Reported!FailsAgain(fetch, found)
  <2> DEFINE f == r.failure
  <2>1. /\ state = "running" /\ Reported!ParseResult(r) /\ r.status = "failed" /\ f # "unavailable"
        /\ f = "memory" => tier = "high"
        /\ lastFailure' = f /\ past' = Append(past, Reported!Cause(fetch, f))
        /\ state' = IF Reported!WorthRetrying(f) THEN "waiting" ELSE "failed"
        /\ tier' = tier /\ attempts' = attempts
    BY <1>6 DEF Reported!FailsAgain, Reported!Takes, Reported!Ends
  <2>2. f \in Reported!Failures \ {"unavailable"} /\ f # "none" /\ Reported!Cause(fetch, f) = f
    BY <1>2, <2>1
  <2>3. f \in Causes /\ f \notin {"outage", "done", "expired"}
    BY <2>2 DEF Causes, Reported!Failures, Reported!Retryable, Reported!Final
  <2> HIDE DEF f
  <2>4. Decided(f) = IF Reported!WorthRetrying(f) THEN "waiting" ELSE "failed"
    <3>1. tier = "high" \/ f # "memory"
      BY <2>1
    <3>2. f = "disk" => f \notin Reported!Retryable \cup {"input-missing", "expired"}
      BY DEF Reported!Retryable
    <3>3. QED
      BY <2>3, <3>1, <3>2 DEF Decided, Reported!WorthRetrying
  <2>5. QED
    BY <2>1, <2>2, <2>3, <2>4, EndFollowsTable
<1>7. QED
  BY <1>1, <1>3, <1>4, <1>5, <1>6 DEF Reported!Result

\* No step loses count of the attempts, and each end of one follows the table.
LEMMA TableNext ==
    ASSUME Reported!Parameters, ColumnsTell, [Reported!Next]_(Reported!vars)
    PROVE  ColumnsTell' /\ FollowsTable
<1>1. CASE Reported!Submit
  <2>1. /\ past' = <<>> /\ attempts' = 0 /\ lastFailure' = "none" /\ state' = "waiting"
        /\ tier' \in {"standard", "high"}
    BY <1>1 DEF Reported!Submit
  <2>2. Reported!Claimed(past)' = 0 /\ Reported!LastReport(past)' = "none"
    <3>1. /\ Reported!Claimed(past)' = Reported!Claimed(<<>>)
          /\ Reported!LastReport(past)' = Reported!LastReport(<<>>)
      BY <2>1 DEF Reported!Claimed, Reported!LastReport
    <3>2. QED
      BY <3>1, EmptyHistory
  <2>3. ColumnsTell'
    BY <2>1, <2>2 DEF ColumnsTell
  <2>4. FollowsTable
    BY <2>1 DEF FollowsTable, ColumnsTell
  <2>5. QED
    BY <2>3, <2>4
<1>2. CASE Reported!Tick \/ UNCHANGED Reported!vars
  <2>1. /\ state' = state /\ past' = past /\ tier' = tier
        /\ lastFailure' = lastFailure /\ attempts' = attempts
    BY <1>2 DEF Reported!Tick, Reported!vars
  <2>2. QED
    BY <2>1, NoEnd DEF ColumnsTell
<1>3. CASE Reported!Claim
  <2>1. /\ state = "waiting" /\ state' = "running" /\ attempts' = attempts + 1
        /\ past' = past /\ tier' = tier /\ lastFailure' = lastFailure
    BY <1>3 DEF Reported!Claim
  <2>2. Reported!Claimed(past) \in Nat
    BY OneEndMore DEF ColumnsTell, Causes
  <2>3. QED
    BY <2>1, <2>2, NoEnd DEF ColumnsTell
<1>4. CASE Reported!Evicted
  <2>1. /\ state = "done" /\ state' \in {"failed", "waiting"} /\ attempts' = attempts
        /\ past' = past /\ tier' = tier /\ lastFailure' = lastFailure
    BY <1>4 DEF Reported!Evicted
  <2>2. QED
    BY <2>1, NoEnd DEF ColumnsTell
<1>5. CASE Reported!Expires
  <2>1. /\ state \in {"running", "abandoned"} /\ past' = Append(past, "expired")
        /\ state' = IF attempts >= MaxAttempts THEN "failed" ELSE "waiting"
        /\ tier' = tier /\ attempts' = attempts /\ lastFailure' = lastFailure
    BY <1>5 DEF Reported!Expires, Reported!Ends
  <2>2. attempts \in Nat /\ MaxAttempts \in Nat
    <3>1. Reported!Claimed(past) \in Nat
      BY OneEndMore DEF ColumnsTell, Causes
    <3>2. QED
      BY <2>1, <3>1 DEF ColumnsTell, Reported!Parameters
  <2>3. Decided("expired") = state' /\ "expired" \in Causes
    BY <2>1, <2>2 DEF Decided, Causes, Reported!Retryable
  <2>4. QED
    BY <2>1, <2>3, EndFollowsTable
<1>6. ASSUME NEW fetch \in Reported!Fetches,
             NEW found \in IF fetch = "release" THEN Reported!Records ELSE {Reported!NoRecord},
             Reported!Result(fetch, found)
      PROVE  ColumnsTell' /\ FollowsTable
  BY <1>6, ResultFollowsTable
<1>7. QED
  BY <1>1, <1>2, <1>3, <1>4, <1>5, <1>6 DEF Reported!Next

\* An action is retried, moved to the high tier or failed by complete and expire_leases
\* exactly as the README's table says, over any sequence of results, lost leases,
\* evictions and cache outages, for any number of attempts allowed.
THEOREM RetriesFollowTheTable ==
    ASSUME Reported!Parameters PROVE Reported!Spec => RetriesAsDocumented
<1>1. ASSUME Reported!Init PROVE ColumnsTell
  <2>1. past = <<>> /\ state = "none" /\ tier = "standard" /\ attempts = 0 /\ lastFailure = "none"
    BY <1>1 DEF Reported!Init
  <2>2. Reported!Claimed(past) = 0 /\ Reported!LastReport(past) = "none"
    BY <2>1, EmptyHistory, Zenon
  <2>3. QED
    BY <2>1, <2>2 DEF ColumnsTell
<1>2. ColumnsTell /\ [Reported!Next]_(Reported!vars) => ColumnsTell'
  BY TableNext
<1>3. ColumnsTell /\ [Reported!Next]_(Reported!vars)
        => [Len(past') > Len(past) =>
              /\ state' = Reported!Documented(past', tier = "standard")
              /\ tier' = IF Reported!Last(past') = "memory" THEN "high" ELSE tier]_(Reported!vars)
  BY TableNext DEF FollowsTable
<1>4. QED
  BY <1>1, <1>2, <1>3, PTL DEF Reported!Spec, RetriesAsDocumented, Reported!RetriesAsDocumented

-----------------------------------------------------------------------------
(* Submitted batches.                                                        *)

\* A walk of n edges of es from an action down to actions that depend on it.
Walk(p, n, es) == p \in [0..n -> Nodes] /\ \A i \in 0..(n - 1) : <<p[i + 1], p[i]>> \in es

\* The actions that end a walk of n edges from k.
Reached(n, k, es) ==
    {x \in Nodes : \E p \in [0..n -> Nodes] : Walk(p, n, es) /\ p[0] = k /\ p[n] = x}

\* b finds the actions below others the way Below does, up to length m.
Unfolds(b, m, es) ==
    b = [n \in 0..m |-> [k \in Nodes |->
            IF n = 0 THEN {k} ELSE UNION {b[n - 1][e[1]] : e \in {e \in es : e[2] = k}}]]

\* Edges between keys, and their ends.
LEMMA EdgeEnds ==
    ASSUME NEW es \in SUBSET (Nodes \X Nodes), NEW e \in es
    PROVE  e = <<e[1], e[2]>> /\ e[1] \in Nodes /\ e[2] \in Nodes
OBVIOUS

\* No edges lead to the key itself.
LEMMA ReachedAtOnce ==
    ASSUME NEW es, NEW k \in Nodes
    PROVE  Reached(0, k, es) = {k}
<1>1. ASSUME NEW x \in Reached(0, k, es) PROVE x = k
  BY DEF Reached
<1>2. k \in Reached(0, k, es)
  <2> DEFINE p == [i \in 0..0 |-> k]
  <2>1. p \in [0..0 -> Nodes] /\ p[0] = k /\ Walk(p, 0, es)
    BY DEF Walk
  <2> HIDE DEF p
  <2>2. QED
    BY <2>1 DEF Reached
<1>3. QED
  BY <1>1, <1>2

\* A longer walk takes an edge first.
LEMMA ReachedByEdge ==
    ASSUME NEW es \in SUBSET (Nodes \X Nodes), NEW n \in Nat \ {0}, NEW k \in Nodes, NEW x
    PROVE  x \in Reached(n, k, es) <=>
              \E c \in Nodes : <<c, k>> \in es /\ x \in Reached(n - 1, c, es)
<1>1. ASSUME x \in Reached(n, k, es)
      PROVE  \E c \in Nodes : <<c, k>> \in es /\ x \in Reached(n - 1, c, es)
  <2>1. PICK p \in [0..n -> Nodes] : Walk(p, n, es) /\ p[0] = k /\ p[n] = x
    BY <1>1 DEF Reached
  <2> DEFINE q == [i \in 0..(n - 1) |-> p[i + 1]]
  <2>2. q \in [0..(n - 1) -> Nodes] /\ q[0] = p[1] /\ q[n - 1] = x
    BY <2>1
  <2>3. Walk(q, n - 1, es)
    <3>1. ASSUME NEW i \in 0..((n - 1) - 1) PROVE <<q[i + 1], q[i]>> \in es
      <4>1. i + 1 \in 0..(n - 1) /\ q[i + 1] = p[(i + 1) + 1] /\ q[i] = p[i + 1]
        OBVIOUS
      <4>2. <<p[(i + 1) + 1], p[i + 1]>> \in es
        BY <2>1, <4>1 DEF Walk
      <4>3. QED
        BY <4>1, <4>2
    <3> HIDE DEF q
    <3>2. QED
      BY <2>2, <3>1 DEF Walk
  <2>4. <<p[1], k>> \in es /\ p[1] \in Nodes /\ x \in Nodes
    <3>1. 0 \in 0..(n - 1) /\ 0 + 1 = 1 /\ 1 \in 0..n /\ n \in 0..n
      OBVIOUS
    <3>2. <<p[0 + 1], p[0]>> \in es
      BY <2>1, <3>1 DEF Walk
    <3>3. QED
      BY <2>1, <3>1, <3>2
  <2> HIDE DEF q
  <2>5. x \in Reached(n - 1, p[1], es)
    BY <2>2, <2>3, <2>4 DEF Reached
  <2>6. QED
    BY <2>4, <2>5
<1>2. ASSUME NEW c \in Nodes, <<c, k>> \in es, x \in Reached(n - 1, c, es)
      PROVE  x \in Reached(n, k, es)
  <2>1. PICK q \in [0..(n - 1) -> Nodes] : Walk(q, n - 1, es) /\ q[0] = c /\ q[n - 1] = x
    BY <1>2 DEF Reached
  <2> DEFINE p == [i \in 0..n |-> IF i = 0 THEN k ELSE q[i - 1]]
  <2>2. p \in [0..n -> Nodes] /\ p[0] = k /\ p[n] = x
    <3>1. \A i \in 0..n : i # 0 => i - 1 \in 0..(n - 1)
      OBVIOUS
    <3>2. QED
      BY <2>1, <3>1
  <2>3. Walk(p, n, es)
    <3>1. ASSUME NEW i \in 0..(n - 1) PROVE <<p[i + 1], p[i]>> \in es
      <4>1. CASE i = 0
        <5>1. p[i + 1] = q[0] /\ p[i] = k
          BY <4>1
        <5>2. QED
          BY <1>2, <2>1, <5>1
      <4>2. CASE i # 0
        <5>1. i - 1 \in 0..((n - 1) - 1) /\ p[i + 1] = q[(i - 1) + 1] /\ p[i] = q[i - 1]
          BY <4>2
        <5>2. <<q[(i - 1) + 1], q[i - 1]>> \in es
          BY <2>1, <5>1 DEF Walk
        <5>3. QED
          BY <5>1, <5>2
      <4>3. QED
        BY <4>1, <4>2
    <3> HIDE DEF p
    <3>2. QED
      BY <2>2, <3>1 DEF Walk
  <2> HIDE DEF p
  <2>4. x \in Nodes
    BY <1>2 DEF Reached
  <2>5. QED
    BY <2>2, <2>3, <2>4 DEF Reached
<1>3. QED
  BY <1>1, <1>2

\* What is reached satisfies the definition of Below.
LEMMA ReachedUnfolds ==
    ASSUME NEW es \in SUBSET (Nodes \X Nodes), NEW m \in Nat
    PROVE  Unfolds([n \in 0..m |-> [k \in Nodes |-> Reached(n, k, es)]], m, es)
<1> DEFINE g == [n \in 0..m |-> [k \in Nodes |-> Reached(n, k, es)]]
<1>1. ASSUME NEW n \in 0..m, NEW k \in Nodes
      PROVE  Reached(n, k, es) =
               IF n = 0 THEN {k} ELSE UNION {g[n - 1][e[1]] : e \in {e \in es : e[2] = k}}
  <2>1. CASE n = 0
    BY <2>1, ReachedAtOnce
  <2>2. CASE n # 0
    <3>1. n - 1 \in 0..m /\ n \in Nat \ {0}
      BY <2>2
    <3>2. \A c \in Nodes : g[n - 1][c] = Reached(n - 1, c, es)
      BY <3>1
    <3> HIDE DEF g
    <3>3. ASSUME NEW x \in Reached(n, k, es)
          PROVE  x \in UNION {g[n - 1][e[1]] : e \in {e \in es : e[2] = k}}
      <4>1. PICK c \in Nodes : <<c, k>> \in es /\ x \in Reached(n - 1, c, es)
        BY <3>1, ReachedByEdge
      <4>2. <<c, k>> \in {e \in es : e[2] = k} /\ <<c, k>>[1] = c
        BY <4>1
      <4>3. QED
        BY <3>2, <4>1, <4>2
    <3>4. ASSUME NEW e \in es, e[2] = k, NEW x \in g[n - 1][e[1]]
          PROVE  x \in Reached(n, k, es)
      <4>1. e = <<e[1], k>> /\ e[1] \in Nodes
        BY <3>4, EdgeEnds
      <4>2. x \in Reached(n - 1, e[1], es) /\ <<e[1], k>> \in es
        BY <3>2, <4>1
      <4>3. QED
        BY <3>1, <4>1, <4>2, ReachedByEdge
    <3>5. UNION {g[n - 1][e[1]] : e \in {e \in es : e[2] = k}} \subseteq Reached(n, k, es)
      BY <3>4
    <3>6. Reached(n, k, es) = UNION {g[n - 1][e[1]] : e \in {e \in es : e[2] = k}}
      BY <3>3, <3>5
    <3>7. QED
      BY <2>2, <3>6
  <2>3. QED
    BY <2>1, <2>2
<1>2. QED
  BY <1>1 DEF Unfolds

\* And nothing else does: they would differ first at some length.
LEMMA UnfoldsReached ==
    ASSUME NEW es \in SUBSET (Nodes \X Nodes), NEW m \in Nat, NEW b, Unfolds(b, m, es),
           NEW n \in 0..m, NEW k \in Nodes
    PROVE  b[n][k] = Reached(n, k, es)
<1> DEFINE g == [i \in 0..m |-> [j \in Nodes |-> Reached(i, j, es)]]
           Bad == {i \in 0..m : b[i] # g[i]}
<1>1. SUFFICES ASSUME Bad # {} PROVE FALSE
  <2>1. g[n][k] = Reached(n, k, es)
    OBVIOUS
  <2> HIDE DEF g
  <2>2. QED
    BY <2>1
<1>2. PICK i \in Bad : \A j \in Bad : ~(j < i)
  <2>1. Bad \subseteq Nat
    OBVIOUS
  <2> HIDE DEF Bad
  <2>2. QED
    BY <1>1, <2>1, HasLeast
<1>3. Unfolds(g, m, es)
  BY ReachedUnfolds
<1> HIDE DEF g
<1>4. /\ b[i] = [j \in Nodes |->
            IF i = 0 THEN {j} ELSE UNION {b[i - 1][e[1]] : e \in {e \in es : e[2] = j}}]
      /\ g[i] = [j \in Nodes |->
            IF i = 0 THEN {j} ELSE UNION {g[i - 1][e[1]] : e \in {e \in es : e[2] = j}}]
  <2>1. i \in 0..m
    OBVIOUS
  <2>2. \A f : Unfolds(f, m, es) => f[i] = [j \in Nodes |->
            IF i = 0 THEN {j} ELSE UNION {f[i - 1][e[1]] : e \in {e \in es : e[2] = j}}]
    BY <2>1 DEF Unfolds
  <2>3. QED
    BY <1>3, <2>2
<1>5. CASE i = 0
  BY <1>4, <1>5
<1>6. CASE i # 0
  <2>1. i - 1 \in 0..m /\ i - 1 < i
    BY <1>6
  <2>2. b[i - 1] = g[i - 1]
    BY <1>2, <2>1
  <2>3. QED
    BY <1>4, <2>2
<1>7. QED
  BY <1>5, <1>6

\* How many keys there are.
N == Submitted!Cardinality(Nodes)

\* They are a natural number.
LEMMA KeysAreFinite ==
    ASSUME Submitted!Parameters
    PROVE  IsFiniteSet(Nodes) /\ N = Cardinality(Nodes) /\ N \in Nat
<1>1. IsFiniteSet(Nodes)
  BY DEF Submitted!Parameters, Submitted!IsFiniteSet, IsFiniteSet
<1>2. N = Cardinality(Nodes)
  BY DEF N, Submitted!Cardinality, Submitted!IsFiniteSet, Cardinality, IsFiniteSet
<1>3. QED
  BY <1>1, <1>2, FS_CardinalityType

\* What Below computes.
LEMMA BelowIsReached ==
    ASSUME Submitted!Parameters, NEW es \in SUBSET (Nodes \X Nodes), NEW n \in 0..N, NEW k \in Nodes
    PROVE  Submitted!Below(es)[n][k] = Reached(n, k, es)
<1> DEFINE b == CHOOSE f : Unfolds(f, N, es)
<1>1. Unfolds(b, N, es)
  BY KeysAreFinite, ReachedUnfolds
<1>2. Submitted!Below(es) = b
  BY Zenon DEF Submitted!Below, Unfolds, N
<1> HIDE DEF b
<1>3. QED
  BY <1>1, <1>2, KeysAreFinite, UnfoldsReached

\* Without a cycle no walk is as long as there are keys: it would meet one key twice.
LEMMA WalksAreShort ==
    ASSUME Submitted!Parameters, NEW es \in SUBSET (Nodes \X Nodes), ~Submitted!CycleError(es),
           NEW k \in Nodes
    PROVE  Reached(N, k, es) = {}
<1>1. SUFFICES ASSUME NEW p \in [0..N -> Nodes], Walk(p, N, es) PROVE FALSE
  BY DEF Reached
<1>2. IsFiniteSet(Nodes) /\ N = Cardinality(Nodes) /\ N \in Nat
  BY KeysAreFinite
<1>3. PICK x \in 0..N, y \in 0..N : x < y /\ p[x] = p[y]
  <2>1. IsFiniteSet(0..N) /\ Cardinality(0..N) = N + 1
    BY <1>2, FS_Interval
  <2>2. Cardinality(Nodes) < Cardinality(0..N)
    BY <1>2, <2>1
  <2>3. PICK x \in 0..N, y \in 0..N : x # y /\ p[x] = p[y]
    BY <1>2, <2>1, <2>2, FS_PigeonHole
  <2>4. x < y \/ y < x
    BY <1>2, <2>3
  <2>5. QED
    BY <2>3, <2>4
<1> DEFINE d == y - x
           q == [i \in 0..d |-> p[x + i]]
<1>4. d \in 1..N /\ d \in 0..N /\ d \in Nat
  BY <1>2, <1>3
<1>5. q \in [0..d -> Nodes] /\ q[0] = p[x] /\ q[d] = p[x]
  <2>1. \A i \in 0..d : x + i \in 0..N
    BY <1>2, <1>3
  <2>2. x + 0 = x /\ x + d = y
    BY <1>2, <1>3
  <2>3. QED
    BY <1>3, <1>4, <2>1, <2>2
<1>6. Walk(q, d, es)
  <2>1. ASSUME NEW i \in 0..(d - 1) PROVE <<q[i + 1], q[i]>> \in es
    <3>1. x + i \in 0..(N - 1) /\ q[i + 1] = p[(x + i) + 1] /\ q[i] = p[x + i]
      BY <1>2, <1>3
    <3>2. <<p[(x + i) + 1], p[x + i]>> \in es
      BY <1>1, <3>1 DEF Walk
    <3>3. QED
      BY <3>1, <3>2
  <2> HIDE DEF q, d
  <2>2. QED
    BY <1>5, <2>1 DEF Walk
<1> HIDE DEF q, d
<1>7. p[x] \in Nodes /\ p[x] \in Reached(d, p[x], es)
  BY <1>5, <1>6 DEF Reached
<1>8. p[x] \in Submitted!Below(es)[d][p[x]]
  BY <1>4, <1>7, BelowIsReached
<1>9. Submitted!CycleError(es)
  BY <1>4, <1>7, <1>8 DEF Submitted!CycleError, Submitted!Lengths, N
<1>10. QED
  BY <1>9

\* The priorities of k are what walks tell.
Exact(k) ==
    /\ descendants[k] = {x \in Nodes : \E n \in 1..N : x \in Reached(n, k, edges)}
    /\ depth[k] \in 0..N /\ Reached(depth[k], k, edges) # {}
    /\ \A n \in 1..N : n > depth[k] => Reached(n, k, edges) = {}

\* The inductive invariant: what is accepted is well formed, and the actions visited so
\* far have their priorities.
SubmitInv ==
    /\ answer \in {"reading", "accepted", "400", "201", "500"}
    /\ answer = "500" => nul
    /\ actions \subseteq Nodes /\ edges \subseteq Nodes \X Nodes /\ visited \subseteq actions
    /\ depth \in [Nodes -> Nat] /\ descendants \in [Nodes -> SUBSET Nodes]
    /\ answer = "reading" => visited = {}
    /\ answer \in {"accepted", "201"} => Submitted!WellFormed
    /\ answer = "201" => visited = actions
    /\ \A k \in visited : Exact(k)

\* While actions are left, one can be visited: were there none, each would have a child
\* that is left, and walks would never end.
LEMMA SomeVisitable ==
    ASSUME Submitted!Parameters, SubmitInv, Submitted!WellFormed, visited # actions
    PROVE  Submitted!Visitable # {}
<1> DEFINE R == actions \ visited
<1>1. SUFFICES ASSUME Submitted!Visitable = {} PROVE FALSE
  OBVIOUS
<1>2. R # {} /\ R \subseteq Nodes /\ edges \in SUBSET (Nodes \X Nodes)
  BY DEF SubmitInv
<1>3. ASSUME NEW k \in R PROVE \E c \in R : <<c, k>> \in edges
  <2>1. ~(Submitted!ChildrenOf(k) \subseteq visited)
    BY <1>1 DEF Submitted!Visitable
  <2>2. PICK c \in Nodes : <<c, k>> \in edges /\ c \notin visited
    BY <2>1 DEF Submitted!ChildrenOf
  <2>3. <<c, k>>[1] = c /\ <<c, k>>[1] \in actions
    BY <2>2 DEF Submitted!WellFormed, Submitted!JoinActions
  <2>4. QED
    BY <2>2, <2>3
<1>4. N \in Nat
  BY KeysAreFinite
<1> DEFINE Bad == {n \in 0..N : \E k \in R : Reached(n, k, edges) = {}}
<1>5. Bad = {}
  <2>1. SUFFICES ASSUME Bad # {} PROVE FALSE
    OBVIOUS
  <2>2. PICK n \in Bad : \A j \in Bad : ~(j < n)
    <3>1. Bad \subseteq Nat
      BY <1>4
    <3> HIDE DEF Bad
    <3>2. QED
      BY <2>1, <3>1, HasLeast
  <2>3. n \in 0..N /\ n \in Nat
    BY <1>4
  <2>4. PICK k \in R : Reached(n, k, edges) = {}
    OBVIOUS
  <2> HIDE DEF R
  <2>5. n # 0
    BY <1>2, <2>4, ReachedAtOnce
  <2>6. PICK c \in R : <<c, k>> \in edges
    BY <1>3
  <2>7. Reached(n - 1, c, edges) # {}
    <3>1. n - 1 \in 0..N /\ n - 1 < n
      BY <1>4, <2>3, <2>5
    <3>2. n - 1 \notin Bad
      BY <2>2, <3>1
    <3>3. QED
      BY <3>1, <3>2
  <2>8. PICK x : x \in Reached(n - 1, c, edges)
    BY <2>7
  <2>9. x \in Reached(n, k, edges)
    BY <1>2, <2>3, <2>5, <2>6, <2>8, ReachedByEdge
  <2>10. QED
    BY <2>4, <2>9
<1>6. PICK k \in R : TRUE
  BY <1>2
<1>7. Reached(N, k, edges) = {}
  BY <1>2, WalksAreShort DEF Submitted!WellFormed
<1>8. N \in Bad
  BY <1>4, <1>7
<1>9. QED
  BY <1>5, <1>8

\* descendants[key] |= bit[c] | descendants[c] for the children gives all that depend on
\* the action.
LEMMA VisitDescendants ==
    ASSUME Submitted!Parameters, SubmitInv, Submitted!WellFormed, NEW k \in Submitted!Visitable
    PROVE  Submitted!DescendantsOf(k) = {x \in Nodes : \E n \in 1..N : x \in Reached(n, k, edges)}
<1>1. k \in Nodes /\ edges \in SUBSET (Nodes \X Nodes) /\ N \in Nat
  BY KeysAreFinite DEF SubmitInv, Submitted!Visitable
<1>2. \A c \in Submitted!ChildrenOf(k) : c \in Nodes /\ <<c, k>> \in edges /\ Exact(c)
  BY DEF SubmitInv, Submitted!Visitable, Submitted!ChildrenOf
<1>3. ASSUME NEW x \in Submitted!DescendantsOf(k)
      PROVE  x \in Nodes /\ \E n \in 1..N : x \in Reached(n, k, edges)
  <2>1. PICK c \in Submitted!ChildrenOf(k) : x \in {c} \cup descendants[c]
    BY DEF Submitted!DescendantsOf
  <2>2. c \in Nodes /\ <<c, k>> \in edges /\ Exact(c)
    BY <1>2
  <2>3. PICK n \in 0..N : x \in Reached(n, c, edges)
    <3>1. CASE x = c
      BY <1>1, <2>2, <3>1, ReachedAtOnce
    <3>2. CASE x \in descendants[c]
      BY <1>1, <2>2, <3>2 DEF Exact
    <3>3. QED
      BY <2>1, <3>1, <3>2
  <2>4. n # N
    BY <1>1, <2>2, <2>3, WalksAreShort DEF Submitted!WellFormed
  <2>5. n + 1 \in 1..N /\ n + 1 \in Nat \ {0} /\ (n + 1) - 1 = n
    BY <1>1, <2>3, <2>4
  <2>6. x \in Reached(n + 1, k, edges)
    BY <1>1, <2>2, <2>3, <2>5, ReachedByEdge
  <2>7. QED
    BY <2>5, <2>6 DEF Reached
<1>4. ASSUME NEW x \in Nodes, NEW n \in 1..N, x \in Reached(n, k, edges)
      PROVE  x \in Submitted!DescendantsOf(k)
  <2>1. n \in Nat \ {0}
    OBVIOUS
  <2>2. PICK c \in Nodes : <<c, k>> \in edges /\ x \in Reached(n - 1, c, edges)
    BY <1>1, <1>4, <2>1, ReachedByEdge
  <2>3. c \in Submitted!ChildrenOf(k)
    BY <2>2 DEF Submitted!ChildrenOf
  <2>4. x \in {c} \cup descendants[c]
    <3>1. CASE n = 1
      <4>1. n - 1 = 0
        BY <3>1
      <4>2. QED
        BY <2>2, <4>1, ReachedAtOnce
    <3>2. CASE n # 1
      <4>1. n - 1 \in 1..N
        BY <1>1, <3>2
      <4>2. Exact(c)
        BY <1>2, <2>3
      <4>3. QED
        BY <2>2, <4>1, <4>2 DEF Exact
    <3>3. QED
      BY <3>1, <3>2
  <2>5. QED
    BY <2>3, <2>4 DEF Submitted!DescendantsOf
<1>5. QED
  BY <1>3, <1>4

\* max(depth[c] + 1 for c in children, default 0) is the length of the longest walk.
LEMMA VisitDepth ==
    ASSUME Submitted!Parameters, SubmitInv, Submitted!WellFormed, NEW k \in Submitted!Visitable,
           NEW m, m = Submitted!DepthOf(k)
    PROVE  /\ m \in 0..N /\ Reached(m, k, edges) # {}
           /\ \A n \in 1..N : n > m => Reached(n, k, edges) = {}
<1>1. k \in Nodes /\ edges \in SUBSET (Nodes \X Nodes) /\ N \in Nat
  BY KeysAreFinite DEF SubmitInv, Submitted!Visitable
<1>2. \A c \in Submitted!ChildrenOf(k) : c \in Nodes /\ <<c, k>> \in edges /\ Exact(c)
  BY DEF SubmitInv, Submitted!Visitable, Submitted!ChildrenOf
<1> DEFINE T == {depth[c] + 1 : c \in Submitted!ChildrenOf(k)}
<1>3. T \in SUBSET (1..N)
  <2>1. ASSUME NEW c \in Submitted!ChildrenOf(k) PROVE depth[c] + 1 \in 1..N
    <3>1. c \in Nodes /\ Exact(c)
      BY <1>2
    <3>2. depth[c] # N
      BY <1>1, <3>1, WalksAreShort DEF Submitted!WellFormed, Exact
    <3>3. QED
      BY <1>1, <3>1, <3>2 DEF Exact
  <2>2. QED
    BY <2>1
<1>4. m \in {0} \cup T /\ \A t \in T : t <= m
  <2>1. m = CHOOSE x \in {0} \cup T : \A y \in {0} \cup T : x >= y
    BY DEF Submitted!DepthOf, Submitted!Max
  <2>2. \E x \in {0} \cup T : \A y \in {0} \cup T : x >= y
    <3>1. CASE T = {}
      BY <3>1
    <3>2. CASE T # {}
      <4> HIDE DEF T
      <4>1. PICK x \in T : \A y \in T : y <= x
        BY <1>1, <1>3, <3>2, HasGreatest
      <4>2. QED
        BY <1>1, <1>3, <4>1
    <3>3. QED
      BY <3>1, <3>2
  <2> HIDE DEF T
  <2>3. m \in {0} \cup T /\ \A y \in {0} \cup T : m >= y
    BY <2>1, <2>2
  <2>4. QED
    BY <1>1, <1>3, <2>3
<1>5. m \in 0..N
  <2> HIDE DEF T
  <2>1. QED
    BY <1>1, <1>3, <1>4
<1>6. Reached(m, k, edges) # {}
  <2>1. CASE m = 0
    BY <1>1, <2>1, ReachedAtOnce
  <2>2. CASE m # 0
    <3>1. PICK c \in Submitted!ChildrenOf(k) : m = depth[c] + 1
      BY <1>4, <2>2
    <3>2. c \in Nodes /\ <<c, k>> \in edges /\ depth[c] \in 0..N /\ Reached(depth[c], c, edges) # {}
      BY <1>2 DEF Exact
    <3>3. m \in Nat \ {0} /\ m - 1 = depth[c]
      BY <1>1, <3>1, <3>2
    <3>4. PICK x : x \in Reached(m - 1, c, edges)
      BY <3>2, <3>3
    <3>5. x \in Reached(m, k, edges)
      BY <1>1, <3>2, <3>3, <3>4, ReachedByEdge
    <3>6. QED
      BY <3>5
  <2>3. QED
    BY <2>1, <2>2
<1>7. ASSUME NEW n \in 1..N, n > m, NEW x \in Reached(n, k, edges) PROVE FALSE
  <2>1. n \in Nat \ {0}
    OBVIOUS
  <2>2. PICK c \in Nodes : <<c, k>> \in edges /\ x \in Reached(n - 1, c, edges)
    BY <1>1, <2>1, ReachedByEdge
  <2>3. c \in Submitted!ChildrenOf(k)
    BY <2>2 DEF Submitted!ChildrenOf
  <2>4. Exact(c) /\ depth[c] + 1 <= m
    BY <1>2, <1>4, <2>3
  <2>5. n - 1 \in 1..N /\ n - 1 > depth[c]
    BY <1>1, <1>5, <1>7, <2>4 DEF Exact
  <2>6. QED
    BY <2>2, <2>4, <2>5 DEF Exact
<1>8. QED
  BY <1>5, <1>6, <1>7

\* Whether a batch is well formed depends on its lines only.
LEMMA SameText ==
    ASSUME actions' = actions, edges' = edges, edgeLines' = edgeLines
    PROVE  Submitted!WellFormed' <=> Submitted!WellFormed
<1>1. Submitted!JoinActions' <=> Submitted!JoinActions
  BY DEF Submitted!JoinActions
<1>2. (Submitted!CycleError(edges))' <=> Submitted!CycleError(edges)
  BY Zenon DEF Submitted!CycleError, Submitted!Below
<1>3. (Submitted!Cardinality(edges))' = Submitted!Cardinality(edges)
  BY Zenon DEF Submitted!Cardinality, Submitted!IsFiniteSet
<1>4. QED
  BY <1>1, <1>2, <1>3 DEF Submitted!WellFormed

\* Each line, visit and answer keeps the invariant.
LEMMA SubmitNext ==
    ASSUME Submitted!Parameters, SubmitInv, [Submitted!Next]_(Submitted!vars)
    PROVE  SubmitInv'
<1>1. CASE Submitted!BadLine \/ UNCHANGED Submitted!vars
  <2>1. /\ answer' = "400" \/ answer' = answer
        /\ nul' = nul
        /\ actions' = actions /\ edges' = edges /\ edgeLines' = edgeLines
        /\ visited' = visited /\ depth' = depth /\ descendants' = descendants
    BY <1>1 DEF Submitted!BadLine, Submitted!Answer, Submitted!vars
  <2>2. Submitted!WellFormed' <=> Submitted!WellFormed
    BY <2>1, SameText
  <2>3. \A k \in visited' : Exact(k)'
    BY <2>1 DEF SubmitInv, Exact
  <2>4. QED
    BY <2>1, <2>2, <2>3 DEF SubmitInv
<1>2. ASSUME NEW k \in Nodes, NEW theory \in Submitted!TheoryNames,
             Submitted!ActionLine(k, theory)
      PROVE  SubmitInv'
  <2>1. /\ answer = "reading" /\ answer' \in {"reading", "400"}
        /\ actions' \subseteq actions \cup {k} /\ actions \subseteq actions'
        /\ edges' = edges /\ visited' = visited /\ depth' = depth /\ descendants' = descendants
    BY <1>2 DEF Submitted!ActionLine, Submitted!Answer
  <2>2. QED
    BY <2>1 DEF SubmitInv
<1>3. ASSUME NEW c \in Nodes, NEW p \in Nodes, Submitted!EdgeLine(c, p) PROVE SubmitInv'
  <2>1. /\ answer = "reading" /\ answer' = answer /\ edges' = edges \cup {<<c, p>>}
        /\ actions' = actions /\ visited' = visited /\ depth' = depth /\ descendants' = descendants
    BY <1>3 DEF Submitted!EdgeLine
  <2>2. QED
    BY <2>1 DEF SubmitInv
<1>4. ASSUME NEW cl \in {"build", "run"}, NEW pr \in {"plain", "nul"},
             Submitted!EndOfText(cl, pr)
      PROVE  SubmitInv'
  <2>1. /\ answer = "reading" /\ answer' \in {"accepted", "400"}
        /\ answer' = "accepted" => Submitted!WellFormed
        /\ actions' = actions /\ edges' = edges /\ edgeLines' = edgeLines
        /\ visited' = visited /\ depth' = depth /\ descendants' = descendants
    BY <1>4 DEF Submitted!EndOfText, Submitted!Answer
  <2>2. Submitted!WellFormed' <=> Submitted!WellFormed
    BY <2>1, SameText
  <2>3. QED
    BY <2>1, <2>2 DEF SubmitInv
<1>5. ASSUME NEW k \in Nodes, Submitted!Visit(k) PROVE SubmitInv'
  <2>1. /\ answer = "accepted" /\ answer' = answer /\ k \in Submitted!Visitable
        /\ visited' = visited \cup {k}
        /\ depth' = [depth EXCEPT ![k] = Submitted!DepthOf(k)]
        /\ descendants' = [descendants EXCEPT ![k] = Submitted!DescendantsOf(k)]
        /\ actions' = actions /\ edges' = edges /\ edgeLines' = edgeLines
    BY <1>5 DEF Submitted!Visit
  <2>2. Submitted!WellFormed /\ (Submitted!WellFormed' <=> Submitted!WellFormed)
    <3>1. Submitted!WellFormed' <=> Submitted!WellFormed
      BY <2>1, SameText
    <3>2. QED
      BY <2>1, <3>1 DEF SubmitInv
  <2> DEFINE D == {x \in Nodes : \E n \in 1..N : x \in Reached(n, k, edges)}
             m == Submitted!DepthOf(k)
  <2>3. Submitted!DescendantsOf(k) = D
    BY <2>1, <2>2, VisitDescendants
  <2>4. /\ m \in 0..N /\ Reached(m, k, edges) # {}
        /\ \A n \in 1..N : n > m => Reached(n, k, edges) = {}
    BY <2>1, <2>2, VisitDepth
  <2>5. k \in Nodes /\ k \in actions /\ D \in SUBSET Nodes /\ m \in Nat
    <3>1. N \in Nat
      BY KeysAreFinite
    <3>2. QED
      BY <2>1, <2>4, <3>1 DEF Submitted!Visitable
  <2>6. /\ depth' \in [Nodes -> Nat] /\ depth'[k] = m /\ \A j \in Nodes \ {k} : depth'[j] = depth[j]
        /\ descendants' \in [Nodes -> SUBSET Nodes] /\ descendants'[k] = D
        /\ \A j \in Nodes \ {k} : descendants'[j] = descendants[j]
    <3> HIDE DEF D, m
    <3>1. depth' = [depth EXCEPT ![k] = m] /\ descendants' = [descendants EXCEPT ![k] = D]
      BY <2>1, <2>3 DEF m
    <3>2. QED
      BY <2>5, <3>1 DEF SubmitInv
  <2>7. ASSUME NEW j \in visited' PROVE Exact(j)'
    <3>1. CASE j = k
      <4>1. /\ descendants'[k] = {x \in Nodes : \E n \in 1..N : x \in Reached(n, k, edges)}
            /\ depth'[k] \in 0..N /\ Reached(depth'[k], k, edges) # {}
            /\ \A n \in 1..N : n > depth'[k] => Reached(n, k, edges) = {}
        <5> HIDE DEF m
        <5>1. QED
          BY <2>4, <2>6
      <4>2. QED
        BY <2>1, <3>1, <4>1 DEF Exact
    <3>2. CASE j # k
      <4>1. Exact(j) /\ depth'[j] = depth[j] /\ descendants'[j] = descendants[j]
        BY <2>1, <2>6, <3>2 DEF SubmitInv
      <4>2. QED
        BY <2>1, <4>1 DEF Exact
    <3>3. QED
      BY <3>1, <3>2
  <2> HIDE DEF D, m
  <2>8. QED
    BY <2>1, <2>2, <2>5, <2>6, <2>7 DEF SubmitInv
<1>6. CASE Submitted!Store
  <2>1. /\ answer = "accepted" /\ Submitted!Visitable = {}
        /\ answer' = IF visited = actions /\ Submitted!EdgesKeyed /\ Submitted!NoSelfLoop
                        /\ Submitted!TextStorable
                     THEN "201" ELSE "500"
        /\ nul' = nul
        /\ actions' = actions /\ edges' = edges /\ edgeLines' = edgeLines
        /\ visited' = visited /\ depth' = depth /\ descendants' = descendants
    BY <1>6 DEF Submitted!Store, Submitted!Answer
  <2>2. Submitted!WellFormed /\ (Submitted!WellFormed' <=> Submitted!WellFormed)
    <3>1. Submitted!WellFormed' <=> Submitted!WellFormed
      BY <2>1, SameText
    <3>2. QED
      BY <2>1, <3>1 DEF SubmitInv
  <2>3. visited = actions
    BY <2>1, <2>2, SomeVisitable
  <2>4. Submitted!EdgesKeyed /\ Submitted!NoSelfLoop
    BY <2>2 DEF Submitted!EdgesKeyed, Submitted!NoSelfLoop, Submitted!WellFormed,
                Submitted!JoinActions
  <2>5. answer' = "201" \/ (answer' = "500" /\ nul')
    <3> HIDE DEF Submitted!EdgesKeyed, Submitted!NoSelfLoop
    <3>1. CASE nul
      BY <2>1, <3>1
    <3>2. CASE ~nul
      BY <2>1, <2>3, <2>4, <3>2 DEF Submitted!TextStorable
    <3>3. QED
      BY <3>1, <3>2
  <2>6. \A k \in visited' : Exact(k)'
    BY <2>1 DEF SubmitInv, Exact
  <2>7. QED
    BY <2>1, <2>2, <2>3, <2>5, <2>6 DEF SubmitInv
<1>7. QED
  BY <1>1, <1>2, <1>3, <1>4, <1>5, <1>6 DEF Submitted!Next

\* It holds throughout.
LEMMA SubmitInvHolds ==
    ASSUME Submitted!Parameters PROVE Submitted!Spec => []SubmitInv
<1>1. ASSUME Submitted!Init PROVE SubmitInv
  BY <1>1 DEF Submitted!Init, SubmitInv
<1>2. SubmitInv /\ [Submitted!Next]_(Submitted!vars) => SubmitInv'
  BY SubmitNext
<1>3. QED
  BY <1>1, <1>2, PTL DEF Submitted!Spec

\* A text that parse_batch and the route accept fails in submit only for a NUL in a name
\* or in the profile: however many actions and edges it has, it does not fail in
\* dag_priorities or at a constraint of the tables.
THEOREM AcceptedBatchesAreStored ==
    ASSUME Submitted!Parameters PROVE Submitted!Spec => []AcceptedBatchCanBeStored
<1>1. SubmitInv => AcceptedBatchCanBeStored
  BY DEF SubmitInv, AcceptedBatchCanBeStored, Submitted!AcceptedBatchCanBeStored
<1>2. QED
  BY <1>1, SubmitInvHolds, PTL

\* dag_priorities gives every action of a stored batch the length of its longest path down
\* and the number of actions that depend on it, in whichever order static_order goes.
THEOREM StoredPrioritiesAreExact ==
    ASSUME Submitted!Parameters PROVE Submitted!Spec => []PrioritiesAreExact
<1>1. ASSUME SubmitInv PROVE PrioritiesAreExact
  <2>1. SUFFICES ASSUME answer = "201", NEW k \in actions
                 PROVE  /\ Submitted!Cardinality(descendants[k])
                             = Submitted!Cardinality(Submitted!Dependents(k))
                        /\ Submitted!Below(edges)[depth[k]][k] # {}
                        /\ \A n \in Submitted!Lengths :
                              n > depth[k] => Submitted!Below(edges)[n][k] = {}
    BY DEF PrioritiesAreExact, Submitted!PrioritiesAreExact
  <2>2. k \in Nodes /\ Exact(k) /\ edges \in SUBSET (Nodes \X Nodes) /\ N \in Nat
    BY <1>1, <2>1, KeysAreFinite DEF SubmitInv
  <2>3. \A n \in 0..N : Submitted!Below(edges)[n][k] = Reached(n, k, edges)
    BY <2>2, BelowIsReached
  <2>4. Submitted!Lengths = 1..N /\ \A n \in 1..N : n \in 0..N
    BY <2>2 DEF Submitted!Lengths, N
  <2>5. Submitted!Dependents(k) = descendants[k]
    <3>1. \A x \in Submitted!Dependents(k) : x \in descendants[k]
      BY <2>2, <2>3, <2>4 DEF Submitted!Dependents, Exact, Reached
    <3>2. \A x \in descendants[k] : x \in Submitted!Dependents(k)
      BY <2>2, <2>3, <2>4 DEF Submitted!Dependents, Exact
    <3>3. QED
      BY <3>1, <3>2
  <2>6. QED
    BY <2>2, <2>3, <2>4, <2>5 DEF Exact
<1>2. QED
  BY <1>1, SubmitInvHolds, PTL

-----------------------------------------------------------------------------
(***************************************************************************)
(* The locks of the transactions, for any actions, edges and number of     *)
(* connections: what each session holds at each statement of its program,  *)
(* and that no transaction on a batch waits in a circle.                   *)
(***************************************************************************)

\* The statement a session is at.
At(q) == IF q.left = <<>> THEN "end" ELSE Head(q.left)

\* Which statement may follow which in a program.
Follows == [lockBatch |-> {"takeLease"}, lockRunning |-> {"endBatch", "makeReady", "lockIfDone"},
    takeLease |-> {"noteResult", "lockIfRuns"},
    noteResult |-> {"setDone", "raisePeak", "setWaiting", "setFailed"},
    lockIfRuns |-> {"setWaiting", "setFailed"}, lockIfDone |-> {"requeueParent", "setFailed"},
    setDone |-> {"recordPeak"}, recordPeak |-> {"refreshChildren"}, raisePeak |-> {"setHigh"},
    setHigh |-> {"setWaiting"}, setWaiting |-> {"refreshKey", "requeueParent"},
    requeueParent |-> {"refreshParent"}, refreshParent |-> {"refreshChildren"},
    refreshKey |-> {}, refreshChildren |-> {"finishIfDone"}, finishIfDone |-> {},
    setFailed |-> {"endBatch", "finishIfDone"}, endBatch |-> {"cancelActions"},
    cancelActions |-> {"deleteLeases"}, deleteLeases |-> {}, makeReady |-> {},
    deleteBatches |-> {"cascade"}, cascade |-> {},
    admit |-> {"pick"}, pick |-> {"insertLease"}, insertLease |-> {},
    renewLease |-> {}, useHints |-> {}, deleteHints |-> {}]

\* The statements with which a transaction on the batch locks the batch row.
First == {"lockBatch", "lockRunning"}

\* The statements between that lock and the end of the batch.
Work == {"noteResult", "lockIfRuns", "lockIfDone", "setDone", "recordPeak", "raisePeak", "setHigh",
         "setWaiting", "setFailed", "requeueParent", "refreshKey", "refreshParent",
         "refreshChildren", "makeReady", "finishIfDone", "endBatch"}
OnRunning == First \cup Work \cup {"takeLease", "cancelActions", "deleteLeases"}
OfRetain == {"deleteBatches", "cascade"}
BatchStatements == OnRunning \cup OfRetain

\* The statements about an action whose lease is gone, those about an action or its
\* parent, those before which no hint is locked, and those that end no program.
KeyFree == {"noteResult", "lockIfRuns", "setDone", "raisePeak", "setHigh", "setWaiting",
            "setFailed"}
OfKey == KeyFree \cup {"lockBatch", "takeLease", "renewLease", "lockIfDone", "recordPeak",
                       "refreshKey"}
OfParent == {"requeueParent", "refreshParent"}
NoHints == {"noteResult", "lockIfRuns", "lockIfDone", "setDone", "recordPeak", "raisePeak"}
NeverLast == {"endBatch", "cancelActions", "pick"}

\* The kinds of transactions, and the statements of each.
BatchKinds == {"cancel", "done", "memory", "retry", "missing", "missingFinal", "failed", "expire",
               "expireFinal", "release", "evicted", "evictedFinal", "retain"}
HintKinds == {"submit", "forgetHints"}
StatementsOf(kind) ==
    CASE kind = "retain" -> OfRetain
      [] kind \in BatchKinds \ {"retain"} -> OnRunning
      [] kind \in HintKinds -> {"useHints", "deleteHints"}
      [] kind = "claim" -> {"admit", "pick", "insertLease"}
      [] kind = "heartbeat" -> {"renewLease"}
      [] OTHER -> {}

\* The statements left of transaction t are in the order the code has them in.
Path(t, left) ==
    /\ left \in Seq(StatementsOf(t.kind))
    /\ \A i \in 1..(Len(left) - 1) : left[i + 1] \in Follows[left[i]]
    /\ \A i \in 1..Len(left) : /\ left[i] \in OfKey => t.key \in Keys
                               /\ left[i] \in OfParent => t.parent \in Keys
Ordered(t, left) == Path(t, left) /\ (left # <<>> => left[Len(left)] \notin NeverLast)

\* The rows w as a transaction sees them that holds the rows own.
Over(own, w) == [r \in Rows |-> IF r \in DOMAIN own THEN own[r] ELSE w[r]]

\* The committed rows: a held lease is of a running action, and a batch that does not run
\* has no unfinished action.
IsAction(x) == x = [state |-> x.state, deps |-> x.deps]
Typed(v) == \A k \in Keys : IsAction(v[Action(k)])
HeldRuns(v) == \A k \in Keys : v[Lease(k)] = "held" => v[Action(k)].state = "running"
NoneUnfinished(v) == \A k \in Keys : v[Action(k)].state \notin Unfinished
Quiet(v) == Typed(v) /\ HeldRuns(v) /\ (v[Batch] # "running" => NoneUnfinished(v))

\* The rows a transaction on the batch holds: the batch itself first.  A retention may hold
\* rows of other batches instead, or too.
Shape(own) ==
    /\ DOMAIN own \subseteq BatchRows \cup Actions \cup LeaseRows \cup Hints
    /\ DOMAIN own \subseteq Others \/ Batch \in DOMAIN own

\* A lease it holds was held when it was locked.
TookHeld(own, w) == \A k \in Keys : Lease(k) \in DOMAIN own => w[Lease(k)] = "held"

\* A transaction on a batch that runs; one that has ended it; one that looks for batches to
\* delete; one that has deleted this one; and one that is about to commit.
Working(own, w) ==
    /\ Shape(own) /\ TookHeld(own, w)
    /\ Batch \in DOMAIN own /\ w[Batch] = "running" /\ own[Batch] = "running"
    /\ Typed(Over(own, w)) /\ HeldRuns(Over(own, w))
Ending(own, w) ==
    /\ Shape(own) /\ TookHeld(own, w)
    /\ Batch \in DOMAIN own /\ w[Batch] = "running" /\ own[Batch] # "running"
    /\ Typed(Over(own, w))
Retaining(own, w) ==
    /\ DOMAIN own \subseteq BatchRows
    /\ Batch \in DOMAIN own => w[Batch] # "running" /\ own[Batch] # "running"
Deleting(own, w) ==
    /\ Shape(own) /\ TookHeld(own, w)
    /\ Batch \in DOMAIN own /\ w[Batch] # "running" /\ own[Batch] # "running"
    /\ Quiet(Over(own, w))
Ended(own, w) ==
    /\ Shape(own) /\ Quiet(Over(own, w))
    /\ w[Batch] # "running" => Over(own, w)[Batch] # "running"

\* No lease of key is left, or the action was done.
Free(key, own) == \/ Lease(key) \in DOMAIN own /\ own[Lease(key)] = "gone"
                  \/ Action(key) \in DOMAIN own /\ own[Action(key)].state = "done"

\* A transaction on the batch, at st, that holds the rows own.
BatchAt(st, key, own, w) ==
    /\ st \in First => DOMAIN own = {}
    /\ st = "takeLease" => /\ DOMAIN own \subseteq {Batch} /\ \A r \in DOMAIN own : own[r] = w[r]
                           /\ DOMAIN own = {} => w[Batch] # "running"
    /\ st \in Work => /\ Working(own, w)
                      /\ st \in NoHints => DOMAIN own \cap Hints = {}
                      /\ st \in KeyFree => Free(key, own)
    /\ st \in {"cancelActions", "deleteLeases"} => Ending(own, w)
    /\ st = "deleteLeases" => NoneUnfinished(Over(own, w))
    /\ st = "deleteBatches" => Retaining(own, w)
    /\ st = "cascade" => Deleting(own, w)
    /\ st = "end" => Ended(own, w)

\* What the rows still to be visited have to be.
Pending(st, own, w, P) ==
    LET v == Over(own, w)
    IN  /\ st = "cancelActions" =>
              \A k \in Keys : v[Action(k)].state \in Unfinished => Action(k) \in P
        /\ st = "deleteLeases" => \A k \in Keys : /\ v[Lease(k)] = "held" => Lease(k) \in P
                                                  /\ Lease(k) \in P => w[Lease(k)] = "held"
        /\ st = "deleteBatches" => (Batch \in P => w[Batch] # "running")
        /\ st = "cascade" => P \cap LeaseRows = {}
        /\ st = "takeLease" => Batch \in DOMAIN own

\* A claim: it holds actions it looked at, then one that was ready, then its lease.
ClaimAt(st, key, own, w) ==
    LET L == DOMAIN own
    IN  /\ L \subseteq {Admission} \cup Actions \cup LeaseRows
        /\ st = "admit" => L = {}
        /\ st # "end" => L \cap LeaseRows = {}
        /\ key \in Keys \cup {NoKey}
        /\ st \in {"admit", "pick"} => key = NoKey
        /\ st = "insertLease" => key \in Keys
        /\ \A r \in L : own[r] = w[r] \/ (key \in Keys /\ r \in {Action(key), Lease(key)})
        /\ \A r \in L : r \in LeaseRows => key \in Keys /\ r = Lease(key)
        /\ key \in Keys => /\ Action(key) \in L /\ w[Action(key)].state = "ready"
                           /\ IsAction(own[Action(key)]) /\ own[Action(key)].state = "running"
        /\ st = "end" /\ key \in Keys => Lease(key) \in L /\ own[Lease(key)] = "held"

\* The rows a statement locks.
Foot(st, t) ==
    CASE st \in First \cup {"endBatch", "finishIfDone"} -> {Batch}
      [] st \in {"noteResult", "setDone", "setHigh", "setWaiting", "setFailed", "lockIfRuns",
                 "lockIfDone"} -> {Action(t.key)}
      [] st \in {"requeueParent", "refreshKey", "refreshParent", "refreshChildren", "makeReady",
                 "cancelActions", "pick"} -> Actions
      [] st \in {"takeLease", "renewLease", "insertLease"} -> {Lease(t.key)}
      [] st = "deleteLeases" -> LeaseRows
      [] st = "deleteBatches" -> BatchRows
      [] st = "cascade" -> Actions \cup LeaseRows
      [] st \in {"recordPeak", "raisePeak"} -> {Hint(t.key)}
      [] st \in {"useHints", "deleteHints"} -> Hints
      [] st = "admit" -> {Admission}

\* The shape of transactions and sessions.
IsTxn(t) ==
    /\ t = [kind |-> t.kind, key |-> t.key, parent |-> t.parent, keys |-> t.keys,
            stale |-> t.stale]
    /\ t.kind # "retain" => t.keys \subseteq Keys
    /\ t.kind = "none" \/ t.kind \in BatchKinds \cup HintKinds \cup {"claim", "heartbeat"}

IsSession(q) ==
    /\ DOMAIN q = {"txn", "left", "snap", "next", "todo", "found", "own"}
    /\ IsTxn(q.txn) /\ DOMAIN q.own \subseteq Rows

\* The rows a session has still to visit for its statement.
Visits(q) == IF q.next = NoRow THEN {} ELSE {q.next} \cup q.todo

\* A transaction t at st, which holds the rows own and has to visit P, in the rows w.
Fits(t, st, own, w, P) ==
    LET L == DOMAIN own
    IN  /\ t.kind = "none" => L = {} /\ st = "end"
        /\ t.kind \in HintKinds => L \subseteq Hints
        /\ t.kind = "heartbeat" => /\ L \subseteq LeaseRows /\ (st # "end" => L = {})
                                   /\ \A r \in L : own[r] = w[r]
        /\ t.kind = "claim" => /\ ClaimAt(st, t.key, own, w)
                               /\ st = "pick" /\ P = {} => L \cap Actions = {}
        /\ t.kind \in BatchKinds => /\ BatchAt(st, t.key, own, w)
                                    /\ P # {} => Pending(st, own, w, P)

\* What the rows found by a statement that the transaction may end with have to be.
Finds(st, found, own) ==
    /\ st \in {"takeLease", "pick"} => found = {}
    /\ st = "deleteBatches" => found \subseteq DOMAIN own

\* What every session is in the committed rows w.
Sane(q, w) ==
    /\ IsSession(q)
    /\ Ordered(q.txn, q.left)
    /\ q.next = NoRow => q.todo = {}
    /\ q.next # NoRow => /\ q.left # <<>> /\ Visits(q) \subseteq Foot(At(q), q.txn) \ DOMAIN q.own
                         /\ q.next \notin q.todo
                         /\ Finds(At(q), q.found, q.own)
    /\ Fits(q.txn, At(q), q.own, w, Visits(q))

\* No two sessions hold the same row.
Exclusive == \A s, u \in Sessions : s # u => Locked(s) \cap Locked(u) = {}

\* The inductive invariant.
LocksInv ==
    /\ row = [r \in Rows |-> row[r]] /\ Quiet(row)
    /\ session = [s \in Sessions |-> session[s]]
    /\ Exclusive
    /\ \A s \in Sessions : Sane(session[s], row)

-----------------------------------------------------------------------------

\* The rows of the tables have different names.
LEMMA RowNames ==
    /\ Batch # Admission
    /\ \A k \in Keys : /\ Action(k) \notin {Batch, Admission} /\ Action(k)[2] = k
                       /\ Lease(k) \notin {Batch, Admission}
                       /\ Hint(k) \notin {Batch, Admission}
    /\ \A b : /\ Other(b) \notin {Batch, Admission}
              /\ \A k \in Keys : Other(b) \notin {Action(k), Lease(k), Hint(k)}
    /\ \A j, k \in Keys : /\ Action(j) # Lease(k) /\ Action(j) # Hint(k) /\ Lease(j) # Hint(k)
                          /\ Action(j) = Action(k) => j = k
                          /\ Lease(j) = Lease(k) => j = k
                          /\ Hint(j) = Hint(k) => j = k
BY SMT DEF Batch, Admission, Action, Lease, Hint, Other

\* The tables are disjoint.
LEMMA RowSets ==
    /\ Actions \cap LeaseRows = {} /\ Actions \cap Hints = {} /\ LeaseRows \cap Hints = {}
    /\ {Batch, Admission} \cap (Actions \cup LeaseRows \cup Hints) = {}
    /\ Others \cap ({Batch, Admission} \cup Actions \cup LeaseRows \cup Hints) = {}
    /\ BatchRows = {Batch} \cup Others
    /\ Rows = {Batch, Admission} \cup Others \cup Actions \cup LeaseRows \cup Hints
    /\ \A k \in Keys : Action(k) \in Actions /\ Lease(k) \in LeaseRows /\ Hint(k) \in Hints
BY RowNames, SMT DEF Actions, LeaseRows, Hints, Others, BatchRows, Rows

Statements == BatchStatements \cup {"admit", "pick", "insertLease", "renewLease", "useHints",
                                    "deleteHints"}
Keyed(st, t) == /\ st \in OfKey => t.key \in Keys
                /\ st \in OfParent => t.parent \in Keys
                /\ st \notin OfRetain => t.keys \subseteq Keys

\* A statement locks no row outside its Foot.
LEMMA TouchesFoot ==
    ASSUME NEW st \in Statements, NEW t, NEW v, Keyed(st, t)
    PROVE  Touches(st, t, v) \subseteq Foot(st, t)
<1> USE DEF Touches, Foot, Keyed, First, OfKey, KeyFree, OfParent, OfRetain
<1>1. CASE st \in First BY <1>1
<1>2. CASE st \in {"endBatch", "finishIfDone"} BY <1>2
<1>3. CASE st \in {"noteResult", "setDone", "setHigh", "setWaiting", "setFailed", "lockIfRuns",
                 "lockIfDone"} BY <1>3
<1>4. CASE st = "requeueParent" BY <1>4 DEF Actions
<1>5. CASE st \in {"refreshKey", "refreshParent"} BY <1>5 DEF Actions
<1>6. CASE st = "refreshChildren" BY <1>6 DEF Actions
<1>7. CASE st = "makeReady" BY <1>7 DEF Actions
<1>8. CASE st = "cancelActions" BY <1>8 DEF Actions
<1>9. CASE st = "pick" BY <1>9 DEF Actions
<1>10. CASE st \in {"takeLease", "renewLease", "insertLease"} BY <1>10
<1>11. CASE st = "deleteLeases" BY <1>11
<1>12. CASE st = "cascade" BY <1>12
<1>13. CASE st \in {"recordPeak", "raisePeak"} BY <1>13
<1>14. CASE st \in {"useHints", "deleteHints"} BY <1>14
<1>15. CASE st = "admit" BY <1>15
<1>16. CASE st = "deleteBatches" BY <1>16
<1> QED
  BY <1>1, <1>2, <1>3, <1>4, <1>5, <1>6, <1>7, <1>8, <1>9, <1>10, <1>11, <1>12, <1>13, <1>14,
     <1>15, <1>16
  DEF Statements, BatchStatements, OnRunning, Work

Eval(st, t, v, x) == IF x \in Touches(st, t, v) THEN Written(st, t, v, x) ELSE v[x]

\* SELECT ... FOR UPDATE and the like: statements that only lock.
LEMMA Locks ==
    ASSUME NEW st \in {"lockBatch", "lockRunning", "noteResult", "lockIfRuns", "lockIfDone",
                       "setHigh", "renewLease", "admit"}, NEW t, NEW v, NEW x
    PROVE  Eval(st, t, v, x) = v[x]
BY DEF Eval, Written

\* _record_peak writes the hint of its theory and nothing else.
LEMMA WritesHints ==
    ASSUME NEW st \in {"recordPeak", "raisePeak", "useHints", "deleteHints"}, NEW t, NEW v, NEW x,
           x \notin Hints, st \in {"recordPeak", "raisePeak"} => t.key \in Keys
    PROVE  Eval(st, t, v, x) = v[x]
BY DEF Eval, Touches, Hints

\* An action with another state or count is an action.
LEMMA StateSet ==
    ASSUME NEW a, IsAction(a), NEW c, NEW n
    PROVE  /\ IsAction([a EXCEPT !.state = c]) /\ [a EXCEPT !.state = c].state = c
           /\ IsAction([a EXCEPT !.deps = n, !.state = c])
<1>1. PICK st, d : st = a.state /\ d = a.deps OBVIOUS
<1>2. a = [state |-> st, deps |-> d] BY <1>1, Zenon DEF IsAction
<1> HIDE <1>1
<1>3. [a EXCEPT !.state = c] = [state |-> c, deps |-> d] BY <1>2, SMT
<1>4. [a EXCEPT !.deps = n, !.state = c] = [state |-> c, deps |-> n]
  <2>1. PICK b : b = [a EXCEPT !.deps = n] OBVIOUS
  <2>2. b = [state |-> st, deps |-> n] BY <1>2, <2>1, SMT
  <2>3. [a EXCEPT !.deps = n, !.state = c] = [b EXCEPT !.state = c] BY <1>2, <2>1
  <2>4. [b EXCEPT !.state = c] = [state |-> c, deps |-> n] BY <2>2, SMT
  <2> QED BY <2>3, <2>4
<1>5. \A y, z : IsAction([state |-> y, deps |-> z]) BY SMT DEF IsAction
<1> QED BY <1>3, <1>4, <1>5, SMT

Moves == {"setDone", "setWaiting", "setFailed"}
Settles == Moves \cup {"requeueParent", "refreshKey", "refreshParent",
                       "refreshChildren", "makeReady"}

\* REFRESH, requeue and the statements that set an action's state leave it its columns, and
\* only the action a completion or an expiry is about stops running by them.
LEMMA WritesActions ==
    ASSUME NEW st \in Settles, NEW t, NEW v, NEW x, x \in Actions => IsAction(v[x]), Keyed(st, t)
    PROVE  /\ x \notin Actions => Eval(st, t, v, x) = v[x]
           /\ x \in Actions =>
                 /\ IsAction(Eval(st, t, v, x))
                 /\ v[x].state = "running" => \/ Eval(st, t, v, x) = v[x]
                                              \/ st \in Moves /\ x = Action(t.key)
<1>1. x \notin Actions => x \notin Touches(st, t, v)
  <2>1. Foot(st, t) \subseteq Actions
    BY DEF Settles, Moves, Foot, First, Keyed, OfKey, KeyFree, Actions
  <2>2. st \in Statements BY DEF Settles, Moves, Statements, BatchStatements, OnRunning, Work
  <2> QED BY <2>1, <2>2, TouchesFoot
<1>2. SUFFICES ASSUME x \in Actions, x \in Touches(st, t, v)
               PROVE  /\ IsAction(Written(st, t, v, x))
                      /\ v[x].state = "running" => st \in Moves /\ x = Action(t.key)
  BY <1>1 DEF Eval
<1>3. CASE st \in Moves
  <2>1. x = Action(t.key) BY <1>2, <1>3 DEF Touches, Moves
  <2>2. PICK c : Written(st, t, v, x) = [v[x] EXCEPT !.state = c] BY <1>3 DEF Written, Moves
  <2>3. IsAction([v[x] EXCEPT !.state = c]) BY <1>2, StateSet
  <2>4. IsAction(Written(st, t, v, x)) BY <2>2, <2>3, Zenon
  <2> QED BY <1>3, <2>1, <2>4
<1>4. CASE st \in {"refreshKey", "refreshParent", "refreshChildren"}
  <2>1. PICK k \in Keys : x = Action(k) BY <1>2 DEF Actions
  <2>2. x[2] = k BY <2>1, RowNames
  <2>3. v[x].state \in {"waiting", "ready"} BY <1>2, <1>4 DEF Touches
  <2>4. Written(st, t, v, x) = Refreshed(v, k) BY <1>4, <2>2 DEF Written
  <2>5. PICK n, c : Refreshed(v, k) = [v[x] EXCEPT !.deps = n, !.state = c]
    <3>1. PICK n : n = Cardinality(NotDone(v, k)) OBVIOUS
    <3>2. Refreshed(v, k) = [v[x] EXCEPT !.deps = n, !.state = IF n > 0 THEN "waiting" ELSE @]
      BY <2>1, <3>1, Zenon DEF Refreshed
    <3>3. Refreshed(v, k) = [v[x] EXCEPT !.deps = n,
                                   !.state = IF n > 0 THEN "waiting" ELSE v[x].state]
      BY <1>2, <3>2 DEF IsAction
    <3> QED BY <3>3, Zenon
  <2>6. IsAction([v[x] EXCEPT !.deps = n, !.state = c]) BY <1>2, StateSet
  <2>7. IsAction(Written(st, t, v, x)) BY <2>4, <2>5, <2>6, Zenon
  <2> QED BY <2>3, <2>7
<1>5. CASE st \in {"requeueParent", "makeReady"}
  <2>1. v[x].state # "running" BY <1>2, <1>5 DEF Touches
  <2>2. PICK c : Written(st, t, v, x) = [v[x] EXCEPT !.state = c] BY <1>5 DEF Written
  <2>3. IsAction([v[x] EXCEPT !.state = c]) BY <1>2, StateSet
  <2>4. IsAction(Written(st, t, v, x)) BY <2>2, <2>3, Zenon
  <2> QED BY <2>1, <2>4
<1> QED BY <1>3, <1>4, <1>5 DEF Settles

\* The rows own became own2 when statement st of t looked at the rows R.
Wrote(st, t, own, own2, w, R) ==
    /\ DOMAIN own \subseteq Rows /\ R \subseteq DOMAIN own \cup Foot(st, t) /\ R \subseteq Rows
    /\ DOMAIN own2 = DOMAIN own \cup R
    /\ \A x \in DOMAIN own \ R : own2[x] = own[x]
    /\ \A x \in R : \E v : /\ v[x] = Over(own, w)[x] /\ own2[x] = Eval(st, t, v, x)
                           /\ st = "finishIfDone" => v = Over(own, w)

\* What a transaction sees of the rows after a statement.
LEMMA OverWrote ==
    ASSUME NEW st, NEW t, NEW own, NEW own2, NEW w, NEW R, Wrote(st, t, own, own2, w, R)
    PROVE  \A x \in Rows : /\ x \in DOMAIN own2 => Over(own2, w)[x] = own2[x]
                           /\ x \notin DOMAIN own2 => Over(own2, w)[x] = w[x]
                           /\ x \in DOMAIN own => Over(own, w)[x] = own[x]
                           /\ x \notin DOMAIN own => Over(own, w)[x] = w[x]
                           /\ x \notin R => Over(own2, w)[x] = Over(own, w)[x]
BY DEF Wrote, Over

\* What statements that only lock or that write hints leave.
LEMMA KeptRows ==
    ASSUME NEW st \in {"lockBatch", "lockRunning", "noteResult", "lockIfRuns", "lockIfDone",
                       "setHigh", "recordPeak", "raisePeak"},
           NEW t, Keyed(st, t), NEW own, NEW own2, NEW w, NEW R, Wrote(st, t, own, own2, w, R)
    PROVE  \A x \in Rows : x \in Hints \/ Over(own2, w)[x] = Over(own, w)[x]
<1>1. SUFFICES ASSUME NEW x \in Rows, x \notin Hints, x \in R
               PROVE  Over(own2, w)[x] = Over(own, w)[x]
  BY OverWrote
<1>2. PICK v : v[x] = Over(own, w)[x] /\ own2[x] = Eval(st, t, v, x) BY <1>1 DEF Wrote
<1>3. Eval(st, t, v, x) = v[x]
  BY <1>1, Locks, WritesHints DEF Keyed, OfKey, KeyFree
<1>4. x \in DOMAIN own2 BY <1>1 DEF Wrote
<1> QED BY <1>1, <1>2, <1>3, <1>4, OverWrote

\* The actions have their columns and no lease is without a running action.
LEMMA KeptSound ==
    ASSUME NEW v, NEW v2, Typed(v), HeldRuns(v), \A x \in Rows : x \in Hints \/ v2[x] = v[x]
    PROVE  Typed(v2) /\ HeldRuns(v2)
<1>1. \A k \in Keys : v2[Action(k)] = v[Action(k)] /\ v2[Lease(k)] = v[Lease(k)]
  BY RowSets
<1> QED BY <1>1 DEF Typed, HeldRuns

\* A statement on actions leaves no lease without a running action: the lease of the action a
\* completion or an expiry is about is gone by then.
LEMMA SettlesSound ==
    ASSUME NEW st \in Settles, NEW t, Keyed(st, t), NEW own, NEW own2, NEW w, NEW R,
           Wrote(st, t, own, own2, w, R), Typed(Over(own, w)), HeldRuns(Over(own, w)),
           st \in KeyFree => Free(t.key, own)
    PROVE  /\ Typed(Over(own2, w)) /\ HeldRuns(Over(own2, w))
           /\ \A x \in Rows : x \in Actions \/ Over(own2, w)[x] = Over(own, w)[x]
<1> DEFINE v == Over(own, w)
           v2 == Over(own2, w)
<1>1. ASSUME NEW x \in Rows
      PROVE  /\ x \notin Actions => v2[x] = v[x]
             /\ x \in Actions => /\ IsAction(v2[x])
                                 /\ v[x].state = "running" => \/ v2[x] = v[x]
                                                              \/ st \in Moves /\ x = Action(t.key)
  <2>1. x \in Actions => IsAction(v[x]) BY DEF Typed, Actions
  <2>2. CASE x \notin R
    <3>1. v2[x] = v[x] BY <1>1, <2>2, OverWrote
    <3> QED BY <2>1, <3>1
  <2>3. CASE x \in R
    <3>1. PICK y : y[x] = v[x] /\ own2[x] = Eval(st, t, y, x) BY <2>3 DEF Wrote
    <3>2. v2[x] = own2[x]
      <4>1. x \in DOMAIN own2 BY <2>3 DEF Wrote
      <4> QED BY <1>1, <4>1, OverWrote
    <3> HIDE DEF v, v2
    <3>3. x \in Actions => IsAction(y[x]) BY <2>1, <3>1
    <3>4. /\ x \notin Actions => Eval(st, t, y, x) = y[x]
          /\ x \in Actions =>
                /\ IsAction(Eval(st, t, y, x))
                /\ y[x].state = "running" => \/ Eval(st, t, y, x) = y[x]
                                             \/ st \in Moves /\ x = Action(t.key)
      BY <3>3, WritesActions
    <3> QED BY <3>1, <3>2, <3>4
  <2> QED BY <2>2, <2>3
<1>2. Typed(v2)
  <2> HIDE DEF v2
  <2> QED BY <1>1, RowSets DEF Typed
<1>3. HeldRuns(v2)
  <2>1. SUFFICES ASSUME NEW k \in Keys, v2[Lease(k)] = "held" PROVE v2[Action(k)].state = "running"
    BY DEF HeldRuns
  <2>2. v2[Lease(k)] = v[Lease(k)]
    <3> HIDE DEF v, v2
    <3> QED BY <1>1, RowSets
  <2>3. v[Action(k)].state = "running" BY <2>1, <2>2 DEF HeldRuns
  <2>4. ~(st \in Moves /\ Action(k) = Action(t.key))
    <3>1. SUFFICES ASSUME st \in Moves, Action(k) = Action(t.key) PROVE FALSE OBVIOUS
    <3>2. t.key = k BY <3>1, RowNames DEF Moves, Keyed, OfKey, KeyFree
    <3>3. Free(k, own) BY <3>1, <3>2 DEF Moves, KeyFree
    <3>4. Lease(k) \in Rows /\ Action(k) \in Rows BY RowSets
    <3>5. (Lease(k) \in DOMAIN own => v[Lease(k)] = own[Lease(k)])
          /\ (Action(k) \in DOMAIN own => v[Action(k)] = own[Action(k)])
      BY <3>4, OverWrote
    <3> HIDE DEF v, v2
    <3> QED BY <2>1, <2>2, <2>3, <3>3, <3>5 DEF Free
  <2>5. Action(k) \in Rows /\ Action(k) \in Actions BY RowSets
  <2> HIDE DEF v, v2
  <2> QED BY <1>1, <2>3, <2>4, <2>5
<1>4. \A x \in Rows : x \in Actions \/ v2[x] = v[x] BY <1>1
<1> QED BY <1>2, <1>3, <1>4

\* The statements in the middle of a transaction on a running batch.
LEMMA WorkStep ==
    ASSUME NEW st \in Work \ {"endBatch", "finishIfDone"}, NEW t, Keyed(st, t),
           NEW own, NEW own2, NEW w, NEW R,
           Wrote(st, t, own, own2, w, R), BatchAt(st, t.key, own, w)
    PROVE  /\ Working(own2, w)
           /\ st \notin {"recordPeak", "raisePeak"} =>
                 DOMAIN own2 \cap Hints = DOMAIN own \cap Hints
           /\ st \in KeyFree \ Moves => Free(t.key, own2)
<1>0. /\ Working(own, w) /\ (st \in KeyFree => Free(t.key, own)) /\ st \in Work
  BY DEF BatchAt
<1>1. st \in Settles \/ st \in {"noteResult", "lockIfRuns", "lockIfDone", "setHigh", "recordPeak",
                                "raisePeak"}
  BY DEF Work, Settles, Moves
<1> DEFINE v == Over(own, w)
           v2 == Over(own2, w)
<1>2. /\ Typed(v2) /\ HeldRuns(v2)
      /\ st \in Settles => \A x \in Rows : x \in Actions \/ v2[x] = v[x]
      /\ st \notin Settles => \A x \in Rows : x \in Hints \/ v2[x] = v[x]
  <2>1. Typed(v) /\ HeldRuns(v) BY <1>0 DEF Working
  <2>2. CASE st \in Settles BY <1>0, <2>1, <2>2, SettlesSound
  <2>3. CASE st \notin Settles
    <3>1. \A x \in Rows : x \in Hints \/ v2[x] = v[x] BY <1>1, <2>3, KeptRows
    <3> HIDE DEF v, v2
    <3> QED BY <2>1, <2>3, <3>1, KeptSound
  <2> QED BY <2>2, <2>3
<1>3. Foot(st, t) \subseteq IF st \in {"recordPeak", "raisePeak"} THEN Hints ELSE Actions
  BY <1>1, RowSets DEF Foot, Settles, Moves, First, Keyed, OfKey, KeyFree
<1>4. /\ DOMAIN own2 = DOMAIN own \cup R /\ R \subseteq DOMAIN own \cup Foot(st, t)
      /\ DOMAIN own \subseteq Rows /\ R \subseteq Rows
  BY DEF Wrote
<1>5. \A x \in Rows : /\ x \in DOMAIN own2 => v2[x] = own2[x]
                      /\ x \in DOMAIN own => v[x] = own[x]
  BY OverWrote
<1>6. Batch \in Rows /\ Batch \notin Hints /\ Batch \notin Actions BY RowSets
<1>7. \A k \in Keys : /\ Lease(k) \in Rows /\ Lease(k) \notin Hints /\ Lease(k) \notin Actions
                      /\ Action(k) \in Rows /\ Action(k) \notin Hints
  BY RowSets
<1> HIDE DEF v, v2
<1>8. Batch \in DOMAIN own2 /\ own2[Batch] = "running" /\ w[Batch] = "running"
  BY <1>0, <1>2, <1>4, <1>5, <1>6 DEF Working
<1>9. Shape(own2) /\ TookHeld(own2, w)
  <2>1. Shape(own2) BY <1>0, <1>3, <1>4 DEF Working, Shape
  <2>2. \A k \in Keys : Lease(k) \in DOMAIN own2 => Lease(k) \in DOMAIN own
    BY <1>3, <1>4, <1>7
  <2> QED BY <1>0, <2>1, <2>2 DEF Working, TookHeld
<1>10. st \notin {"recordPeak", "raisePeak"} => DOMAIN own2 \cap Hints = DOMAIN own \cap Hints
  BY <1>3, <1>4, RowSets
<1>11. st \in KeyFree \ Moves => Free(t.key, own2)
  <2>1. SUFFICES ASSUME st \in KeyFree \ Moves PROVE Free(t.key, own2) OBVIOUS
  <2>2. st \notin Settles /\ t.key \in Keys
    BY <2>1 DEF KeyFree, Moves, Settles, Keyed, OfKey
  <2>3. Free(t.key, own) BY <1>0, <2>1
  <2>4. \A x \in {Lease(t.key), Action(t.key)} :
            x \in DOMAIN own => x \in DOMAIN own2 /\ own2[x] = own[x]
    BY <1>2, <1>4, <1>5, <1>7, <2>2
  <2> QED BY <2>3, <2>4 DEF Free
<1> QED BY <1>2, <1>8, <1>9, <1>10, <1>11 DEF Working, v2

\* Which statement follows which, one by one.
LEMMA FollowsFacts ==
    /\ Follows["lockBatch"] = {"takeLease"}
    /\ Follows["lockRunning"] = {"endBatch", "makeReady", "lockIfDone"}
    /\ Follows["takeLease"] = {"noteResult", "lockIfRuns"}
    /\ Follows["noteResult"] = {"setDone", "raisePeak", "setWaiting", "setFailed"}
    /\ Follows["lockIfRuns"] = {"setWaiting", "setFailed"}
    /\ Follows["lockIfDone"] = {"requeueParent", "setFailed"}
    /\ Follows["setDone"] = {"recordPeak"} /\ Follows["recordPeak"] = {"refreshChildren"}
    /\ Follows["raisePeak"] = {"setHigh"} /\ Follows["setHigh"] = {"setWaiting"}
    /\ Follows["setWaiting"] = {"refreshKey", "requeueParent"}
    /\ Follows["requeueParent"] = {"refreshParent"} /\ Follows["refreshKey"] = {}
    /\ Follows["refreshParent"] = {"refreshChildren"}
    /\ Follows["refreshChildren"] = {"finishIfDone"} /\ Follows["finishIfDone"] = {}
    /\ Follows["setFailed"] = {"endBatch", "finishIfDone"}
    /\ Follows["endBatch"] = {"cancelActions"} /\ Follows["cancelActions"] = {"deleteLeases"}
    /\ Follows["deleteLeases"] = {} /\ Follows["makeReady"] = {}
    /\ Follows["deleteBatches"] = {"cascade"} /\ Follows["cascade"] = {}
    /\ Follows["admit"] = {"pick"} /\ Follows["pick"] = {"insertLease"}
    /\ Follows["insertLease"] = {} /\ Follows["renewLease"] = {}
    /\ Follows["useHints"] = {} /\ Follows["deleteHints"] = {}
BY SMT DEF Follows

\* Two paths one of which leads to the other.
LEMMA JoinedPath ==
    ASSUME NEW t, NEW a, NEW b, Path(t, a), Path(t, b), a # <<>>, b # <<>>,
           b[1] \in Follows[a[Len(a)]]
    PROVE  /\ Path(t, a \o b) /\ a \o b # <<>>
           /\ (a \o b)[Len(a \o b)] = b[Len(b)]
<1> DEFINE S == StatementsOf(t.kind)
           p == a \o b
<1>1. /\ a \in Seq(S) /\ b \in Seq(S) /\ Len(a) \in Nat /\ Len(b) \in Nat
      /\ Len(a) > 0 /\ Len(b) > 0
  BY SMT DEF Path
<1>2. /\ p \in Seq(S) /\ Len(p) = Len(a) + Len(b)
      /\ \A i \in 1..Len(a) : p[i] = a[i]
      /\ \A i \in 1..Len(b) : p[Len(a) + i] = b[i]
  BY <1>1, SMT
<1> HIDE DEF p
<1>3. \A i \in 1..Len(p) : (i \in 1..Len(a) /\ p[i] = a[i])
                           \/ (i - Len(a) \in 1..Len(b) /\ p[i] = b[i - Len(a)])
  <2>1. SUFFICES ASSUME NEW i \in 1..Len(p), ~(i \in 1..Len(a))
                 PROVE  i - Len(a) \in 1..Len(b) /\ p[i] = b[i - Len(a)]
    BY <1>2
  <2>2. i - Len(a) \in 1..Len(b) /\ Len(a) + (i - Len(a)) = i
    BY <1>1, <1>2, <2>1, SMT
  <2> QED BY <1>2, <2>2
<1>4. ASSUME NEW i \in 1..(Len(p) - 1) PROVE p[i + 1] \in Follows[p[i]]
  <2>1. CASE i < Len(a)
    <3>1. i \in 1..(Len(a) - 1) /\ i \in 1..Len(a) /\ i + 1 \in 1..Len(a)
      BY <1>1, <1>2, <2>1, SMT
    <3>2. p[i] = a[i] /\ p[i + 1] = a[i + 1] BY <1>2, <3>1
    <3> QED BY <3>1, <3>2 DEF Path
  <2>2. CASE i = Len(a)
    <3>1. i \in 1..Len(a) /\ 1 \in 1..Len(b) BY <1>1, <2>2, SMT
    <3>2. p[i] = a[Len(a)] /\ p[i + 1] = b[1] BY <1>2, <2>2, <3>1
    <3> QED BY <3>2
  <2>3. CASE i > Len(a)
    <3>0. PICK j : j = i - Len(a) OBVIOUS
    <3>1. j \in 1..(Len(b) - 1) /\ j \in 1..Len(b) /\ j + 1 \in 1..Len(b)
          /\ Len(a) + j = i /\ Len(a) + (j + 1) = i + 1
      <4>1. PICK m \in Nat, n \in Nat : m = Len(a) /\ n = Len(b) BY <1>1
      <4>2. i \in 1..(m + n - 1) /\ i > m /\ j = i - m BY <1>2, <2>3, <3>0, <4>1
      <4>3. /\ j \in 1..(n - 1) /\ j \in 1..n /\ j + 1 \in 1..n
            /\ m + j = i /\ m + (j + 1) = i + 1
        BY <4>2, SMT
      <4> QED BY <4>1, <4>3
    <3>2. p[i] = b[j] /\ p[i + 1] = b[j + 1] BY <1>2, <3>1
    <3> QED BY <3>1, <3>2 DEF Path
  <2> QED BY <1>1, <1>2, <2>1, <2>2, <2>3, SMT
<1>5. \A i \in 1..Len(p) : /\ p[i] \in OfKey => t.key \in Keys
                           /\ p[i] \in OfParent => t.parent \in Keys
  BY <1>3 DEF Path
<1>6. p[Len(p)] = b[Len(b)]
  <2>1. Len(b) \in 1..Len(b) BY <1>1, SMT
  <2> QED BY <1>2, <2>1
<1>7. p # <<>> BY <1>1, <1>2, SMT
<1> QED BY <1>2, <1>4, <1>5, <1>6, <1>7 DEF Path, p

\* A path that leads to a program is one.
LEMMA Joined ==
    ASSUME NEW t, NEW a, NEW b, Path(t, a), Ordered(t, b), a # <<>>, b # <<>>,
           b[1] \in Follows[a[Len(a)]]
    PROVE  Ordered(t, a \o b)
<1>1. Path(t, b) /\ b[Len(b)] \notin NeverLast BY DEF Ordered
<1>2. Path(t, a \o b) BY <1>1, JoinedPath
<1>3. (a \o b)[Len(a \o b)] = b[Len(b)] BY <1>1, JoinedPath
<1> QED BY <1>1, <1>2, <1>3 DEF Ordered

\* The pieces the programs are put together from.
LEMMA Parts ==
    ASSUME NEW t, t.kind \in BatchKinds \ {"retain"}
    PROVE  /\ t.key \in Keys => /\ Path(t, TakeResult) /\ Path(t, TakeExpired)
                                /\ Ordered(t, Retry) /\ Path(t, <<"raisePeak", "setHigh">>)
                                /\ Ordered(t, <<"setDone", "recordPeak", "refreshChildren",
                                                "finishIfDone">>)
                                /\ Path(t, <<"setWaiting">>) /\ Path(t, <<"setFailed">>)
                                /\ Path(t, <<"lockRunning", "lockIfDone">>)
                                /\ Path(t, <<"lockRunning", "lockIfDone", "setFailed">>)
           /\ t.parent \in Keys => Ordered(t, Requeue)
           /\ Ordered(t, EndBatch) /\ Ordered(t, ReleaseBatch) /\ Path(t, <<"lockRunning">>)
           /\ Ordered(t, <<"finishIfDone">>)
<1>1. StatementsOf(t.kind) = OnRunning
  BY DEF StatementsOf, BatchKinds, HintKinds
<1> USE <1>1, FollowsFacts
<1> USE DEF Path, Ordered, OnRunning, First, Work, OfKey, KeyFree, OfParent, NeverLast
<1>2. ASSUME t.key \in Keys PROVE Path(t, TakeResult) BY <1>2, SMT DEF TakeResult
<1>3. ASSUME t.key \in Keys PROVE Path(t, TakeExpired) BY <1>3, SMT DEF TakeExpired
<1>4. ASSUME t.key \in Keys PROVE Ordered(t, Retry) BY <1>4, SMT DEF Retry
<1>5. ASSUME t.key \in Keys PROVE Path(t, <<"raisePeak", "setHigh">>) BY <1>5, SMT
<1>6. ASSUME t.key \in Keys
      PROVE  Ordered(t, <<"setDone", "recordPeak", "refreshChildren", "finishIfDone">>)
  BY <1>6, SMT
<1>7. ASSUME t.key \in Keys PROVE Path(t, <<"setWaiting">>) /\ Path(t, <<"setFailed">>)
  BY <1>7, SMT
<1>8. ASSUME t.key \in Keys
      PROVE  /\ Path(t, <<"lockRunning", "lockIfDone">>)
             /\ Path(t, <<"lockRunning", "lockIfDone", "setFailed">>)
  BY <1>8, SMT
<1>9. ASSUME t.parent \in Keys PROVE Ordered(t, Requeue) BY <1>9, SMT DEF Requeue
<1>10. Ordered(t, EndBatch) BY SMT DEF EndBatch
<1>11. Ordered(t, ReleaseBatch) BY SMT DEF ReleaseBatch
<1>12. Path(t, <<"lockRunning">>) BY SMT
<1>13. Ordered(t, <<"finishIfDone">>) BY SMT
<1> QED
  BY <1>2, <1>3, <1>4, <1>5, <1>6, <1>7, <1>8, <1>9, <1>10, <1>11, <1>12, <1>13, Zenon

\* What the programs need of the transaction.
Askable(t) ==
    /\ t.kind \in BatchKinds \cup HintKinds \cup {"claim", "heartbeat"}
    /\ t.kind \in OfLease \cup {"missing", "missingFinal", "evicted", "evictedFinal"} =>
          t.key \in Keys /\ t.parent \in Keys

\* Where the pieces begin and end.
LEMMA Ends ==
    /\ TakeResult # <<>> /\ TakeResult[Len(TakeResult)] = "noteResult"
    /\ TakeExpired # <<>> /\ TakeExpired[Len(TakeExpired)] = "lockIfRuns"
    /\ Retry # <<>> /\ Retry[1] = "setWaiting"
    /\ Requeue # <<>> /\ Requeue[1] = "requeueParent"
    /\ EndBatch # <<>> /\ EndBatch[1] = "endBatch"
BY SMT DEF TakeResult, TakeExpired, Retry, Requeue, EndBatch

\* _fail: the action, then the batch, which ends or may be finished.
LEMMA FailOrdered ==
    ASSUME NEW t, t.kind \in BatchKinds \ {"retain"}, t.key \in Keys
    PROVE  Ordered(t, Fail) /\ Fail # <<>> /\ Fail[1] = "setFailed"
<1>1. /\ Path(t, <<"setFailed">>) /\ Ordered(t, EndBatch) /\ Ordered(t, <<"finishIfDone">>)
  BY Parts, Zenon
<1>2. /\ <<"setFailed">> # <<>> /\ <<"finishIfDone">> # <<>>
      /\ <<"finishIfDone">>[1] = "finishIfDone"
      /\ <<"setFailed">>[Len(<<"setFailed">>)] = "setFailed"
  BY SMT
<1>3. CASE class = "build"
  <2>1. Fail = <<"setFailed">> \o EndBatch BY <1>3 DEF Fail
  <2>2. EndBatch[1] \in Follows[<<"setFailed">>[Len(<<"setFailed">>)]]
    BY <1>2, Ends, FollowsFacts, SMT
  <2>3. Ordered(t, <<"setFailed">> \o EndBatch) BY <1>1, <1>2, <2>2, Ends, Joined, Zenon
  <2>4. /\ <<"setFailed">> \o EndBatch # <<>> /\ (<<"setFailed">> \o EndBatch)[1] = "setFailed"
    BY <1>1, SMT DEF EndBatch
  <2> QED BY <2>1, <2>3, <2>4, Zenon
<1>4. CASE class # "build"
  <2>1. Fail = <<"setFailed">> \o <<"finishIfDone">> BY <1>4 DEF Fail
  <2>2. <<"finishIfDone">>[1] \in Follows[<<"setFailed">>[Len(<<"setFailed">>)]]
    BY <1>2, FollowsFacts, SMT
  <2>3. Ordered(t, <<"setFailed">> \o <<"finishIfDone">>) BY <1>1, <1>2, <2>2, Joined, Zenon
  <2>4. /\ <<"setFailed">> \o <<"finishIfDone">> # <<>>
        /\ (<<"setFailed">> \o <<"finishIfDone">>)[1] = "setFailed"
    BY SMT
  <2> QED BY <2>1, <2>3, <2>4, Zenon
<1> QED BY <1>3, <1>4

\* Every program is in the order of Follows.
LEMMA ProgramOrdered ==
    ASSUME NEW t, Askable(t)
    PROVE  Ordered(t, Program(t.kind))
<1> DEFINE done == <<"setDone", "recordPeak", "refreshChildren", "finishIfDone">>
           high == <<"raisePeak", "setHigh">>
           wait == <<"setWaiting">>
           lock == <<"lockRunning">>
           lockDone == <<"lockRunning", "lockIfDone">>
           lockFailed == <<"lockRunning", "lockIfDone", "setFailed">>
           fail == <<"setFailed">>
           K == t.kind \in BatchKinds \ {"retain"}
<1>1. /\ done # <<>> /\ done[1] = "setDone"
      /\ high # <<>> /\ high[1] = "raisePeak" /\ high[Len(high)] = "setHigh"
      /\ wait # <<>> /\ wait[1] = "setWaiting" /\ wait[Len(wait)] = "setWaiting"
      /\ lock # <<>> /\ lock[Len(lock)] = "lockRunning"
      /\ lockDone # <<>> /\ lockDone[Len(lockDone)] = "lockIfDone"
      /\ lockFailed # <<>> /\ lockFailed[Len(lockFailed)] = "setFailed"
      /\ fail # <<>> /\ fail[1] = "setFailed" /\ fail[Len(fail)] = "setFailed"
  BY SMT
<1>2. K => Ordered(t, EndBatch) /\ Ordered(t, ReleaseBatch) /\ Path(t, lock)
  BY Parts, Zenon
<1>3. K /\ t.key \in Keys =>
         /\ Path(t, TakeResult) /\ Path(t, TakeExpired) /\ Ordered(t, Retry) /\ Path(t, high)
         /\ Ordered(t, done) /\ Path(t, wait) /\ Path(t, lockDone) /\ Path(t, lockFailed)
         /\ Path(t, fail) /\ Ordered(t, Fail) /\ Fail # <<>> /\ Fail[1] = "setFailed"
  BY Parts, FailOrdered, Zenon
<1>4. K /\ t.parent \in Keys => Ordered(t, Requeue)
  BY Parts, Zenon
<1>5. ASSUME K, t.key \in Keys
      PROVE  /\ Ordered(t, TakeResult \o done) /\ Ordered(t, TakeResult \o Retry)
             /\ Ordered(t, TakeResult \o Fail) /\ Ordered(t, TakeExpired \o Retry)
             /\ Ordered(t, TakeExpired \o Fail) /\ Ordered(t, lockFailed \o EndBatch)
  <2>1. /\ done[1] \in Follows[TakeResult[Len(TakeResult)]]
        /\ Retry[1] \in Follows[TakeResult[Len(TakeResult)]]
        /\ Fail[1] \in Follows[TakeResult[Len(TakeResult)]]
        /\ Retry[1] \in Follows[TakeExpired[Len(TakeExpired)]]
        /\ Fail[1] \in Follows[TakeExpired[Len(TakeExpired)]]
        /\ EndBatch[1] \in Follows[lockFailed[Len(lockFailed)]]
    <3> HIDE DEF done, lockFailed
    <3> QED BY <1>1, <1>3, <1>5, Ends, FollowsFacts, SMT
  <2> HIDE DEF done, high, wait, lock, lockDone, lockFailed
  <2>2. Ordered(t, TakeResult \o done) BY <1>1, <1>3, <1>5, <2>1, Ends, Joined, Zenon
  <2>3. Ordered(t, TakeResult \o Retry) BY <1>1, <1>3, <1>5, <2>1, Ends, Joined, Zenon
  <2>4. Ordered(t, TakeResult \o Fail) BY <1>1, <1>3, <1>5, <2>1, Ends, Joined, Zenon
  <2>5. Ordered(t, TakeExpired \o Retry) BY <1>1, <1>3, <1>5, <2>1, Ends, Joined, Zenon
  <2>6. Ordered(t, TakeExpired \o Fail) BY <1>1, <1>3, <1>5, <2>1, Ends, Joined, Zenon
  <2>7. Ordered(t, lockFailed \o EndBatch) BY <1>1, <1>2, <1>3, <1>5, <2>1, Ends, Joined, Zenon
  <2> QED BY <2>2, <2>3, <2>4, <2>5, <2>6, <2>7
<1>6. ASSUME K, t.key \in Keys
      PROVE  Ordered(t, TakeResult \o high \o Retry)
  <2>1. high[1] \in Follows[TakeResult[Len(TakeResult)]]
    <3> HIDE DEF high
    <3> QED BY <1>1, Ends, FollowsFacts, SMT
  <2>2. Retry[1] \in Follows[high[Len(high)]]
    <3> HIDE DEF high
    <3> QED BY <1>1, Ends, FollowsFacts, SMT
  <2> HIDE DEF high
  <2>3. /\ Path(t, TakeResult \o high) /\ TakeResult \o high # <<>>
        /\ (TakeResult \o high)[Len(TakeResult \o high)] = high[Len(high)]
    <3>1. /\ Path(t, TakeResult) /\ Path(t, high) /\ TakeResult # <<>> /\ high # <<>>
          /\ high[1] \in Follows[TakeResult[Len(TakeResult)]]
      BY <1>1, <1>3, <1>6, <2>1, Ends, Zenon
    <3>2. Path(t, TakeResult \o high) BY <3>1, JoinedPath
    <3>3. TakeResult \o high # <<>> BY <3>1, JoinedPath
    <3>4. (TakeResult \o high)[Len(TakeResult \o high)] = high[Len(high)] BY <3>1, JoinedPath
    <3> QED BY <3>2, <3>3, <3>4
  <2>4. Retry[1] \in Follows[(TakeResult \o high)[Len(TakeResult \o high)]]
    BY <2>2, <2>3, Zenon
  <2> QED BY <1>3, <1>6, <2>3, <2>4, Ends, Joined, Zenon
<1>7. ASSUME K, t.key \in Keys, t.parent \in Keys
      PROVE  Ordered(t, TakeResult \o wait \o Requeue) /\ Ordered(t, lockDone \o Requeue)
  <2>1. /\ wait[1] \in Follows[TakeResult[Len(TakeResult)]]
        /\ Requeue[1] \in Follows[wait[Len(wait)]]
        /\ Requeue[1] \in Follows[lockDone[Len(lockDone)]]
    <3> HIDE DEF wait, lockDone
    <3> QED BY <1>1, Ends, FollowsFacts, SMT
  <2> HIDE DEF wait, lockDone
  <2>3. /\ Path(t, TakeResult \o wait) /\ TakeResult \o wait # <<>>
        /\ (TakeResult \o wait)[Len(TakeResult \o wait)] = wait[Len(wait)]
    <3>1. /\ Path(t, TakeResult) /\ Path(t, wait) /\ TakeResult # <<>> /\ wait # <<>>
          /\ wait[1] \in Follows[TakeResult[Len(TakeResult)]]
      BY <1>1, <1>3, <1>7, <2>1, Ends, Zenon
    <3>2. Path(t, TakeResult \o wait) BY <3>1, JoinedPath
    <3>3. TakeResult \o wait # <<>> BY <3>1, JoinedPath
    <3>4. (TakeResult \o wait)[Len(TakeResult \o wait)] = wait[Len(wait)] BY <3>1, JoinedPath
    <3> QED BY <3>2, <3>3, <3>4
  <2>4. Requeue[1] \in Follows[(TakeResult \o wait)[Len(TakeResult \o wait)]]
    BY <2>1, <2>3, Zenon
  <2>5. Ordered(t, TakeResult \o wait \o Requeue)
    BY <1>4, <1>7, <2>3, <2>4, Ends, Joined, Zenon
  <2>6. Ordered(t, lockDone \o Requeue)
    BY <1>1, <1>3, <1>4, <1>7, <2>1, Ends, Joined, Zenon
  <2> QED BY <2>5, <2>6
<1>8. ASSUME K PROVE Ordered(t, lock \o EndBatch)
  <2>1. EndBatch[1] \in Follows[lock[Len(lock)]]
    <3> HIDE DEF lock
    <3> QED BY <1>1, Ends, FollowsFacts, SMT
  <2> HIDE DEF lock
  <2> QED BY <1>1, <1>2, <1>8, <2>1, Ends, Joined, Zenon
<1>13. ASSUME K, t.key \in Keys
      PROVE  Ordered(t, TakeResult \o fail \o EndBatch)
  <2>1. fail[1] \in Follows[TakeResult[Len(TakeResult)]]
    <3> HIDE DEF fail
    <3> QED BY <1>1, Ends, FollowsFacts, SMT
  <2>2. EndBatch[1] \in Follows[fail[Len(fail)]]
    <3> HIDE DEF fail
    <3> QED BY <1>1, Ends, FollowsFacts, SMT
  <2> HIDE DEF fail
  <2>3. /\ Path(t, TakeResult \o fail) /\ TakeResult \o fail # <<>>
        /\ (TakeResult \o fail)[Len(TakeResult \o fail)] = fail[Len(fail)]
    <3>1. /\ Path(t, TakeResult) /\ Path(t, fail) /\ TakeResult # <<>> /\ fail # <<>>
          /\ fail[1] \in Follows[TakeResult[Len(TakeResult)]]
      BY <1>1, <1>3, <1>13, <2>1, Ends, Zenon
    <3>2. Path(t, TakeResult \o fail) BY <3>1, JoinedPath
    <3>3. TakeResult \o fail # <<>> BY <3>1, JoinedPath
    <3>4. (TakeResult \o fail)[Len(TakeResult \o fail)] = fail[Len(fail)] BY <3>1, JoinedPath
    <3> QED BY <3>2, <3>3, <3>4
  <2>4. EndBatch[1] \in Follows[(TakeResult \o fail)[Len(TakeResult \o fail)]]
    BY <2>2, <2>3, Zenon
  <2> QED BY <1>2, <1>13, <2>3, <2>4, Ends, Joined, Zenon
<1>9. ASSUME t.kind = "claim" PROVE Ordered(t, Program("claim"))
  <2>1. StatementsOf(t.kind) = {"admit", "pick", "insertLease"}
    BY <1>9 DEF StatementsOf, BatchKinds, HintKinds
  <2>2. Program("claim") = IF class = "build" THEN <<>> \o <<"pick", "insertLease">>
                                             ELSE <<"admit">> \o <<"pick", "insertLease">>
    BY DEF Program
  <2>3. ASSUME NEW p, p = <<"pick", "insertLease">> PROVE Ordered(t, p) /\ p # <<>> /\ p[1] = "pick"
    BY <2>1, <2>3, FollowsFacts, SMT DEF Path, Ordered, NeverLast, OfKey, KeyFree, OfParent
  <2>4. <<>> \o <<"pick", "insertLease">> = <<"pick", "insertLease">> BY SMT
  <2>5. ASSUME NEW p, p = <<"admit">>
        PROVE  Path(t, p) /\ p # <<>> /\ p[Len(p)] = "admit"
    BY <2>1, <2>5, SMT DEF Path, OfKey, KeyFree, OfParent
  <2>6. Ordered(t, <<"pick", "insertLease">>) /\ <<"pick", "insertLease">> # <<>>
        /\ <<"pick", "insertLease">>[1] = "pick"
    BY <2>3, Zenon
  <2>7. Path(t, <<"admit">>) /\ <<"admit">> # <<>> /\ <<"admit">>[Len(<<"admit">>)] = "admit"
    BY <2>5, Zenon
  <2>8. <<"pick", "insertLease">>[1] \in Follows[<<"admit">>[Len(<<"admit">>)]]
    <3>1. "pick" \in Follows["admit"] BY FollowsFacts
    <3> QED BY <2>6, <2>7, <3>1, Zenon
  <2>9. Ordered(t, <<"admit">> \o <<"pick", "insertLease">>)
    BY <2>6, <2>7, <2>8, Joined, Zenon
  <2> QED BY <2>2, <2>4, <2>6, <2>9, Zenon
<1>10. ASSUME t.kind = "heartbeat" PROVE Ordered(t, Program("heartbeat"))
  <2>1. StatementsOf(t.kind) = {"renewLease"} /\ t.key \in Keys
    BY <1>10 DEF StatementsOf, BatchKinds, HintKinds, Askable, OfLease
  <2>2. Program("heartbeat") = <<"renewLease">> BY DEF Program
  <2> QED BY <2>1, <2>2, SMT DEF Path, Ordered, NeverLast, OfParent
<1>11. ASSUME t.kind \in HintKinds PROVE Ordered(t, Program(t.kind))
  <2>1. StatementsOf(t.kind) = {"useHints", "deleteHints"}
    BY <1>11 DEF StatementsOf, BatchKinds, HintKinds
  <2>2. Program(t.kind) = <<"useHints">> \/ Program(t.kind) = <<"deleteHints">>
    BY <1>11 DEF Program, HintKinds
  <2> QED BY <2>1, <2>2, SMT DEF Path, Ordered, NeverLast, OfParent, OfKey, KeyFree
<1>12. ASSUME K PROVE Ordered(t, Program(t.kind))
  <2> HIDE DEF done, high, wait, lock, lockDone, lockFailed, fail
  <2>1. t.kind \notin {"cancel", "release"} => t.key \in Keys /\ t.parent \in Keys
    BY <1>12 DEF Askable, OfLease, BatchKinds
  <2>2. CASE t.kind = "cancel"
    <3>1. Program("cancel") = lock \o EndBatch BY DEF Program, lock
    <3> QED BY <1>8, <1>12, <2>2, <3>1, Zenon
  <2>3. CASE t.kind = "done"
    <3>1. Program("done") = TakeResult \o done BY DEF Program, done
    <3> QED BY <1>5, <1>12, <2>1, <2>3, <3>1, Zenon
  <2>4. CASE t.kind = "memory"
    <3>1. Program("memory") = TakeResult \o high \o Retry BY DEF Program, high
    <3> QED BY <1>6, <1>12, <2>1, <2>4, <3>1, Zenon
  <2>5. CASE t.kind = "retry"
    <3>1. Program("retry") = TakeResult \o Retry BY DEF Program
    <3> QED BY <1>5, <1>12, <2>1, <2>5, <3>1, Zenon
  <2>6. CASE t.kind = "missing"
    <3>1. Program("missing") = TakeResult \o wait \o Requeue BY DEF Program, wait
    <3> QED BY <1>7, <1>12, <2>1, <2>6, <3>1, Zenon
  <2>7. CASE t.kind = "failed"
    <3>1. Program("failed") = TakeResult \o Fail BY DEF Program
    <3> QED BY <1>5, <1>12, <2>1, <2>7, <3>1, Zenon
  <2>8. CASE t.kind = "expire"
    <3>1. Program("expire") = TakeExpired \o Retry BY DEF Program
    <3> QED BY <1>5, <1>12, <2>1, <2>8, <3>1, Zenon
  <2>9. CASE t.kind = "expireFinal"
    <3>1. Program("expireFinal") = TakeExpired \o Fail BY DEF Program
    <3> QED BY <1>5, <1>12, <2>1, <2>9, <3>1, Zenon
  <2>10. CASE t.kind = "release"
    <3>1. Program("release") = ReleaseBatch BY DEF Program
    <3> QED BY <1>2, <1>12, <2>10, <3>1, Zenon
  <2>11. CASE t.kind = "evicted"
    <3>1. Program("evicted") = lockDone \o Requeue BY DEF Program, lockDone
    <3> QED BY <1>7, <1>12, <2>1, <2>11, <3>1, Zenon
  <2>12. CASE t.kind = "evictedFinal"
    <3>1. Program("evictedFinal") = lockFailed \o EndBatch BY DEF Program, lockFailed
    <3> QED BY <1>5, <1>12, <2>1, <2>12, <3>1, Zenon
  <2>13. CASE t.kind = "missingFinal"
    <3>1. Program("missingFinal") = TakeResult \o fail \o EndBatch BY DEF Program, fail
    <3> QED BY <1>12, <1>13, <2>1, <2>13, <3>1, Zenon
  <2> QED
    BY <1>12, <2>2, <2>3, <2>4, <2>5, <2>6, <2>7, <2>8, <2>9, <2>10, <2>11, <2>12, <2>13
    DEF BatchKinds
<1>14. ASSUME t.kind = "retain" PROVE Ordered(t, Program("retain"))
  <2>1. StatementsOf(t.kind) = {"deleteBatches", "cascade"}
    BY <1>14 DEF StatementsOf, BatchKinds, HintKinds, OfRetain
  <2>2. ASSUME NEW p, p = <<"deleteBatches", "cascade">> PROVE Ordered(t, p)
    BY <2>1, <2>2, FollowsFacts, SMT DEF Path, Ordered, NeverLast, OfKey, KeyFree, OfParent
  <2>3. Program("retain") = <<"deleteBatches", "cascade">> BY DEF Program
  <2> QED BY <2>2, <2>3, Zenon
<1> QED BY <1>9, <1>10, <1>11, <1>12, <1>14 DEF Askable

\* The statements after the first of an ordered program.
LEMMA TailOrdered ==
    ASSUME NEW t, NEW p, Ordered(t, p), p # <<>>
    PROVE  /\ Ordered(t, Tail(p)) /\ Head(p) \in StatementsOf(t.kind)
           /\ Tail(p) = <<>> => Head(p) \notin NeverLast
           /\ Tail(p) # <<>> => Head(Tail(p)) \in Follows[Head(p)]
           /\ Head(p) \in OfKey => t.key \in Keys
           /\ Head(p) \in OfParent => t.parent \in Keys
<1>1. /\ p \in Seq(StatementsOf(t.kind)) /\ Len(p) \in Nat /\ Len(p) > 0 /\ Head(p) = p[1]
      /\ 1 \in 1..Len(p)
  BY SMT DEF Ordered, Path
<1> DEFINE q == Tail(p)
<1>2. /\ q \in Seq(StatementsOf(t.kind)) /\ Len(q) = Len(p) - 1
      /\ \A i \in 1..Len(q) : q[i] = p[i + 1]
  BY <1>1, SMT
<1> HIDE DEF q
<1>9. /\ q # <<>> => Len(q) > 0 /\ Head(q) = q[1]
      /\ q = <<>> => Len(q) = 0
  BY <1>2, SMT
<1>3. \A i \in 1..(Len(q) - 1) : q[i + 1] \in Follows[q[i]]
  <2>1. SUFFICES ASSUME NEW i \in 1..(Len(q) - 1) PROVE q[i + 1] \in Follows[q[i]] OBVIOUS
  <2>2. i \in 1..Len(q) /\ i + 1 \in 1..Len(q) /\ i + 1 \in 1..(Len(p) - 1)
    BY <1>1, <1>2, SMT
  <2>3. q[i] = p[i + 1] /\ q[i + 1] = p[(i + 1) + 1] BY <1>2, <2>2
  <2> QED BY <2>2, <2>3 DEF Ordered, Path
<1>4. \A i \in 1..Len(q) : /\ q[i] \in OfKey => t.key \in Keys
                           /\ q[i] \in OfParent => t.parent \in Keys
  <2>1. \A i \in 1..Len(q) : i + 1 \in 1..Len(p) BY <1>1, <1>2, SMT
  <2> QED BY <1>2, <2>1 DEF Ordered, Path
<1>5. q # <<>> => q[Len(q)] \notin NeverLast
  <2>1. q # <<>> => Len(q) \in 1..Len(q) /\ Len(q) + 1 = Len(p) BY <1>1, <1>2, <1>9, SMT
  <2> QED BY <1>2, <2>1 DEF Ordered
<1>6. q = <<>> => Len(p) = 1 BY <1>1, <1>2, <1>9, SMT
<1>7. q # <<>> => q[1] = p[1 + 1] /\ 1 \in 1..(Len(p) - 1) BY <1>1, <1>2, <1>9, SMT
<1>8. p[1] \in StatementsOf(t.kind) BY <1>1, SMT
<1> QED BY <1>1, <1>2, <1>3, <1>4, <1>5, <1>6, <1>7, <1>8, <1>9 DEF Ordered, Path, q

\* What holds of a transaction on the batch, statement by statement.
LEMMA BatchAtCases ==
    ASSUME NEW key, NEW own, NEW w
    PROVE  /\ BatchAt("end", key, own, w) <=> Ended(own, w)
           /\ BatchAt("cancelActions", key, own, w) <=> Ending(own, w)
           /\ BatchAt("deleteLeases", key, own, w) <=>
                 Ending(own, w) /\ NoneUnfinished(Over(own, w))
           /\ BatchAt("deleteBatches", key, own, w) <=> Retaining(own, w)
           /\ BatchAt("cascade", key, own, w) <=> Deleting(own, w)
           /\ BatchAt("takeLease", key, own, w) <=>
                 /\ DOMAIN own \subseteq {Batch} /\ \A r \in DOMAIN own : own[r] = w[r]
                 /\ DOMAIN own = {} => w[Batch] # "running"
           /\ \A st \in First : BatchAt(st, key, own, w) <=> DOMAIN own = {}
           /\ \A st \in Work : BatchAt(st, key, own, w) <=>
                 /\ Working(own, w)
                 /\ st \in NoHints => DOMAIN own \cap Hints = {}
                 /\ st \in KeyFree => Free(key, own)
BY DEF BatchAt, First, Work

\* A transaction on a running batch may end anywhere in its work.
LEMMA WorkEnds ==
    ASSUME NEW own, NEW w, Working(own, w)
    PROVE  Ended(own, w)
<1>1. Over(own, w)[Batch] = "running" BY RowSets DEF Working, Over
<1> QED BY <1>1 DEF Working, Ended, Quiet

\* A transaction that works on a running batch goes on with its work or ends.
LEMMA WorkGoesOn ==
    ASSUME NEW own, NEW w, Working(own, w), NEW st \in Work \cup {"end"}, NEW key,
           st \in NoHints => DOMAIN own \cap Hints = {}, st \in KeyFree => Free(key, own)
    PROVE  BatchAt(st, key, own, w)
<1>1. CASE st = "end" BY <1>1, WorkEnds, BatchAtCases
<1>2. CASE st \in Work BY <1>2, BatchAtCases
<1> QED BY <1>1, <1>2

\* The statement a transaction may come to after st.
Comes(st, t, v, found, st2) ==
    IF GoesOn(st, t, v, found) THEN st2 \in Follows[st] \/ (st2 = "end" /\ st \notin NeverLast)
    ELSE st2 = "end"

\* What the rows R looked at, the rows P still to visit and the rows found are.
Covers(st, t, own, own2, w, R, P, found) ==
    LET v == Over(own, w)
    IN  /\ P \subseteq Foot(st, t) \ DOMAIN own2
        /\ st \in {"lockBatch", "lockRunning"} /\ w[Batch] # "gone" => Batch \in R \cup P
        /\ st = "lockIfDone" /\ v[Action(t.key)].state # "gone" => Action(t.key) \in R \cup P
        /\ st = "takeLease" /\ found # {} =>
              Lease(t.key) \in R /\ w[Lease(t.key)] = "held" /\ own2[Lease(t.key)] = "gone"
        /\ st = "takeLease" /\ found = {} => \A r \in R : own2[r] = w[r]
        /\ st = "deleteBatches" => /\ Batch \in P \cup R => w[Batch] # "running"
                                   /\ Batch \in R => own2[Batch] # "running"
                                   /\ Batch \in found => Batch \in DOMAIN own2
        /\ st = "cancelActions" =>
              \A k \in Keys : v[Action(k)].state \in Unfinished => Action(k) \in R \cup P
        /\ st = "deleteLeases" =>
              \A k \in Keys : /\ v[Lease(k)] = "held" => Lease(k) \in R \cup P
                              /\ Lease(k) \in P \cup (R \ DOMAIN own) => w[Lease(k)] = "held"
        /\ st = "cascade" => (P \cup (R \ DOMAIN own)) \cap LeaseRows = {}
        /\ st = "takeLease" /\ P \cup (R \ DOMAIN own) # {} => Batch \in DOMAIN own

Onto(st, t, own2, w, P, found) ==
    /\ P # {} => BatchAt(st, t.key, own2, w) /\ Pending(st, own2, w, P)
    /\ P = {} => \A st2 : Comes(st, t, Over(own2, w), found, st2) => BatchAt(st2, t.key, own2, w)

\* Most statements ask nothing of the rows they have still to visit.
LEMMA PendingElse ==
    ASSUME NEW st, st \notin {"cancelActions", "deleteLeases", "deleteBatches", "cascade",
                              "takeLease"},
           NEW own, NEW w, NEW P
    PROVE  Pending(st, own, w, P)
BY DEF Pending

\* Nothing written: the view is what it was.
LEMMA Unwritten ==
    ASSUME NEW own, NEW w, Quiet(w), w = [r \in Rows |-> w[r]], \A r \in DOMAIN own : own[r] = w[r]
    PROVE  /\ Over(own, w) = w
           /\ Shape(own) => Ended(own, w)
<1>1. Over(own, w) = [r \in Rows |-> w[r]] BY DEF Over
<1>2. Over(own, w) = w BY <1>1, Zenon
<1> QED BY <1>2 DEF Ended

\* The lock of the batch row, with which every transaction on the batch begins.
LEMMA FirstStep ==
    ASSUME NEW st \in First, NEW t, Keyed(st, t), NEW own, NEW own2, NEW w, NEW R, NEW P, NEW found,
           Quiet(w), w = [r \in Rows |-> w[r]],
           Wrote(st, t, own, own2, w, R), BatchAt(st, t.key, own, w),
           Covers(st, t, own, own2, w, R, P, found)
    PROVE  Onto(st, t, own2, w, P, found)
<1>1. DOMAIN own = {} BY BatchAtCases
<1>2. DOMAIN own2 = R /\ R \subseteq {Batch} /\ P \subseteq {Batch} \ R
  BY <1>1 DEF Wrote, Covers, Foot, First
<1>3. P # {} => BatchAt(st, t.key, own2, w) /\ Pending(st, own2, w, P)
  <2>1. P # {} => DOMAIN own2 = {} BY <1>2
  <2> QED BY <2>1, BatchAtCases, PendingElse DEF First
<1>4. Shape(own2) BY <1>2, RowSets DEF Shape
<1>5. ASSUME P = {}, NEW st2, Comes(st, t, Over(own2, w), found, st2)
      PROVE  BatchAt(st2, t.key, own2, w)
  <2>1. CASE st \in {"lockBatch", "lockRunning"}
    <3>1. \A r \in DOMAIN own2 : own2[r] = w[r]
      <4>1. SUFFICES ASSUME NEW r \in R PROVE own2[r] = w[r] BY <1>2
      <4>2. PICK v : v[r] = Over(own, w)[r] /\ own2[r] = Eval(st, t, v, r) BY <4>1 DEF Wrote
      <4>3. Over(own, w)[r] = w[r] BY <1>1, <1>2, <4>1, RowSets DEF Over
      <4> QED BY <2>1, <4>2, <4>3, Locks
    <3>2. Over(own2, w) = w /\ Ended(own2, w) BY <1>4, <3>1, Unwritten
    <3>3. w[Batch] # "gone" => Batch \in R BY <1>5, <2>1 DEF Covers
    <3>4. CASE st = "lockBatch"
      <4>1. st2 = "takeLease" \/ st2 = "end"
        BY <1>5, <3>4, FollowsFacts DEF Comes, GoesOn
      <4>2. BatchAt("takeLease", t.key, own2, w) BY <1>2, <3>1, <3>3, BatchAtCases
      <4> QED BY <3>2, <4>1, <4>2, BatchAtCases
    <3>5. CASE st = "lockRunning"
      <4>1. st2 = "end" \/ (st2 \in {"endBatch", "makeReady", "lockIfDone"} /\ w[Batch] = "running")
        BY <1>5, <3>2, <3>5, FollowsFacts DEF Comes, GoesOn
      <4>2. ASSUME w[Batch] = "running" PROVE Working(own2, w)
        <5>1. Batch \in DOMAIN own2 /\ own2[Batch] = "running" BY <1>2, <3>1, <3>3, <4>2
        <5>2. TookHeld(own2, w) BY <1>2, RowSets DEF TookHeld
        <5> QED BY <1>4, <3>2, <4>2, <5>1, <5>2 DEF Working, Quiet
      <4>3. DOMAIN own2 \cap Hints = {} BY <1>2, RowSets
      <4>4. \A x \in {"endBatch", "makeReady", "lockIfDone"} : x \in Work /\ x \notin KeyFree
        BY DEF Work, KeyFree
      <4> QED BY <3>2, <4>1, <4>2, <4>3, <4>4, BatchAtCases
    <3> QED BY <2>1, <3>4, <3>5
  <2> QED BY <2>1 DEF First
<1> QED BY <1>3, <1>5 DEF Onto

\* delete_expired: the batches it deletes have ended, and of this one, once it is among
\* them, the actions and leases go next.
LEMMA RetainStep ==
    ASSUME NEW t, NEW own, NEW own2, NEW w, NEW R, NEW P, NEW found, Quiet(w),
           Wrote("deleteBatches", t, own, own2, w, R), BatchAt("deleteBatches", t.key, own, w),
           Covers("deleteBatches", t, own, own2, w, R, P, found)
    PROVE  Onto("deleteBatches", t, own2, w, P, found)
<1> DEFINE v2 == Over(own2, w)
<1>1. /\ DOMAIN own \subseteq BatchRows
      /\ Batch \in DOMAIN own => w[Batch] # "running" /\ own[Batch] # "running"
  BY BatchAtCases DEF Retaining
<1>2. /\ DOMAIN own2 = DOMAIN own \cup R /\ DOMAIN own2 \subseteq BatchRows
      /\ \A x \in DOMAIN own \ R : own2[x] = own[x]
  <2>1. Foot("deleteBatches", t) = BatchRows BY DEF Foot, First
  <2> QED BY <1>1, <2>1 DEF Wrote
<1>3. /\ Batch \in P \cup R => w[Batch] # "running"
      /\ Batch \in R => own2[Batch] # "running"
      /\ Batch \in found => Batch \in DOMAIN own2
  BY DEF Covers
<1>4. Retaining(own2, w) BY <1>1, <1>2, <1>3 DEF Retaining
<1>5. P # {} => BatchAt("deleteBatches", t.key, own2, w) /\ Pending("deleteBatches", own2, w, P)
  BY <1>3, <1>4, BatchAtCases DEF Pending
<1>6. Shape(own2) BY <1>2, RowSets DEF Shape
<1>7. \A x \in Rows : /\ x \in DOMAIN own2 => v2[x] = own2[x]
                      /\ x \notin DOMAIN own2 => v2[x] = w[x]
  BY OverWrote
<1>8. \A k \in Keys : v2[Action(k)] = w[Action(k)] /\ v2[Lease(k)] = w[Lease(k)]
  <2>1. \A k \in Keys : /\ Action(k) \in Rows /\ Action(k) \notin BatchRows
                        /\ Lease(k) \in Rows /\ Lease(k) \notin BatchRows
    BY RowSets
  <2> QED BY <1>2, <1>7, <2>1
<1>9. /\ v2[Batch] # "running" => w[Batch] # "running"
      /\ w[Batch] # "running" => v2[Batch] # "running"
  <2>1. Batch \in Rows BY RowSets
  <2> QED BY <1>4, <1>7, <2>1 DEF Retaining
<1> HIDE DEF v2
<1>10. Quiet(v2) BY <1>8, <1>9 DEF Quiet, Typed, HeldRuns, NoneUnfinished
<1>11. Ended(own2, w) BY <1>6, <1>9, <1>10 DEF Ended, v2
<1>12. ASSUME Batch \in found PROVE Deleting(own2, w)
  <2>1. TookHeld(own2, w)
    <3>1. \A k \in Keys : Lease(k) \notin BatchRows BY RowSets
    <3> QED BY <1>2, <3>1 DEF TookHeld
  <2> QED BY <1>3, <1>4, <1>6, <1>10, <1>12, <2>1 DEF Deleting, Retaining, v2
<1>13. ASSUME NEW st2, Comes("deleteBatches", t, v2, found, st2)
       PROVE  BatchAt(st2, t.key, own2, w)
  <2>1. st2 = "end" \/ (st2 = "cascade" /\ Batch \in found)
    BY <1>13, FollowsFacts DEF Comes, GoesOn
  <2> QED BY <1>11, <1>12, <2>1, BatchAtCases
<1> QED BY <1>5, <1>13 DEF Onto, v2

\* complete, expire_leases: who has deleted the lease holds the batch, and the batch runs.
LEMMA TakeLeaseStep ==
    ASSUME NEW t, Keyed("takeLease", t), NEW own, NEW own2, NEW w, NEW R, NEW P, NEW found,
           Quiet(w), w = [r \in Rows |-> w[r]],
           Wrote("takeLease", t, own, own2, w, R), BatchAt("takeLease", t.key, own, w),
           Covers("takeLease", t, own, own2, w, R, P, found)
    PROVE  Onto("takeLease", t, own2, w, P, found)
<1>0. t.key \in Keys BY DEF Keyed, OfKey, KeyFree
<1>1. /\ DOMAIN own \subseteq {Batch} /\ \A r \in DOMAIN own : own[r] = w[r]
      /\ DOMAIN own = {} => w[Batch] # "running"
  BY BatchAtCases
<1>2. Foot("takeLease", t) = {Lease(t.key)} BY DEF Foot, First
<1>3. /\ DOMAIN own2 = DOMAIN own \cup R /\ R \subseteq DOMAIN own \cup {Lease(t.key)}
      /\ P \subseteq {Lease(t.key)} \ DOMAIN own2
  BY <1>2 DEF Wrote, Covers
<1>4. Batch \in DOMAIN own2 => Batch \in DOMAIN own /\ own2[Batch] = w[Batch]
  <2>1. SUFFICES ASSUME Batch \in DOMAIN own2 PROVE Batch \in DOMAIN own /\ own2[Batch] = w[Batch]
    OBVIOUS
  <2>2. Batch # Lease(t.key) BY <1>0, RowNames
  <2>3. Batch \in DOMAIN own BY <1>3, <2>1, <2>2
  <2>4. CASE Batch \in R
    <3>1. PICK v : v[Batch] = Over(own, w)[Batch] /\ own2[Batch] = Eval("takeLease", t, v, Batch)
      BY <2>4 DEF Wrote
    <3>2. Over(own, w)[Batch] = w[Batch] BY <1>1, RowSets DEF Over
    <3>3. Batch \notin Touches("takeLease", t, v) BY <2>2 DEF Touches
    <3> QED BY <2>3, <3>1, <3>2, <3>3 DEF Eval
  <2>5. CASE Batch \notin R BY <1>1, <2>3, <2>5 DEF Wrote
  <2> QED BY <2>4, <2>5
<1>5. P # {} => BatchAt("takeLease", t.key, own2, w) /\ Pending("takeLease", own2, w, P)
  <2>1. SUFFICES ASSUME P # {}
                 PROVE  BatchAt("takeLease", t.key, own2, w) /\ Pending("takeLease", own2, w, P)
    OBVIOUS
  <2>2. DOMAIN own2 = DOMAIN own BY <1>3, <2>1
  <2>3. Batch \in DOMAIN own2 BY <2>1, <2>2 DEF Covers
  <2> QED BY <1>1, <1>4, <2>2, <2>3, BatchAtCases DEF Pending
<1>6. ASSUME P = {}, NEW st2, Comes("takeLease", t, Over(own2, w), found, st2)
      PROVE  BatchAt(st2, t.key, own2, w)
  <2>1. CASE found = {}
    <3>1. st2 = "end" BY <1>6, <2>1 DEF Comes, GoesOn
    <3>2. \A r \in DOMAIN own2 : own2[r] = w[r]
      <4>1. \A r \in R : own2[r] = w[r] BY <2>1 DEF Covers
      <4>2. \A r \in DOMAIN own \ R : own2[r] = own[r] BY DEF Wrote
      <4> QED BY <1>1, <1>3, <4>1, <4>2
    <3>3. CASE Shape(own2) BY <3>1, <3>2, <3>3, Unwritten, BatchAtCases
    <3>4. Shape(own2)
      <4>1. Batch \in DOMAIN own \/ DOMAIN own2 = {} BY <1>1, <1>3, <1>6 DEF Covers
      <4> QED BY <1>0, <1>1, <1>3, <4>1, RowSets DEF Shape
    <3> QED BY <3>3, <3>4
  <2>2. CASE found # {}
    <3>1. Lease(t.key) \in R /\ w[Lease(t.key)] = "held" /\ own2[Lease(t.key)] = "gone"
      BY <2>2 DEF Covers
    <3>2. w[Batch] = "running" /\ Batch \in DOMAIN own
      <4>1. w[Action(t.key)].state \in Unfinished
        BY <1>0, <3>1 DEF Quiet, HeldRuns, Unfinished
      <4>2. w[Batch] = "running" BY <1>0, <4>1 DEF Quiet, NoneUnfinished
      <4> QED BY <1>1, <4>2
    <3>3. DOMAIN own2 = {Batch, Lease(t.key)} BY <1>1, <1>3, <3>1, <3>2
    <3>4. own2[Batch] = "running" BY <1>4, <3>2, <3>3
    <3>5. \A x \in Rows : x \notin {Batch, Lease(t.key)} => Over(own2, w)[x] = w[x]
      BY <3>3 DEF Over
    <3>6. Over(own2, w)[Lease(t.key)] = "gone" BY <1>0, <3>1, <3>3, RowSets DEF Over
    <3>7. \A k \in Keys : /\ Over(own2, w)[Action(k)] = w[Action(k)]
                          /\ Over(own2, w)[Lease(k)] = "held" => w[Lease(k)] = "held"
      <4>1. SUFFICES ASSUME NEW k \in Keys
                     PROVE  /\ Over(own2, w)[Action(k)] = w[Action(k)]
                            /\ Over(own2, w)[Lease(k)] = "held" => w[Lease(k)] = "held"
        OBVIOUS
      <4>2. Action(k) \in Rows /\ Action(k) \notin {Batch, Lease(t.key)}
        BY <1>0, RowNames, RowSets
      <4>3. Lease(k) \in Rows /\ Lease(k) # Batch BY RowNames, RowSets
      <4> QED BY <3>5, <3>6, <4>2, <4>3
    <3>8. Typed(Over(own2, w)) /\ HeldRuns(Over(own2, w))
      BY <3>7 DEF Quiet, Typed, HeldRuns
    <3>9. TookHeld(own2, w) /\ Shape(own2) /\ DOMAIN own2 \cap Hints = {}
      <4>1. Batch \notin Hints /\ Lease(t.key) \notin Hints /\ Lease(t.key) \in LeaseRows
        BY <1>0, RowSets
      <4>2. TookHeld(own2, w)
        <5>1. \A k \in Keys : Lease(k) # Batch BY RowNames
        <5> QED BY <3>1, <3>3, <5>1 DEF TookHeld
      <4> QED BY <3>3, <4>1, <4>2, RowSets DEF Shape
    <3>10. Working(own2, w) BY <3>2, <3>3, <3>4, <3>8, <3>9 DEF Working
    <3>11. Free(t.key, own2) BY <3>1, <3>3 DEF Free
    <3>12. st2 = "end" \/ st2 \in {"noteResult", "lockIfRuns"}
      BY <1>6, <2>2, FollowsFacts DEF Comes, GoesOn
    <3>13. st2 \in Work \cup {"end"} BY <3>12 DEF Work
    <3> QED BY <3>9, <3>10, <3>11, <3>13, WorkGoesOn
  <2> QED BY <2>1, <2>2
<1> QED BY <1>5, <1>6 DEF Onto

\* The work between the lock of the batch and its end.
LEMMA WorkNext ==
    ASSUME NEW st \in Work \ {"endBatch", "finishIfDone"}, NEW t, Keyed(st, t), NEW own, NEW own2,
           NEW w, NEW R, NEW P, NEW found,
           Wrote(st, t, own, own2, w, R), BatchAt(st, t.key, own, w),
           Covers(st, t, own, own2, w, R, P, found)
    PROVE  Onto(st, t, own2, w, P, found)
<1>0. st \in Work OBVIOUS
<1>1. /\ Working(own, w) /\ (st \in NoHints => DOMAIN own \cap Hints = {})
      /\ (st \in KeyFree => Free(t.key, own))
  BY <1>0 DEF BatchAt
<1>2. /\ Working(own2, w)
      /\ st \notin {"recordPeak", "raisePeak"} => DOMAIN own2 \cap Hints = DOMAIN own \cap Hints
      /\ st \in KeyFree \ Moves => Free(t.key, own2)
  BY WorkStep
<1>3. /\ DOMAIN own2 = DOMAIN own \cup R /\ R \subseteq DOMAIN own \cup Foot(st, t)
      /\ P \subseteq Foot(st, t) \ DOMAIN own2
  BY DEF Wrote, Covers
<1>4. ASSUME P # {} PROVE BatchAt(st, t.key, own2, w) /\ Pending(st, own2, w, P)
  <2>1. Pending(st, own2, w, P) BY PendingElse DEF Work
  <2>2. st \in NoHints => DOMAIN own2 \cap Hints = {}
    <3>1. CASE st \notin {"recordPeak", "raisePeak"} BY <1>1, <1>2, <3>1
    <3>2. CASE st \in {"recordPeak", "raisePeak"}
      <4>1. Foot(st, t) = {Hint(t.key)} BY <3>2 DEF Foot, First
      <4>2. DOMAIN own2 = DOMAIN own BY <1>3, <1>4, <4>1
      <4> QED BY <1>1, <4>2
    <3> QED BY <3>1, <3>2
  <2>3. st \in KeyFree => Free(t.key, own2)
    <3>1. SUFFICES ASSUME st \in Moves PROVE Free(t.key, own2) BY <1>2
    <3>2. st \in KeyFree /\ t.key \in Keys BY <3>1 DEF Moves, KeyFree, Keyed, OfKey
    <3>3. Foot(st, t) = {Action(t.key)} BY <3>1 DEF Moves, Foot, First
    <3>4. Action(t.key) \notin DOMAIN own BY <1>3, <1>4, <3>3
    <3>5. Lease(t.key) \in DOMAIN own /\ own[Lease(t.key)] = "gone"
      BY <1>1, <3>2, <3>4 DEF Free
    <3>6. own2[Lease(t.key)] = own[Lease(t.key)] /\ Lease(t.key) \in DOMAIN own2
      <4>1. Lease(t.key) \in Rows /\ Lease(t.key) \notin Actions BY <3>2, RowSets
      <4>2. st \in Settles BY <3>1 DEF Settles
      <4>3. Over(own2, w)[Lease(t.key)] = Over(own, w)[Lease(t.key)]
        BY <1>1, <3>2, <4>1, <4>2, SettlesSound DEF Working
      <4>4. Lease(t.key) \in DOMAIN own2 BY <1>3, <3>5
      <4> QED BY <3>5, <4>1, <4>3, <4>4, OverWrote
    <3> QED BY <3>5, <3>6 DEF Free
  <2> QED BY <1>2, <2>1, <2>2, <2>3, WorkGoesOn
<1>5. ASSUME P = {}, NEW st2, Comes(st, t, Over(own2, w), found, st2)
      PROVE  BatchAt(st2, t.key, own2, w)
  <2>1. st2 = "end" \/ st2 \in Follows[st] BY <1>5 DEF Comes
  <2>2. st2 \in Work \cup {"end"} BY <2>1, FollowsFacts DEF Work
  <2>3. st2 \in NoHints => st \in NoHints /\ st \notin {"recordPeak", "raisePeak"}
    BY <2>1, FollowsFacts DEF Work, NoHints
  <2>4. st2 \in NoHints => DOMAIN own2 \cap Hints = {} BY <1>1, <1>2, <2>3
  <2>5. st2 \in KeyFree => st \in KeyFree \ Moves \/ st = "lockIfDone"
    BY <2>1, FollowsFacts DEF Work, KeyFree, Moves
  <2>6. ASSUME st = "lockIfDone", st2 \in KeyFree PROVE Free(t.key, own2)
    <3>1. t.key \in Keys /\ Action(t.key) \in Rows /\ Action(t.key) \notin Hints
      BY <2>6, RowSets DEF Keyed, OfKey
    <3>2. Over(own2, w)[Action(t.key)].state = "done"
      BY <1>5, <2>6 DEF Comes, GoesOn, KeyFree
    <3>3. Over(own2, w)[Action(t.key)] = Over(own, w)[Action(t.key)]
      BY <2>6, <3>1, KeptRows
    <3>4. Action(t.key) \in R
      BY <1>5, <2>6, <3>2, <3>3 DEF Covers
    <3>5. Action(t.key) \in DOMAIN own2 BY <1>3, <3>4
    <3>6. own2[Action(t.key)].state = "done" BY <3>1, <3>2, <3>5, OverWrote
    <3> QED BY <3>5, <3>6 DEF Free
  <2> QED BY <1>2, <2>2, <2>4, <2>5, <2>6, WorkGoesOn
<1> QED BY <1>4, <1>5 DEF Onto

\* The rows a statement that writes the batch only leaves.
LEMMA WritesBatch ==
    ASSUME NEW st \in {"endBatch", "finishIfDone"}, NEW t, NEW own, NEW own2, NEW w, NEW R, NEW P,
           NEW found, Wrote(st, t, own, own2, w, R), Working(own, w),
           Covers(st, t, own, own2, w, R, P, found)
    PROVE  /\ P = {} /\ DOMAIN own2 = DOMAIN own
           /\ \A x \in Rows : x # Batch => Over(own2, w)[x] = Over(own, w)[x]
           /\ own2[Batch] = "running" \/ (st = "endBatch" /\ own2[Batch] # "running")
              \/ (st = "finishIfDone" /\ NoneUnfinished(Over(own, w)) /\ own2[Batch] # "running")
           /\ st = "endBatch" /\ Batch \in R => own2[Batch] # "running"
<1>1. Foot(st, t) = {Batch} BY DEF Foot
<1>2. Batch \in DOMAIN own /\ own[Batch] = "running" BY DEF Working
<1>3. DOMAIN own2 = DOMAIN own /\ P = {} BY <1>1, <1>2 DEF Wrote, Covers
<1>4. ASSUME NEW x \in Rows, x # Batch PROVE Over(own2, w)[x] = Over(own, w)[x]
  <2>1. CASE x \notin R BY <1>4, <2>1, OverWrote
  <2>2. CASE x \in R
    <3>1. PICK v : v[x] = Over(own, w)[x] /\ own2[x] = Eval(st, t, v, x) BY <2>2 DEF Wrote
    <3>2. x \notin Touches(st, t, v) BY <1>4 DEF Touches
    <3>3. x \in DOMAIN own2 BY <2>2 DEF Wrote
    <3> QED BY <1>4, <3>1, <3>2, <3>3, OverWrote DEF Eval
  <2> QED BY <2>1, <2>2
<1>5. Batch \notin R => own2[Batch] = "running" BY <1>2 DEF Wrote
<1>6. ASSUME Batch \in R
      PROVE  /\ st = "endBatch" => own2[Batch] # "running"
             /\ st = "finishIfDone" => \/ own2[Batch] = "running"
                                       \/ NoneUnfinished(Over(own, w)) /\ own2[Batch] # "running"
  <2>1. PICK v : /\ v[Batch] = Over(own, w)[Batch] /\ own2[Batch] = Eval(st, t, v, Batch)
                 /\ st = "finishIfDone" => v = Over(own, w)
    BY <1>6 DEF Wrote
  <2>2. v[Batch] = "running" BY <1>2, <2>1, RowSets DEF Over
  <2>3. CASE st = "endBatch"
    <3>1. Batch \in Touches(st, t, v) BY <2>3 DEF Touches
    <3>2. Written(st, t, v, Batch) \in {"cancelled", "failed"} BY <2>3 DEF Written
    <3> QED BY <2>1, <2>3, <3>1, <3>2 DEF Eval
  <2>4. CASE st = "finishIfDone"
    <3>1. CASE Batch \in Touches(st, t, v)
      <4>1. \A k \in Keys : v[Action(k)].state \in {"done", "failed"} BY <2>4, <3>1 DEF Touches
      <4>2. NoneUnfinished(v) BY <4>1 DEF NoneUnfinished, Unfinished
      <4>3. Written(st, t, v, Batch) = "done" BY <2>4 DEF Written
      <4> QED BY <2>1, <2>4, <3>1, <4>2, <4>3 DEF Eval
    <3>2. CASE Batch \notin Touches(st, t, v) BY <2>1, <2>2, <2>4, <3>2 DEF Eval
    <3> QED BY <3>1, <3>2
  <2> QED BY <2>3, <2>4
<1> QED BY <1>3, <1>4, <1>5, <1>6

\* The actions and leases that stay stay sound.
LEMMA SameActions ==
    ASSUME NEW v, NEW v2, \A x \in Rows : x # Batch => v2[x] = v[x]
    PROVE  /\ Typed(v) => Typed(v2)
           /\ HeldRuns(v) => HeldRuns(v2)
           /\ NoneUnfinished(v) => NoneUnfinished(v2)
<1>1. \A k \in Keys : v2[Action(k)] = v[Action(k)] /\ v2[Lease(k)] = v[Lease(k)]
  BY RowSets
<1> QED BY <1>1 DEF Typed, HeldRuns, NoneUnfinished

\* _finish_if_done, _end_batch: the batch row is written by who holds it.
LEMMA FinishStep ==
    ASSUME NEW st \in {"endBatch", "finishIfDone"}, NEW t, NEW own, NEW own2, NEW w, NEW R, NEW P,
           NEW found, Wrote(st, t, own, own2, w, R), BatchAt(st, t.key, own, w),
           st = "endBatch" => Batch \in R,
           Covers(st, t, own, own2, w, R, P, found)
    PROVE  Onto(st, t, own2, w, P, found)
<1>0. Working(own, w) BY DEF BatchAt, Work
<1>1. /\ P = {} /\ DOMAIN own2 = DOMAIN own
      /\ \A x \in Rows : x # Batch => Over(own2, w)[x] = Over(own, w)[x]
      /\ own2[Batch] = "running" \/ (st = "endBatch" /\ own2[Batch] # "running")
         \/ (st = "finishIfDone" /\ NoneUnfinished(Over(own, w)) /\ own2[Batch] # "running")
      /\ st = "endBatch" /\ Batch \in R => own2[Batch] # "running"
  BY <1>0, WritesBatch
<1>2. Typed(Over(own, w)) /\ HeldRuns(Over(own, w)) BY <1>0 DEF Working
<1>3. Typed(Over(own2, w)) /\ HeldRuns(Over(own2, w))
      /\ (NoneUnfinished(Over(own, w)) => NoneUnfinished(Over(own2, w)))
  BY <1>1, <1>2, SameActions
<1>4. Shape(own2) /\ TookHeld(own2, w) /\ Batch \in DOMAIN own2 /\ w[Batch] = "running"
  BY <1>0, <1>1 DEF Working, Shape, TookHeld
<1>5. ASSUME NEW st2, Comes(st, t, Over(own2, w), found, st2)
      PROVE  BatchAt(st2, t.key, own2, w)
  <2>1. CASE st = "endBatch"
    <3>1. st2 = "cancelActions"
      BY <1>5, <2>1, FollowsFacts DEF Comes, GoesOn, NeverLast
    <3>2. Ending(own2, w) BY <1>1, <1>3, <1>4, <2>1 DEF Ending
    <3> QED BY <3>1, <3>2, BatchAtCases
  <2>2. CASE st = "finishIfDone"
    <3>1. st2 = "end" BY <1>5, <2>2, FollowsFacts DEF Comes, GoesOn
    <3>2. Over(own2, w)[Batch] = own2[Batch] BY <1>4, RowSets DEF Over
    <3>3. Quiet(Over(own2, w)) BY <1>1, <1>3, <2>2, <3>2 DEF Quiet
    <3>4. Ended(own2, w) BY <1>4, <3>3 DEF Ended
    <3> QED BY <3>1, <3>4, BatchAtCases
  <2> QED BY <2>1, <2>2
<1> QED BY <1>1, <1>5 DEF Onto

\* _end_batch: no action is left unfinished, whatever was claimed meanwhile.
LEMMA CancelStep ==
    ASSUME NEW t, NEW own, NEW own2, NEW w, NEW R, NEW P, NEW found,
           Wrote("cancelActions", t, own, own2, w, R), BatchAt("cancelActions", t.key, own, w),
           Covers("cancelActions", t, own, own2, w, R, P, found)
    PROVE  Onto("cancelActions", t, own2, w, P, found)
<1> DEFINE v == Over(own, w)
           v2 == Over(own2, w)
<1>0. Ending(own, w) BY BatchAtCases
<1>1. Foot("cancelActions", t) = Actions BY DEF Foot, First
<1>2. /\ DOMAIN own2 = DOMAIN own \cup R /\ R \subseteq DOMAIN own \cup Actions /\ R \subseteq Rows
      /\ P \subseteq Actions \ DOMAIN own2
  BY <1>1 DEF Wrote, Covers
<1>3. ASSUME NEW x \in Rows
      PROVE  /\ x \notin Actions => v2[x] = v[x]
             /\ x \in Actions => IsAction(v2[x])
             /\ x \in Actions /\ x \in R => v2[x].state \notin Unfinished
             /\ x \notin R => v2[x] = v[x]
  <2>1. x \in Actions => IsAction(v[x]) BY <1>0 DEF Ending, Typed, Actions
  <2>2. CASE x \notin R
    <3>1. v2[x] = v[x] BY <1>3, <2>2, OverWrote
    <3> QED BY <2>1, <2>2, <3>1
  <2>3. CASE x \in R
    <3>1. PICK y : y[x] = v[x] /\ own2[x] = Eval("cancelActions", t, y, x) BY <2>3 DEF Wrote
    <3>2. x \in DOMAIN own2 BY <1>2, <2>3
    <3>3. v2[x] = own2[x] BY <1>3, <3>2, OverWrote
    <3> HIDE DEF v, v2
    <3>4. x \in Touches("cancelActions", t, y) <=> x \in Actions /\ y[x].state \in Unfinished
      BY DEF Touches
    <3>5. CASE x \in Touches("cancelActions", t, y)
      <4>1. own2[x] = [y[x] EXCEPT !.state = "cancelled"] BY <3>1, <3>5 DEF Eval, Written
      <4>2. IsAction(y[x]) BY <2>1, <3>1, <3>4, <3>5
      <4>3. /\ IsAction([y[x] EXCEPT !.state = "cancelled"])
            /\ [y[x] EXCEPT !.state = "cancelled"].state = "cancelled"
        BY <4>2, StateSet
      <4>4. IsAction(own2[x]) /\ own2[x].state = "cancelled" BY <4>1, <4>3, Zenon
      <4> QED BY <2>3, <3>3, <3>4, <3>5, <4>4 DEF Unfinished
    <3>6. CASE x \notin Touches("cancelActions", t, y)
      <4>1. own2[x] = y[x] BY <3>1, <3>6 DEF Eval
      <4> QED BY <2>1, <2>3, <3>1, <3>3, <3>4, <3>6, <4>1
    <3> QED BY <3>5, <3>6
  <2> QED BY <2>2, <2>3
<1>4. \A k \in Keys : Action(k) \in Rows /\ Action(k) \in Actions BY RowSets
<1>5. \A k \in Keys : v2[Action(k)].state \in Unfinished => Action(k) \in P
  <2>1. SUFFICES ASSUME NEW k \in Keys, v2[Action(k)].state \in Unfinished
                 PROVE  Action(k) \in P
    OBVIOUS
  <2>2. Action(k) \notin R
    <3> HIDE DEF v, v2
    <3> QED BY <1>3, <1>4, <2>1
  <2>3. v[Action(k)].state \in Unfinished
    <3> HIDE DEF v, v2
    <3> QED BY <1>3, <1>4, <2>1, <2>2
  <2> QED BY <2>2, <2>3 DEF Covers
<1>6. Ending(own2, w)
  <2>1. Shape(own2)
    BY <1>0, <1>2 DEF Ending, Shape
  <2>2. TookHeld(own2, w)
    <3>1. \A k \in Keys : Lease(k) \notin Actions BY RowSets
    <3> QED BY <1>0, <1>2, <3>1 DEF Ending, TookHeld
  <2>3. Typed(v2)
    <3> HIDE DEF v, v2
    <3> QED BY <1>3, <1>4 DEF Typed
  <2>4. Batch \in DOMAIN own /\ own[Batch] # "running" /\ w[Batch] = "running"
    BY <1>0 DEF Ending
  <2>5. Batch \in DOMAIN own2 BY <1>2, <2>4
  <2>6. own2[Batch] # "running"
    <3>1. Batch \in Rows /\ Batch \notin Actions BY RowSets
    <3>2. v2[Batch] = own2[Batch] /\ v[Batch] = own[Batch] BY <2>4, <2>5, <3>1, OverWrote
    <3>3. v2[Batch] = v[Batch] BY <1>3, <3>1
    <3> HIDE DEF v, v2
    <3> QED BY <2>4, <3>2, <3>3
  <2> QED BY <2>1, <2>2, <2>3, <2>4, <2>5, <2>6 DEF Ending
<1>7. P # {} => /\ BatchAt("cancelActions", t.key, own2, w) /\ Pending("cancelActions", own2, w, P)
  BY <1>5, <1>6, BatchAtCases DEF Pending
<1>8. ASSUME P = {}, NEW st2, Comes("cancelActions", t, v2, found, st2)
      PROVE  BatchAt(st2, t.key, own2, w)
  <2>1. st2 = "deleteLeases" BY <1>8, FollowsFacts DEF Comes, GoesOn, NeverLast
  <2>2. NoneUnfinished(v2) BY <1>5, <1>8 DEF NoneUnfinished
  <2> QED BY <1>6, <2>1, <2>2, BatchAtCases
<1> QED BY <1>7, <1>8 DEF Onto

\* _end_batch: no lease is left.
LEMMA DeleteLeasesStep ==
    ASSUME NEW t, NEW own, NEW own2, NEW w, NEW R, NEW P, NEW found,
           Wrote("deleteLeases", t, own, own2, w, R), BatchAt("deleteLeases", t.key, own, w),
           Covers("deleteLeases", t, own, own2, w, R, P, found)
    PROVE  Onto("deleteLeases", t, own2, w, P, found)
<1> DEFINE v == Over(own, w)
           v2 == Over(own2, w)
<1>0. Ending(own, w) /\ NoneUnfinished(v) BY BatchAtCases
<1>1. Foot("deleteLeases", t) = LeaseRows BY DEF Foot, First
<1>2. /\ DOMAIN own2 = DOMAIN own \cup R /\ R \subseteq DOMAIN own \cup LeaseRows
      /\ R \subseteq Rows
      /\ P \subseteq LeaseRows \ DOMAIN own2
  BY <1>1 DEF Wrote, Covers
<1>3. ASSUME NEW x \in Rows
      PROVE  /\ x \notin LeaseRows => v2[x] = v[x]
             /\ x \in LeaseRows /\ x \in R => v2[x] # "held"
             /\ x \notin R => v2[x] = v[x]
  <2>2. CASE x \notin R BY <1>3, <2>2, OverWrote
  <2>3. CASE x \in R
    <3>1. PICK y : y[x] = v[x] /\ own2[x] = Eval("deleteLeases", t, y, x) BY <2>3 DEF Wrote
    <3>2. x \in DOMAIN own2 BY <1>2, <2>3
    <3>3. v2[x] = own2[x] BY <1>3, <3>2, OverWrote
    <3> HIDE DEF v, v2
    <3>4. x \in Touches("deleteLeases", t, y) <=> x \in LeaseRows /\ y[x] = "held"
      BY DEF Touches
    <3>5. Written("deleteLeases", t, y, x) = "gone" BY DEF Written
    <3> QED BY <2>3, <3>1, <3>3, <3>4, <3>5 DEF Eval
  <2> QED BY <2>2, <2>3
<1>4. \A k \in Keys : /\ Action(k) \in Rows /\ Action(k) \notin LeaseRows
                      /\ Lease(k) \in Rows /\ Lease(k) \in LeaseRows
  BY RowSets
<1>5. \A k \in Keys : /\ v2[Lease(k)] = "held" => Lease(k) \in P
                      /\ Lease(k) \in P => w[Lease(k)] = "held"
  <2>1. \A k \in Keys : v2[Lease(k)] = "held" => Lease(k) \notin R /\ v[Lease(k)] = "held"
    <3> HIDE DEF v, v2
    <3> QED BY <1>3, <1>4
  <2> QED BY <2>1 DEF Covers
<1>6. \A k \in Keys : v2[Action(k)] = v[Action(k)]
  <2> HIDE DEF v, v2
  <2> QED BY <1>3, <1>4
<1>7. Ending(own2, w) /\ NoneUnfinished(v2)
  <2>1. Shape(own2)
    BY <1>0, <1>2 DEF Ending, Shape
  <2>2. TookHeld(own2, w)
    BY <1>0, <1>2 DEF Ending, TookHeld, Covers
  <2>3. Typed(v2) /\ NoneUnfinished(v2)
    BY <1>0, <1>6 DEF Typed, NoneUnfinished, Ending
  <2>4. Batch \in DOMAIN own /\ own[Batch] # "running" /\ w[Batch] = "running"
    BY <1>0 DEF Ending
  <2>5. Batch \in DOMAIN own2 BY <1>2, <2>4
  <2>6. own2[Batch] # "running"
    <3>1. Batch \in Rows /\ Batch \notin LeaseRows BY RowSets
    <3>2. v2[Batch] = own2[Batch] /\ v[Batch] = own[Batch] BY <2>4, <2>5, <3>1, OverWrote
    <3>3. v2[Batch] = v[Batch] BY <1>3, <3>1
    <3> HIDE DEF v, v2
    <3> QED BY <2>4, <3>2, <3>3
  <2> QED BY <2>1, <2>2, <2>3, <2>4, <2>5, <2>6 DEF Ending
<1>8. P # {} => /\ BatchAt("deleteLeases", t.key, own2, w) /\ Pending("deleteLeases", own2, w, P)
  BY <1>5, <1>7, BatchAtCases DEF Pending
<1>9. ASSUME P = {}, NEW st2, Comes("deleteLeases", t, v2, found, st2)
      PROVE  BatchAt(st2, t.key, own2, w)
  <2>1. st2 = "end" BY <1>9, FollowsFacts DEF Comes, GoesOn
  <2>2. HeldRuns(v2) BY <1>5, <1>9 DEF HeldRuns
  <2>3. Ended(own2, w) BY <1>7, <2>2 DEF Ended, Ending, Quiet
  <2> QED BY <2>1, <2>3, BatchAtCases
<1> QED BY <1>8, <1>9 DEF Onto

\* delete_expired: an ended batch has no leases to go with it.
LEMMA CascadeStep ==
    ASSUME NEW t, NEW own, NEW own2, NEW w, NEW R, NEW P, NEW found,
           Wrote("cascade", t, own, own2, w, R), BatchAt("cascade", t.key, own, w),
           Covers("cascade", t, own, own2, w, R, P, found)
    PROVE  Onto("cascade", t, own2, w, P, found)
<1> DEFINE v == Over(own, w)
           v2 == Over(own2, w)
<1>0. Deleting(own, w) BY BatchAtCases
<1>1. Foot("cascade", t) = Actions \cup LeaseRows BY DEF Foot, First
<1>2. /\ DOMAIN own2 = DOMAIN own \cup R /\ R \subseteq DOMAIN own \cup Actions /\ R \subseteq Rows
      /\ P \cap LeaseRows = {}
  BY <1>1 DEF Wrote, Covers
<1>3. ASSUME NEW x \in Rows
      PROVE  /\ x \notin Actions \cup LeaseRows => v2[x] = v[x]
             /\ x \in LeaseRows => v2[x] = v[x] \/ v2[x] # "held"
             /\ x \in Actions => IsAction(v2[x]) /\ (v2[x] = v[x] \/ v2[x].state = "gone")
  <2>1. x \in Actions => IsAction(v[x]) BY <1>0 DEF Deleting, Quiet, Typed, Actions
  <2>2. CASE x \notin R
    <3>1. v2[x] = v[x] BY <1>3, <2>2, OverWrote
    <3> QED BY <2>1, <3>1
  <2>3. CASE x \in R
    <3>1. PICK y : y[x] = v[x] /\ own2[x] = Eval("cascade", t, y, x) BY <2>3 DEF Wrote
    <3>2. x \in DOMAIN own2 BY <1>2, <2>3
    <3>3. v2[x] = own2[x] BY <1>3, <3>2, OverWrote
    <3> HIDE DEF v, v2
    <3>4. x \in Touches("cascade", t, y) <=> x \in Actions \/ (x \in LeaseRows /\ y[x] = "held")
      BY DEF Touches
    <3>5. CASE x \in Actions
      <4>1. own2[x] = [y[x] EXCEPT !.state = "gone"] BY <3>1, <3>4, <3>5 DEF Eval, Written
      <4>2. /\ IsAction([y[x] EXCEPT !.state = "gone"])
            /\ [y[x] EXCEPT !.state = "gone"].state = "gone"
        BY <2>1, <3>1, <3>5, StateSet
      <4>3. IsAction(own2[x]) /\ own2[x].state = "gone" BY <4>1, <4>2, Zenon
      <4> QED BY <3>3, <3>5, <4>3, RowSets
    <3>6. CASE x \notin Actions
      <4>1. Written("cascade", t, y, x) = "gone" BY <3>6 DEF Written
      <4> QED BY <3>1, <3>3, <3>4, <3>6, <4>1 DEF Eval
    <3> QED BY <3>5, <3>6
  <2> QED BY <2>2, <2>3
<1>4. \A k \in Keys : /\ Action(k) \in Rows /\ Action(k) \in Actions
                      /\ Lease(k) \in Rows /\ Lease(k) \in LeaseRows /\ Lease(k) \notin Actions
  BY RowSets
<1>5. Batch \in DOMAIN own /\ own[Batch] # "running" /\ w[Batch] # "running"
      /\ v[Batch] = own[Batch] /\ Quiet(v)
  <2>1. Batch \in Rows BY RowSets
  <2>2. Batch \in DOMAIN own /\ own[Batch] # "running" /\ w[Batch] # "running" /\ Quiet(v)
    BY <1>0 DEF Deleting
  <2> QED BY <2>1, <2>2, OverWrote
<1>6. NoneUnfinished(v)
  <2> HIDE DEF v, v2
  <2> QED BY <1>5 DEF Quiet
<1>7. Batch \in DOMAIN own2 /\ own2[Batch] # "running" /\ v2[Batch] = own2[Batch]
  <2>1. Batch \in Rows /\ Batch \notin Actions \cup LeaseRows BY RowSets
  <2>2. Batch \in DOMAIN own2 BY <1>2, <1>5
  <2>3. v2[Batch] = own2[Batch] BY <2>1, <2>2, OverWrote
  <2>4. v2[Batch] = v[Batch] BY <1>3, <2>1
  <2> HIDE DEF v, v2
  <2> QED BY <1>5, <2>2, <2>3, <2>4
<1>8. Quiet(v2)
  <2> HIDE DEF v, v2
  <2>1. Typed(v2) BY <1>3, <1>4 DEF Typed
  <2>2. NoneUnfinished(v2) BY <1>3, <1>4, <1>6 DEF NoneUnfinished, Unfinished
  <2>3. \A k \in Keys : v[Lease(k)] # "held"
    BY <1>5, <1>6 DEF Quiet, HeldRuns, NoneUnfinished, Unfinished
  <2>4. HeldRuns(v2) BY <1>3, <1>4, <2>3 DEF HeldRuns
  <2> QED BY <2>1, <2>2, <2>4 DEF Quiet
<1>9. Deleting(own2, w)
  <2>1. Shape(own2)
    BY <1>0, <1>2 DEF Deleting, Shape
  <2>2. TookHeld(own2, w)
    BY <1>0, <1>2, <1>4 DEF Deleting, TookHeld
  <2> QED BY <1>5, <1>7, <1>8, <2>1, <2>2 DEF Deleting
<1>10. P # {} => /\ BatchAt("cascade", t.key, own2, w) /\ Pending("cascade", own2, w, P)
  BY <1>2, <1>9, BatchAtCases DEF Pending
<1>11. ASSUME P = {}, NEW st2, Comes("cascade", t, v2, found, st2)
      PROVE  BatchAt(st2, t.key, own2, w)
  <2>1. st2 = "end" BY <1>11, FollowsFacts DEF Comes, GoesOn
  <2>2. Ended(own2, w) BY <1>7, <1>8, <1>9 DEF Ended, Deleting
  <2> QED BY <2>1, <2>2, BatchAtCases
<1> QED BY <1>10, <1>11 DEF Onto

\* A statement of a transaction on the batch brings it to its next statement.
LEMMA BatchStep ==
    ASSUME NEW st \in BatchStatements, NEW t, Keyed(st, t), NEW own, NEW own2, NEW w, NEW R, NEW P,
           NEW found, Quiet(w), w = [r \in Rows |-> w[r]],
           Wrote(st, t, own, own2, w, R), BatchAt(st, t.key, own, w),
           Covers(st, t, own, own2, w, R, P, found), st = "endBatch" => Batch \in R
    PROVE  Onto(st, t, own2, w, P, found)
<1>1. CASE st \in First BY <1>1, FirstStep
<1>2. CASE st = "takeLease" BY <1>2, TakeLeaseStep
<1>3. CASE st \in Work \ {"endBatch", "finishIfDone"} BY <1>3, WorkNext
<1>4. CASE st \in {"endBatch", "finishIfDone"} BY <1>4, FinishStep
<1>5. CASE st = "cancelActions" BY <1>5, CancelStep
<1>6. CASE st = "deleteLeases" BY <1>6, DeleteLeasesStep
<1>7. CASE st = "cascade" BY <1>7, CascadeStep
<1>8. CASE st = "deleteBatches" BY <1>8, RetainStep
<1> QED
  BY <1>1, <1>2, <1>3, <1>4, <1>5, <1>6, <1>7, <1>8 DEF BatchStatements, OnRunning, OfRetain

\* Statement st of t starts and looks at the rows own that the transaction holds.
Started(st, t, own, own2, w, P, found) ==
    LET v == Over(own, w)
        all == Touches(st, t, v)
    IN  /\ DOMAIN own \subseteq Rows /\ DOMAIN own2 = DOMAIN own
        /\ \A x \in DOMAIN own : own2[x] = Eval(st, t, v, x)
        /\ P = all \ DOMAIN own /\ found = all \cap DOMAIN own

\* It has the lock of the row r, one of P, and looks at it in the view v.
Visited(st, t, own, own2, w, P, r, v, found0, found) ==
    /\ DOMAIN own \subseteq Rows /\ r \in Rows /\ r \in P /\ P \subseteq Foot(st, t) \ DOMAIN own
    /\ v[r] = w[r] /\ DOMAIN own2 = DOMAIN own \cup {r}
    /\ own2[r] = Eval(st, t, v, r) /\ \A x \in DOMAIN own : own2[x] = own[x]
    /\ Finds(st, found0, own)
    /\ found = IF r \in Touches(st, t, v) THEN found0 \cup {r} ELSE found0

\* A statement that starts looks at the rows the transaction holds.
LEMMA ExecuteCovers ==
    ASSUME NEW st \in BatchStatements, NEW t, Keyed(st, t), NEW own, NEW own2, NEW w,
           NEW P, NEW found, Quiet(w), BatchAt(st, t.key, own, w),
           Started(st, t, own, own2, w, P, found)
    PROVE  /\ Wrote(st, t, own, own2, w, DOMAIN own)
           /\ Covers(st, t, own, own2, w, DOMAIN own, P, found)
           /\ st = "endBatch" => Batch \in DOMAIN own
           /\ Finds(st, found, own2)
<1> DEFINE v == Over(own, w)
           all == Touches(st, t, v)
<1>1. /\ DOMAIN own2 = DOMAIN own /\ \A x \in DOMAIN own : own2[x] = Eval(st, t, v, x)
      /\ DOMAIN own \subseteq Rows /\ P = all \ DOMAIN own /\ found = all \cap DOMAIN own
  BY DEF Started
<1>2. Wrote(st, t, own, own2, w, DOMAIN own)
  BY <1>1, Zenon DEF Wrote
<1>3. P \subseteq Foot(st, t) \ DOMAIN own2
  <2>1. st \in Statements BY DEF Statements
  <2>2. all \subseteq Foot(st, t) BY <2>1, TouchesFoot
  <2> QED BY <1>1, <2>2
<1>4. \A x \in Rows : /\ x \in DOMAIN own => v[x] = own[x]
                      /\ x \notin DOMAIN own => v[x] = w[x]
  BY <1>2, OverWrote
<1>5. ASSUME st \in {"lockBatch", "lockRunning"}, w[Batch] # "gone" PROVE Batch \in P
  <2>1. DOMAIN own = {} BY <1>5, BatchAtCases DEF First
  <2>2. v[Batch] = w[Batch] BY <1>4, <2>1, RowSets
  <2>3. Batch \in all
    <3> HIDE DEF v
    <3>1. Batch \in Touches(st, t, v) BY <1>5, <2>2 DEF Touches
    <3> QED BY <3>1 DEF v
  <2> QED BY <1>1, <2>1, <2>3
<1>6. ASSUME st = "lockIfDone", v[Action(t.key)].state # "gone"
      PROVE  Action(t.key) \in DOMAIN own \cup P
  <2>1. Action(t.key) \in Touches(st, t, v)
    <3> HIDE DEF v
    <3> QED BY <1>6 DEF Touches
  <2> QED BY <1>1, <2>1
<1>7. ASSUME st = "takeLease"
      PROVE  /\ found = {} /\ (\A r \in DOMAIN own : own2[r] = w[r])
             /\ P # {} => Batch \in DOMAIN own
  <2>0. t.key \in Keys BY <1>7 DEF Keyed, OfKey
  <2>1. /\ DOMAIN own \subseteq {Batch} /\ \A r \in DOMAIN own : own[r] = w[r]
        /\ DOMAIN own = {} => w[Batch] # "running"
    BY <1>7, BatchAtCases
  <2>2. Batch # Lease(t.key) /\ Lease(t.key) \in Rows /\ Lease(t.key) \notin DOMAIN own
    BY <2>0, <2>1, RowNames, RowSets
  <2>3. /\ Touches(st, t, v) \subseteq {Lease(t.key)}
        /\ Lease(t.key) \in Touches(st, t, v) => v[Lease(t.key)] = "held"
    <3> HIDE DEF v
    <3> QED BY <1>7 DEF Touches
  <2>4. found = {} BY <1>1, <2>2, <2>3
  <2>5. \A r \in DOMAIN own : own2[r] = v[r]
    <3>1. \A r \in DOMAIN own : r \notin Touches(st, t, v) BY <2>1, <2>2, <2>3
    <3> QED BY <1>1, <3>1 DEF Eval
  <2>6. \A r \in DOMAIN own : own2[r] = w[r] BY <1>1, <1>4, <2>1, <2>5
  <2>7. ASSUME P # {} PROVE Batch \in DOMAIN own
    <3>1. w[Lease(t.key)] = "held"
      <4>1. Lease(t.key) \in Touches(st, t, v) BY <1>1, <2>3, <2>7
      <4> QED BY <1>4, <2>2, <2>3, <4>1
    <3>2. w[Action(t.key)].state \in Unfinished BY <2>0, <3>1 DEF Quiet, HeldRuns, Unfinished
    <3>3. w[Batch] = "running" BY <2>0, <3>2 DEF Quiet, NoneUnfinished
    <3> QED BY <2>1, <3>3
  <2> QED BY <2>4, <2>6, <2>7
<1>8. ASSUME st = "deleteBatches"
      PROVE  /\ Batch \in P \cup DOMAIN own => w[Batch] # "running"
             /\ Batch \in DOMAIN own => own2[Batch] # "running"
             /\ found \subseteq DOMAIN own2
  <2>1. Batch \in DOMAIN own => w[Batch] # "running" /\ own[Batch] # "running"
    BY <1>8, BatchAtCases DEF Retaining
  <2>2. Batch \in Rows BY RowSets
  <2>3. Batch \in Touches(st, t, v) => v[Batch] # "running"
    <3> HIDE DEF v
    <3> QED BY <1>8 DEF Touches
  <2>4. Written(st, t, v, Batch) = "gone" BY <1>8 DEF Written
  <2>5. Batch \in DOMAIN own => own2[Batch] # "running"
    BY <1>1, <1>4, <2>1, <2>2, <2>4 DEF Eval
  <2> QED BY <1>1, <1>4, <2>1, <2>2, <2>3, <2>5
<1>9. ASSUME st = "cancelActions", NEW k \in Keys, v[Action(k)].state \in Unfinished
      PROVE  Action(k) \in DOMAIN own \cup P
  <2>1. Action(k) \in Touches(st, t, v)
    <3> HIDE DEF v
    <3> QED BY <1>9, RowSets DEF Touches
  <2> QED BY <1>1, <2>1
<1>10. ASSUME st = "deleteLeases", NEW k \in Keys
       PROVE  /\ v[Lease(k)] = "held" => Lease(k) \in DOMAIN own \cup P
              /\ Lease(k) \in P => w[Lease(k)] = "held"
  <2>1. Lease(k) \in Touches(st, t, v) <=> v[Lease(k)] = "held"
    <3> HIDE DEF v
    <3> QED BY <1>10, RowSets DEF Touches
  <2>2. Lease(k) \in Rows BY <1>10, RowSets
  <2> QED BY <1>1, <1>4, <2>1, <2>2
<1>11. ASSUME st = "cascade" PROVE P \cap LeaseRows = {}
  <2>1. Deleting(own, w) BY <1>11, BatchAtCases
  <2>2. v[Batch] = own[Batch] /\ own[Batch] # "running" /\ Quiet(v)
    BY <1>4, <2>1, RowSets DEF Deleting
  <2>3. \A k \in Keys : v[Lease(k)] # "held"
    <3> HIDE DEF v
    <3> QED BY <2>2 DEF Quiet, HeldRuns, NoneUnfinished, Unfinished
  <2>4. \A x \in Touches(st, t, v) : x \in LeaseRows => v[x] = "held"
    <3> HIDE DEF v
    <3> QED BY <1>11, RowSets DEF Touches
  <2> QED BY <1>1, <2>3, <2>4 DEF LeaseRows
<1>12. st = "endBatch" => Batch \in DOMAIN own BY DEF BatchAt, Work, Working
<1>13. Covers(st, t, own, own2, w, DOMAIN own, P, found)
  BY <1>3, <1>5, <1>6, <1>7, <1>8, <1>9, <1>10, <1>11 DEF Covers
<1>14. Finds(st, found, own2)
  <2>1. st # "pick" BY DEF BatchStatements, OnRunning, OfRetain, First, Work
  <2> QED BY <1>7, <1>8, <2>1 DEF Finds
<1> QED BY <1>2, <1>12, <1>13, <1>14

\* A statement that visits a row has its lock and looks at it as it is.
LEMMA VisitCovers ==
    ASSUME NEW st \in BatchStatements, NEW t, Keyed(st, t), NEW own, NEW own2, NEW w,
           NEW P, NEW r, NEW v, NEW found0, NEW found, BatchAt(st, t.key, own, w),
           Pending(st, own, w, P), Visited(st, t, own, own2, w, P, r, v, found0, found)
    PROVE  /\ Wrote(st, t, own, own2, w, {r})
           /\ Covers(st, t, own, own2, w, {r}, P \ {r}, found)
           /\ st = "endBatch" => Batch \in {r}
           /\ st = "deleteBatches" => Finds(st, found, own2)
<1>1. /\ DOMAIN own2 = DOMAIN own \cup {r} /\ own2[r] = Eval(st, t, v, r)
      /\ (\A x \in DOMAIN own \ {r} : own2[x] = own[x])
      /\ v[r] = w[r] /\ DOMAIN own \subseteq Rows /\ r \in Rows /\ r \in P
      /\ P \subseteq Foot(st, t) \ DOMAIN own
      /\ found = IF r \in Touches(st, t, v) THEN found0 \cup {r} ELSE found0
      /\ st = "takeLease" => found0 = {}
      /\ st = "deleteBatches" => found0 \subseteq DOMAIN own
  BY DEF Visited, Finds
<1>2. r \notin DOMAIN own /\ r \in Foot(st, t) BY <1>1
<1>3. st \notin {"endBatch", "finishIfDone"}
  <2>1. st \in {"endBatch", "finishIfDone"} => r = Batch BY <1>2 DEF Foot
  <2>2. st \in {"endBatch", "finishIfDone"} => Batch \in DOMAIN own BY DEF BatchAt, Work, Working
  <2> QED BY <1>2, <2>1, <2>2
<1>4. Over(own, w)[r] = w[r] BY <1>1, <1>2 DEF Over
<1>5. Wrote(st, t, own, own2, w, {r})
  <2>1. \E y : y[r] = Over(own, w)[r] /\ own2[r] = Eval(st, t, y, r) BY <1>1, <1>4
  <2> QED BY <1>1, <1>2, <1>3, <2>1 DEF Wrote
<1>6. P \ {r} \subseteq Foot(st, t) \ DOMAIN own2 BY <1>1
<1>7. st \in {"lockBatch", "lockRunning"} => r = Batch BY <1>2 DEF Foot, First
<1>8. st = "lockIfDone" => r = Action(t.key) BY <1>2 DEF Foot, First
<1>9. ASSUME st = "takeLease"
      PROVE  /\ r = Lease(t.key) /\ Batch \in DOMAIN own
             /\ found # {} => w[r] = "held" /\ own2[r] = "gone"
             /\ found = {} => own2[r] = w[r]
  <2>1. r = Lease(t.key) BY <1>2, <1>9 DEF Foot, First
  <2>2. Batch \in DOMAIN own BY <1>9 DEF Pending
  <2>3. r \in Touches(st, t, v) => v[r] = "held" BY <1>9, <2>1 DEF Touches
  <2>4. Written(st, t, v, r) = "gone" BY <1>9 DEF Written
  <2> QED BY <1>1, <1>9, <2>1, <2>2, <2>3, <2>4 DEF Eval
<1>10. ASSUME st = "deleteBatches"
       PROVE  /\ Batch \in (P \ {r}) \cup {r} => w[Batch] # "running"
              /\ Batch \in {r} => own2[Batch] # "running"
              /\ found \subseteq DOMAIN own2
  <2>1. Batch \in P => w[Batch] # "running" BY <1>10 DEF Pending
  <2>2. Written(st, t, v, r) = "gone" BY <1>10 DEF Written
  <2>3. Batch = r => own2[Batch] # "running" BY <1>1, <2>1, <2>2 DEF Eval
  <2> QED BY <1>1, <1>10, <2>1, <2>3
<1>11. st = "cancelActions" =>
         \A k \in Keys : Over(own, w)[Action(k)].state \in Unfinished =>
            Action(k) \in {r} \cup (P \ {r})
  BY <1>1 DEF Pending
<1>12. st = "deleteLeases" =>
         \A k \in Keys : /\ Over(own, w)[Lease(k)] = "held" => Lease(k) \in {r} \cup (P \ {r})
                         /\ Lease(k) \in P => w[Lease(k)] = "held"
  BY <1>1 DEF Pending
<1>13. st = "cascade" => P \cap LeaseRows = {} BY DEF Pending
<1>14. Covers(st, t, own, own2, w, {r}, P \ {r}, found)
  BY <1>1, <1>6, <1>7, <1>8, <1>9, <1>10, <1>11, <1>12, <1>13 DEF Covers
<1>15. st = "deleteBatches" => Finds(st, found, own2) BY <1>10 DEF Finds
<1> QED BY <1>3, <1>5, <1>14, <1>15

\* A transaction is of one kind, and has the statements of its kind.
LEMMA KindsDiffer ==
    /\ "none" \notin BatchKinds /\ "claim" \notin BatchKinds /\ "heartbeat" \notin BatchKinds
    /\ "none" \notin HintKinds /\ "claim" \notin HintKinds /\ "heartbeat" \notin HintKinds
    /\ BatchKinds \cap HintKinds = {}
    /\ StatementsOf("none") = {} /\ StatementsOf("claim") = {"admit", "pick", "insertLease"}
    /\ StatementsOf("heartbeat") = {"renewLease"}
    /\ \A kind \in BatchKinds : StatementsOf(kind) \subseteq BatchStatements
    /\ StatementsOf("retain") = OfRetain /\ "retain" \in BatchKinds
    /\ \A kind \in BatchKinds \ {"retain"} : StatementsOf(kind) = OnRunning
    /\ \A kind \in HintKinds : StatementsOf(kind) = {"useHints", "deleteHints"}
BY DEF BatchKinds, HintKinds, StatementsOf, BatchStatements

\* The rows of a claim that a statement leaves as they are.
LEMMA ClaimKept ==
    ASSUME NEW st, NEW key, NEW own, NEW own2, NEW w, ClaimAt(st, key, own, w),
           DOMAIN own2 = DOMAIN own, \A x \in DOMAIN own : own2[x] = own[x]
    PROVE  ClaimAt(st, key, own2, w)
BY DEF ClaimAt

\* claim: a statement of it that starts.
LEMMA ClaimExecute ==
    ASSUME NEW st \in {"admit", "pick", "insertLease"}, NEW t, NEW own, NEW own2, NEW w, NEW P,
           NEW found, NoKey \notin Keys, t.keys \subseteq Keys, ClaimAt(st, t.key, own, w),
           st = "pick" => DOMAIN own \cap Actions = {}, Started(st, t, own, own2, w, P, found)
    PROVE  /\ ClaimAt(st, t.key, own2, w) /\ found = {} /\ P \subseteq Foot(st, t)
           /\ P = {} => \A st2 : Comes(st, t, Over(own2, w), found, st2) =>
                           st2 = "end" /\ ClaimAt("end", t.key, own2, w)
<1> DEFINE v == Over(own, w)
           all == Touches(st, t, v)
<1>0. /\ DOMAIN own2 = DOMAIN own /\ \A x \in DOMAIN own : own2[x] = Eval(st, t, v, x)
      /\ DOMAIN own \subseteq Rows /\ P = all \ DOMAIN own /\ found = all \cap DOMAIN own
  BY DEF Started
<1>1. all \subseteq Foot(st, t)
  <2>1. Keyed(st, t) /\ st \in Statements
    BY DEF Keyed, OfKey, KeyFree, OfParent, Statements
  <2> QED BY <2>1, TouchesFoot
<1>2. all \cap DOMAIN own = {}
  <2>1. CASE st = "admit" BY <2>1 DEF ClaimAt
  <2>2. CASE st = "pick"
    <3>1. Foot(st, t) = Actions BY <2>2 DEF Foot, First
    <3> QED BY <1>1, <2>2, <3>1
  <2>3. CASE st = "insertLease"
    <3>1. Foot(st, t) = {Lease(t.key)} /\ t.key \in Keys /\ DOMAIN own \cap LeaseRows = {}
      BY <2>3 DEF Foot, First, ClaimAt
    <3> QED BY <1>1, <3>1, RowSets
  <2> QED BY <2>1, <2>2, <2>3
<1>3. DOMAIN own2 = DOMAIN own /\ \A x \in DOMAIN own : own2[x] = own[x]
  <2>1. \A x \in DOMAIN own : v[x] = own[x] BY <1>0 DEF Over
  <2>2. \A x \in DOMAIN own : Eval(st, t, v, x) = v[x] BY <1>2 DEF Eval
  <2> QED BY <1>0, <2>1, <2>2
<1>4. ClaimAt(st, t.key, own2, w) BY <1>3, ClaimKept
<1>5. ASSUME P = {} PROVE st = "pick"
  <2>1. CASE st = "admit"
    <3>1. Touches(st, t, v) = {Admission} BY <2>1 DEF Touches
    <3> QED BY <1>0, <1>2, <1>5, <3>1
  <2>2. CASE st = "insertLease"
    <3>1. Touches(st, t, v) = {Lease(t.key)} BY <2>2 DEF Touches
    <3> QED BY <1>0, <1>2, <1>5, <3>1
  <2> QED BY <2>1, <2>2
<1>6. ASSUME P = {}, NEW st2, Comes(st, t, Over(own2, w), found, st2)
      PROVE  st2 = "end" /\ ClaimAt("end", t.key, own2, w)
  <2>1. st = "pick" BY <1>5, <1>6
  <2>2. st2 = "end" BY <1>0, <1>2, <1>6, <2>1 DEF Comes, GoesOn
  <2>3. t.key = NoKey BY <2>1 DEF ClaimAt
  <2> QED BY <1>4, <2>1, <2>2, <2>3 DEF ClaimAt
<1> QED BY <1>0, <1>1, <1>2, <1>4, <1>6

\* claim: a statement of it that has the lock of a row; the pick is the last action it locks.
LEMMA ClaimVisit ==
    ASSUME NEW st \in {"admit", "pick", "insertLease"}, NEW t, NEW own, NEW own2, NEW w, NEW P,
           NEW r, NEW v, NEW found0, NEW found, NEW key, NoKey \notin Keys, Quiet(w),
           ClaimAt(st, t.key, own, w), Visited(st, t, own, own2, w, P, r, v, found0, found),
           key = IF st = "pick" /\ r \in Touches(st, t, v) THEN r[2] ELSE t.key
    PROVE  /\ st = "pick" /\ r \notin Touches(st, t, v) =>
                 key = t.key /\ ClaimAt("pick", key, own2, w) /\ found = {}
                 /\ ClaimAt("end", key, own2, w)
           /\ st = "pick" /\ r \in Touches(st, t, v) =>
                 found # {} /\ ClaimAt("insertLease", key, own2, w)
           /\ st = "insertLease" => P \ {r} = {} /\ ClaimAt("end", key, own2, w)
           /\ st = "admit" => /\ P \ {r} = {} /\ ClaimAt("end", key, own2, w)
                              /\ ClaimAt("pick", key, own2, w) /\ DOMAIN own2 \cap Actions = {}
<1>1. /\ DOMAIN own2 = DOMAIN own \cup {r} /\ own2[r] = Eval(st, t, v, r) /\ r \notin DOMAIN own
      /\ (\A x \in DOMAIN own : own2[x] = own[x])
      /\ v[r] = w[r] /\ r \in P /\ P \subseteq Foot(st, t)
      /\ found = IF r \in Touches(st, t, v) THEN found0 \cup {r} ELSE found0
      /\ st = "pick" => found0 = {}
  BY DEF Visited, Finds
<1>2. ASSUME st = "admit"
      PROVE  /\ P \ {r} = {} /\ ClaimAt("end", key, own2, w)
             /\ ClaimAt("pick", key, own2, w) /\ DOMAIN own2 \cap Actions = {}
  <2>1. Foot(st, t) = {Admission} BY <1>2 DEF Foot, First
  <2>2. r = Admission /\ P \ {r} = {} BY <1>1, <2>1
  <2>3. DOMAIN own = {} /\ t.key = NoKey /\ key = NoKey BY <1>2 DEF ClaimAt
  <2>4. own2[r] = w[r] BY <1>1, <1>2, Locks
  <2>5. Admission \notin Actions /\ Admission \notin LeaseRows BY RowSets
  <2> QED BY <1>1, <2>2, <2>3, <2>4, <2>5 DEF ClaimAt
<1>3. ASSUME st = "pick", r \notin Touches(st, t, v)
      PROVE  key = t.key /\ ClaimAt("pick", key, own2, w) /\ found = {}
             /\ ClaimAt("end", key, own2, w)
  <2>1. Foot(st, t) = Actions BY <1>3 DEF Foot, First
  <2>2. r \in Actions /\ r \notin LeaseRows BY <1>1, <2>1, RowSets
  <2>3. t.key = NoKey /\ key = NoKey BY <1>3 DEF ClaimAt
  <2>4. own2[r] = w[r] BY <1>1, <1>3 DEF Eval
  <2> QED BY <1>1, <1>3, <2>2, <2>3, <2>4 DEF ClaimAt
<1>4. ASSUME st = "pick", r \in Touches(st, t, v)
      PROVE  found # {} /\ ClaimAt("insertLease", key, own2, w)
  <2>1. PICK k \in Keys : r = Action(k) /\ v[r].state = "ready"
    BY <1>4 DEF Touches
  <2>2. key = k BY <1>4, <2>1, RowNames
  <2>3. own2[r] = [w[r] EXCEPT !.state = "running"]
    <3>1. Written(st, t, v, r) = [v[r] EXCEPT !.state = "running"] BY <1>4 DEF Written
    <3> QED BY <1>1, <1>4, <3>1 DEF Eval
  <2>4. IsAction(w[r]) BY <2>1 DEF Quiet, Typed
  <2>5. /\ IsAction([w[r] EXCEPT !.state = "running"])
        /\ [w[r] EXCEPT !.state = "running"].state = "running"
    BY <2>4, StateSet
  <2>6. IsAction(own2[r]) /\ own2[r].state = "running" BY <2>3, <2>5, Zenon
  <2>7. r \in Actions /\ r \notin LeaseRows /\ w[r].state = "ready" BY <1>1, <2>1, RowSets
  <2>8. t.key = NoKey /\ \A x \in DOMAIN own : own[x] = w[x] /\ x \notin LeaseRows
    BY <1>4 DEF ClaimAt
  <2>9. DOMAIN own \subseteq {Admission} \cup Actions \cup LeaseRows BY DEF ClaimAt
  <2>10. DOMAIN own2 \cap LeaseRows = {} BY <1>1, <2>7, <2>8
  <2>11. \A x \in DOMAIN own2 : own2[x] = w[x] \/ x = Action(key) BY <1>1, <2>1, <2>2, <2>8
  <2> QED BY <1>1, <1>4, <2>1, <2>2, <2>6, <2>7, <2>9, <2>10, <2>11 DEF ClaimAt
<1>5. ASSUME st = "insertLease" PROVE P \ {r} = {} /\ ClaimAt("end", key, own2, w)
  <2>1. Foot(st, t) = {Lease(t.key)} BY <1>5 DEF Foot, First
  <2>2. r = Lease(t.key) /\ P \ {r} = {} BY <1>1, <2>1
  <2>3. key = t.key /\ key \in Keys /\ DOMAIN own \cap LeaseRows = {} BY <1>5 DEF ClaimAt
  <2>4. own2[r] = "held" BY <1>1, <1>5, <2>2 DEF Eval, Touches, Written
  <2>5. Lease(key) \in LeaseRows /\ Action(key) # Lease(key) BY <2>3, RowSets
  <2> QED BY <1>1, <1>5, <2>2, <2>3, <2>4, <2>5 DEF ClaimAt
<1> QED BY <1>2, <1>3, <1>4, <1>5

\* A statement that starts leaves its transaction fit.
LEMMA ExecuteFits ==
    ASSUME NEW t, IsTxn(t), NEW st \in StatementsOf(t.kind), Keyed(st, t), NEW own, NEW own2, NEW w,
           NEW P, NEW found, NoKey \notin Keys, Quiet(w), w = [r \in Rows |-> w[r]],
           Fits(t, st, own, w, {}), Started(st, t, own, own2, w, P, found)
    PROVE  /\ P \subseteq Foot(st, t) \ DOMAIN own2
           /\ P # {} => Fits(t, st, own2, w, P) /\ Finds(st, found, own2)
           /\ P = {} => \A st2 : Comes(st, t, Over(own2, w), found, st2) =>
                 Fits(t, st2, own2, w, {})
<1>0. DOMAIN own2 = DOMAIN own BY DEF Started
<1>1. st \in Statements
  BY KindsDiffer DEF Statements, IsTxn
<1>2. P \subseteq Foot(st, t) \ DOMAIN own2 BY <1>0, <1>1, TouchesFoot DEF Started
<1>3. CASE t.kind = "none" BY <1>3, KindsDiffer
<1>4. CASE t.kind \in HintKinds
  <2>1. st \in {"useHints", "deleteHints"} BY <1>4, KindsDiffer
  <2>2. DOMAIN own2 \subseteq Hints BY <1>0, <1>4 DEF Fits
  <2>3. \A st2, Q : Fits(t, st2, own2, w, Q) BY <1>4, <2>2, KindsDiffer DEF Fits
  <2> QED BY <1>2, <2>1, <2>3 DEF Finds
<1>5. CASE t.kind = "heartbeat"
  <2>1. st = "renewLease" BY <1>5, KindsDiffer
  <2>2. DOMAIN own2 = {} BY <1>0, <1>5, <2>1 DEF Fits
  <2>3. \A st2, Q : Fits(t, st2, own2, w, Q) BY <1>5, <2>2, KindsDiffer DEF Fits
  <2> QED BY <1>2, <2>1, <2>3 DEF Finds
<1>6. CASE t.kind = "claim"
  <2>1. st \in {"admit", "pick", "insertLease"} BY <1>6, KindsDiffer
  <2>2. ClaimAt(st, t.key, own, w) /\ (st = "pick" => DOMAIN own \cap Actions = {})
    BY <1>6 DEF Fits
  <2>3. t.keys \subseteq Keys BY <1>6 DEF IsTxn
  <2>4. /\ ClaimAt(st, t.key, own2, w) /\ found = {}
        /\ P = {} => \A st2 : Comes(st, t, Over(own2, w), found, st2) =>
                        st2 = "end" /\ ClaimAt("end", t.key, own2, w)
    BY <2>1, <2>2, <2>3, ClaimExecute
  <2>5. \A st2, Q : ClaimAt(st2, t.key, own2, w) /\ (Q # {} \/ st2 # "pick") =>
            Fits(t, st2, own2, w, Q)
    BY <1>6, KindsDiffer DEF Fits
  <2>6. Finds(st, found, own2) BY <2>4 DEF Finds
  <2> QED BY <1>2, <2>4, <2>5, <2>6
<1>7. CASE t.kind \in BatchKinds
  <2>1. st \in BatchStatements BY <1>7, KindsDiffer
  <2>2. BatchAt(st, t.key, own, w) BY <1>7 DEF Fits
  <2>3. /\ Wrote(st, t, own, own2, w, DOMAIN own)
        /\ Covers(st, t, own, own2, w, DOMAIN own, P, found)
        /\ st = "endBatch" => Batch \in DOMAIN own
        /\ Finds(st, found, own2)
    BY <2>1, <2>2, ExecuteCovers
  <2>4. Onto(st, t, own2, w, P, found) BY <2>1, <2>2, <2>3, BatchStep
  <2>5. \A st2, Q : BatchAt(st2, t.key, own2, w) /\ (Q # {} => Pending(st2, own2, w, Q))
                       => Fits(t, st2, own2, w, Q)
    BY <1>7, KindsDiffer DEF Fits
  <2> QED BY <1>2, <2>3, <2>4, <2>5 DEF Onto
<1> QED BY <1>3, <1>4, <1>5, <1>6, <1>7 DEF IsTxn

\* A transaction with another key, or another note about its attempt.
LEMMA TxnSet ==
    ASSUME NEW t, IsTxn(t), NEW key, NEW stale
    PROVE  /\ IsTxn([t EXCEPT !.key = key])
           /\ [t EXCEPT !.key = key].kind = t.kind /\ [t EXCEPT !.key = key].key = key
           /\ [t EXCEPT !.key = key].parent = t.parent
           /\ [t EXCEPT !.key = t.key] = t
           /\ IsTxn([t EXCEPT !.stale = stale])
           /\ [t EXCEPT !.stale = stale].kind = t.kind /\ [t EXCEPT !.stale = stale].key = t.key
           /\ [t EXCEPT !.stale = stale].parent = t.parent
           /\ [t EXCEPT !.stale = stale].keys = t.keys
<1>1. PICK kd, ke, pa, ks, sl : /\ kd = t.kind /\ ke = t.key /\ pa = t.parent /\ ks = t.keys
                                /\ sl = t.stale
  OBVIOUS
<1>2. t = [kind |-> kd, key |-> ke, parent |-> pa, keys |-> ks, stale |-> sl]
  BY <1>1, Zenon DEF IsTxn
<1>3. (kd # "retain" => ks \subseteq Keys)
      /\ (kd = "none" \/ kd \in BatchKinds \cup HintKinds \cup {"claim", "heartbeat"})
  BY <1>1 DEF IsTxn
<1> HIDE <1>1
<1>5. [t EXCEPT !.key = key] = [kind |-> kd, key |-> key, parent |-> pa, keys |-> ks, stale |-> sl]
  BY <1>2, SMT
<1>6. [t EXCEPT !.stale = stale]
         = [kind |-> kd, key |-> ke, parent |-> pa, keys |-> ks, stale |-> stale]
  BY <1>2, SMT
<1>7. [t EXCEPT !.key = t.key] = t BY <1>2, SMT
<1>4. ASSUME NEW u, NEW ky, NEW st,
             u = [kind |-> kd, key |-> ky, parent |-> pa, keys |-> ks, stale |-> st]
      PROVE  IsTxn(u)
  BY <1>3, <1>4, SMT DEF IsTxn
<1>8. IsTxn([t EXCEPT !.key = key]) /\ IsTxn([t EXCEPT !.stale = stale])
  BY <1>4, <1>5, <1>6
<1> QED BY <1>1, <1>5, <1>6, <1>7, <1>8, SMT

\* A claim that picked the row r is about its action from then on, and looks no further.
Turned(st, t, t2, r, v, P, todo) ==
    LET picked == st = "pick" /\ r \in Touches(st, t, v)
    IN  /\ t2 = [t EXCEPT !.key = IF picked THEN r[2] ELSE @]
        /\ todo = IF picked THEN {} ELSE P \ {r}

\* A statement that has the lock of a row leaves its transaction fit.
LEMMA VisitFits ==
    ASSUME NEW t, IsTxn(t), NEW st \in StatementsOf(t.kind), Keyed(st, t), NEW own, NEW own2, NEW w,
           NEW P, NEW r, NEW v, NEW found0, NEW found, NEW t2, NEW todo,
           NoKey \notin Keys, Quiet(w), w = [x \in Rows |-> w[x]],
           Fits(t, st, own, w, P), Visited(st, t, own, own2, w, P, r, v, found0, found),
           Turned(st, t, t2, r, v, P, todo)
    PROVE  /\ IsTxn(t2) /\ t2.kind = t.kind /\ t2.parent = t.parent /\ (st # "pick" => t2 = t)
           /\ todo \subseteq Foot(st, t2) \ DOMAIN own2
           /\ todo # {} => Fits(t2, st, own2, w, todo) /\ Finds(st, found, own2)
           /\ todo = {} => \A st2 : Comes(st, t2, Over(own2, w), found, st2) =>
                                       Fits(t2, st2, own2, w, {})
<1> DEFINE picked == st = "pick" /\ r \in Touches(st, t, v)
<1>0. /\ t2 = [t EXCEPT !.key = IF picked THEN r[2] ELSE @]
      /\ todo = IF picked THEN {} ELSE P \ {r}
  BY Zenon DEF Turned
<1>1. /\ DOMAIN own2 = DOMAIN own \cup {r} /\ r \in P /\ P \subseteq Foot(st, t) \ DOMAIN own
      /\ own2[r] = Eval(st, t, v, r) /\ v[r] = w[r]
      /\ found = IF r \in Touches(st, t, v) THEN found0 \cup {r} ELSE found0
  BY DEF Visited
<1>2. ~picked => t2 = t /\ todo = P \ {r}
  <2>1. ~picked => t2 = [t EXCEPT !.key = t.key] BY <1>0 DEF IsTxn
  <2> QED BY <1>0, <2>1, TxnSet, Zenon
<1>3. picked => /\ t2 = [t EXCEPT !.key = r[2]] /\ todo = {} /\ st = "pick"
                /\ r \in Touches(st, t, v)
  BY <1>0
<1>4. /\ IsTxn(t2) /\ t2.kind = t.kind /\ t2.parent = t.parent
      /\ (st # "pick" => t2 = t) /\ t2.key = IF picked THEN r[2] ELSE t.key
  <2>1. CASE picked
    <3>1. IsTxn(t2) BY <1>3, <2>1, TxnSet, Zenon
    <3>2. PICK u : u = [t EXCEPT !.key = r[2]] OBVIOUS
    <3>3. u.kind = t.kind /\ u.parent = t.parent /\ u.key = r[2] BY <3>2, TxnSet
    <3>4. t2 = u BY <1>3, <2>1, <3>2
    <3> QED BY <1>3, <2>1, <3>1, <3>3, <3>4
  <2>2. CASE ~picked BY <1>2, <2>2
  <2> QED BY <2>1, <2>2
<1> HIDE DEF Visited
<1>5. todo \subseteq Foot(st, t2) \ DOMAIN own2
  BY <1>1, <1>2, <1>3
<1>6. CASE t.kind = "none" BY <1>6, KindsDiffer
<1>7. CASE t.kind \in HintKinds
  <2>1. st \in {"useHints", "deleteHints"} BY <1>7, KindsDiffer
  <2>2. Foot(st, t) = Hints BY <2>1 DEF Foot, First
  <2>3. DOMAIN own2 \subseteq Hints BY <1>1, <1>7, <2>2 DEF Fits
  <2>4. \A st2, Q : Fits(t2, st2, own2, w, Q) BY <1>4, <1>7, <2>3, KindsDiffer DEF Fits
  <2> QED BY <1>4, <1>5, <2>1, <2>4 DEF Finds
<1>8. CASE t.kind = "heartbeat"
  <2>1. st = "renewLease" BY <1>8, KindsDiffer
  <2>2. Foot(st, t) = {Lease(t.key)} /\ t.key \in Keys
    BY <2>1 DEF Foot, First, Keyed, OfKey
  <2>3. DOMAIN own = {} BY <1>8, <2>1 DEF Fits
  <2>4. DOMAIN own2 \subseteq LeaseRows BY <1>1, <2>2, <2>3, RowSets
  <2>5. \A x \in DOMAIN own2 : own2[x] = w[x] BY <1>1, <2>1, <2>3, Locks
  <2>6. todo = {} BY <1>1, <1>2, <1>3, <2>2
  <2>7. \A st2 : Comes(st, t2, Over(own2, w), found, st2) => st2 = "end"
    BY <2>1, FollowsFacts DEF Comes
  <2>8. Fits(t2, "end", own2, w, {}) BY <1>4, <1>8, <2>4, <2>5, KindsDiffer DEF Fits
  <2> QED BY <1>4, <1>5, <2>6, <2>7, <2>8
<1>9. CASE t.kind = "claim"
  <2>1. st \in {"admit", "pick", "insertLease"} BY <1>9, KindsDiffer
  <2>2. ClaimAt(st, t.key, own, w) BY <1>9 DEF Fits
  <2>3. PICK key : key = IF st = "pick" /\ r \in Touches(st, t, v) THEN r[2] ELSE t.key OBVIOUS
  <2>4. /\ st = "pick" /\ r \notin Touches(st, t, v) =>
              /\ key = t.key /\ ClaimAt("pick", key, own2, w) /\ found = {}
              /\ ClaimAt("end", key, own2, w)
        /\ st = "pick" /\ r \in Touches(st, t, v) =>
              found # {} /\ ClaimAt("insertLease", key, own2, w)
        /\ st = "insertLease" => P \ {r} = {} /\ ClaimAt("end", key, own2, w)
        /\ st = "admit" => /\ P \ {r} = {} /\ ClaimAt("end", key, own2, w)
                           /\ ClaimAt("pick", key, own2, w) /\ DOMAIN own2 \cap Actions = {}
    BY <2>1, <2>2, <2>3, ClaimVisit
  <2>5. t2.key = key /\ t2.kind = "claim" BY <1>4, <1>9, <2>3
  <2>6. \A st2, Q : /\ ClaimAt(st2, key, own2, w)
                    /\ Q # {} \/ st2 # "pick" \/ DOMAIN own2 \cap Actions = {}
                    => Fits(t2, st2, own2, w, Q)
    BY <2>5, KindsDiffer DEF Fits
  <2>7. CASE st = "admit"
    <3>1. \A st2 : Comes(st, t2, Over(own2, w), found, st2) => st2 \in {"pick", "end"}
      BY <2>7, FollowsFacts DEF Comes
    <3>2. todo = {} BY <1>2, <2>4, <2>7
    <3> QED BY <1>4, <1>5, <2>4, <2>6, <2>7, <3>1, <3>2
  <2>8. CASE st = "insertLease"
    <3>1. \A st2 : Comes(st, t2, Over(own2, w), found, st2) => st2 = "end"
      BY <2>8, FollowsFacts DEF Comes
    <3>2. todo = {} BY <1>2, <2>4, <2>8
    <3> QED BY <1>4, <1>5, <2>4, <2>6, <2>8, <3>1, <3>2
  <2>9. CASE st = "pick" /\ r \in Touches(st, t, v)
    <3>1. \A st2 : Comes(st, t2, Over(own2, w), found, st2) => st2 = "insertLease"
      BY <2>4, <2>9, FollowsFacts DEF Comes, GoesOn, NeverLast
    <3> QED BY <1>3, <1>4, <1>5, <2>4, <2>6, <2>9, <3>1
  <2>10. CASE st = "pick" /\ r \notin Touches(st, t, v)
    <3>1. \A st2 : Comes(st, t2, Over(own2, w), found, st2) => st2 = "end"
      BY <2>4, <2>10 DEF Comes, GoesOn
    <3> QED BY <1>4, <1>5, <2>4, <2>6, <2>10, <3>1 DEF Finds
  <2> QED BY <2>1, <2>7, <2>8, <2>9, <2>10
<1>10. CASE t.kind \in BatchKinds
  <2>1. st \in BatchStatements BY <1>10, KindsDiffer
  <2>2. st # "pick" BY <2>1 DEF BatchStatements, OnRunning, OfRetain, First, Work
  <2>3. t2 = t /\ todo = P \ {r} BY <1>2, <2>2
  <2>4. BatchAt(st, t.key, own, w) /\ Pending(st, own, w, P) BY <1>1, <1>10 DEF Fits
  <2>5. /\ Wrote(st, t, own, own2, w, {r})
        /\ Covers(st, t, own, own2, w, {r}, P \ {r}, found)
        /\ st = "endBatch" => Batch \in {r}
        /\ st = "deleteBatches" => Finds(st, found, own2)
    BY <2>1, <2>4, VisitCovers
  <2>6. Onto(st, t, own2, w, P \ {r}, found) BY <2>1, <2>4, <2>5, BatchStep
  <2>7. \A st2, Q : BatchAt(st2, t.key, own2, w) /\ (Q # {} => Pending(st2, own2, w, Q))
                       => Fits(t, st2, own2, w, Q)
    BY <1>10, KindsDiffer DEF Fits
  <2>8. st = "takeLease" => P \ {r} = {} BY <1>1 DEF Foot, First
  <2>9. todo # {} => Finds(st, found, own2) BY <2>2, <2>3, <2>5, <2>8 DEF Finds
  <2> QED BY <1>4, <1>5, <2>3, <2>6, <2>7, <2>9 DEF Onto
<1> QED BY <1>6, <1>7, <1>8, <1>9, <1>10 DEF IsTxn

\* The rows a statement may lock are rows.
LEMMA FootRows ==
    ASSUME NEW st \in Statements, NEW t, Keyed(st, t), st = "insertLease" => t.key \in Keys
    PROVE  Foot(st, t) \subseteq Rows
<1> USE RowSets DEF Foot, First, Keyed, OfKey, KeyFree
<1>1. CASE st \in First \cup {"endBatch", "finishIfDone"} BY <1>1
<1>2. CASE st \in {"noteResult", "setDone", "setHigh", "setWaiting", "setFailed", "lockIfRuns",
                   "lockIfDone"}
  BY <1>2
<1>3. CASE st \in {"requeueParent", "refreshKey", "refreshParent", "refreshChildren", "makeReady",
                   "cancelActions", "pick"}
  BY <1>3
<1>4. CASE st \in {"takeLease", "renewLease", "insertLease"} BY <1>4
<1>5. CASE st \in {"deleteLeases", "cascade"} BY <1>5
<1>6. CASE st \in {"recordPeak", "raisePeak"} BY <1>6
<1>7. CASE st \in {"useHints", "deleteHints", "admit", "deleteBatches"} BY <1>7
<1> QED
  BY <1>1, <1>2, <1>3, <1>4, <1>5, <1>6, <1>7
  DEF Statements, BatchStatements, OnRunning, OfRetain, Work

\* What a session in the middle of its program is.
LEMMA SaneMiddle ==
    ASSUME NEW q, NEW w, Sane(q, w), q.left # <<>>
    PROVE  /\ At(q) = Head(q.left) /\ At(q) \in StatementsOf(q.txn.kind) /\ At(q) \in Statements
           /\ Keyed(At(q), q.txn) /\ Foot(At(q), q.txn) \subseteq Rows
           /\ IsTxn(q.txn) /\ DOMAIN q.own \subseteq Rows /\ q.txn.kind # "none"
<1>1. IsTxn(q.txn) /\ DOMAIN q.own \subseteq Rows /\ Ordered(q.txn, q.left)
      /\ Fits(q.txn, At(q), q.own, w, Visits(q))
  BY DEF Sane, IsSession
<1>2. At(q) = Head(q.left) BY DEF At
<1>3. At(q) \in StatementsOf(q.txn.kind) BY <1>1, <1>2, TailOrdered
<1>4. Keyed(At(q), q.txn)
  <2>1. q.txn.kind = "retain" => At(q) \in OfRetain BY <1>3, KindsDiffer
  <2> QED BY <1>1, <1>2, <2>1, TailOrdered DEF Keyed, IsTxn
<1>5. At(q) \in Statements /\ q.txn.kind # "none" BY <1>1, <1>3, KindsDiffer DEF IsTxn, Statements
<1>6. At(q) = "insertLease" => q.txn.key \in Keys
  <2>1. At(q) = "insertLease" => q.txn.kind = "claim"
    BY <1>1, <1>3, KindsDiffer DEF IsTxn, BatchStatements, OnRunning, OfRetain, First, Work
  <2> QED BY <1>1, <2>1 DEF Fits, ClaimAt
<1>7. Foot(At(q), q.txn) \subseteq Rows BY <1>4, <1>5, <1>6, FootRows
<1> QED BY <1>1, <1>2, <1>3, <1>4, <1>5, <1>7

\* A session after a statement that has ended.
LEMMA AfterSane ==
    ASSUME NEW s, NEW p, IsSession(p), p.left # <<>>, Ordered(p.txn, p.left),
           \A st2 : Comes(Head(p.left), p.txn, Over(p.own, row), p.found, st2) =>
                       Fits(p.txn, st2, p.own, row, {})
    PROVE  Sane(AfterStatement(s, p), row) /\ AfterStatement(s, p).own = p.own
<1>1. PICK q : q = AfterStatement(s, p) OBVIOUS
<1>2. PICK G : G = GoesOn(Head(p.left), p.txn, Over(p.own, row), p.found) OBVIOUS
<1>3. q = [p EXCEPT !.snap = <<>>, !.next = NoRow, !.todo = {}, !.found = {},
                    !.left = IF GoesOn(Head(p.left), p.txn, Over(p.own, row), p.found)
                             THEN Tail(@) ELSE <<>>]
  BY <1>1, Zenon DEF AfterStatement, Over
<1>4. DOMAIN p = {"txn", "left", "snap", "next", "todo", "found", "own"} BY DEF IsSession
<1>5. /\ DOMAIN q = DOMAIN p /\ q.txn = p.txn /\ q.own = p.own /\ q.next = NoRow /\ q.todo = {}
      /\ q.left = IF GoesOn(Head(p.left), p.txn, Over(p.own, row), p.found)
                  THEN Tail(p.left) ELSE <<>>
  BY <1>3, <1>4, SMT
<1>6. IsSession(q) BY <1>4, <1>5 DEF IsSession
<1>7. Visits(q) = {} BY <1>5 DEF Visits
<1>8. Ordered(q.txn, q.left) /\ Fits(q.txn, At(q), q.own, row, Visits(q))
  <2>1. CASE GoesOn(Head(p.left), p.txn, Over(p.own, row), p.found)
    <3>1. q.left = Tail(p.left) BY <1>5, <2>1
    <3>2. Ordered(q.txn, q.left) BY <1>5, <3>1, TailOrdered
    <3>3. At(q) \in Follows[Head(p.left)] \/ (At(q) = "end" /\ Head(p.left) \notin NeverLast)
      BY <3>1, TailOrdered DEF At
    <3>4. Comes(Head(p.left), p.txn, Over(p.own, row), p.found, At(q)) BY <2>1, <3>3 DEF Comes
    <3>5. Fits(p.txn, At(q), p.own, row, {}) BY <3>4
    <3> QED BY <1>5, <1>7, <3>2, <3>5
  <2>2. CASE ~GoesOn(Head(p.left), p.txn, Over(p.own, row), p.found)
    <3>1. q.left = <<>> /\ At(q) = "end" BY <1>5, <2>2 DEF At
    <3>2. Ordered(q.txn, q.left) BY <3>1, SMT DEF Ordered, Path
    <3>3. Comes(Head(p.left), p.txn, Over(p.own, row), p.found, At(q)) BY <2>2, <3>1 DEF Comes
    <3>4. Fits(p.txn, At(q), p.own, row, {}) BY <3>3
    <3> QED BY <1>5, <1>7, <3>2, <3>4
  <2> QED BY <2>1, <2>2
<1> QED BY <1>1, <1>5, <1>6, <1>8 DEF Sane

\* A session in the middle of a statement that goes on to another row.
LEMMA MiddleSane ==
    ASSUME NEW q, NEW w, NEW P, IsSession(q), q.left # <<>>, Ordered(q.txn, q.left),
           q.next \in P, q.todo = P \ {q.next}, q.next # NoRow,
           P \subseteq Foot(Head(q.left), q.txn) \ DOMAIN q.own,
           Fits(q.txn, Head(q.left), q.own, w, P),
           Finds(Head(q.left), q.found, q.own)
    PROVE  Sane(q, w)
<1>1. At(q) = Head(q.left) BY DEF At
<1>2. Visits(q) = P BY DEF Visits
<1> QED BY <1>1, <1>2 DEF Sane

\* A session that starts a statement.
LEMMA ExecuteSane ==
    ASSUME NEW s \in Sessions, NoKey \notin Keys, NoRow \notin Rows, LocksInv, Execute(s)
    PROVE  \E q : /\ session' = [session EXCEPT ![s] = q] /\ Sane(q, row)
                  /\ DOMAIN q.own = Locked(s) /\ row' = row
<1> DEFINE q == session[s]
           t == q.txn
           st == Head(q.left)
           v == View(s)
           all == Touches(st, t, v)
           mine == all \cap Locked(s)
           own == [r \in Locked(s) |-> IF r \in mine THEN Written(st, t, v, r) ELSE v[r]]
           p == [q EXCEPT !.own = own, !.found = mine]
           P == all \ Locked(s)
<1>1. Sane(q, row) /\ Quiet(row) /\ row = [r \in Rows |-> row[r]] BY DEF LocksInv
<1>2. /\ q.left # <<>> /\ q.next = NoRow /\ row' = row
      /\ \/ all \subseteq Locked(s) /\ session' = [session EXCEPT ![s] = AfterStatement(s, p)]
         \/ \E r \in all \ Locked(s) :
              session' = [session EXCEPT ![s] =
                 [p EXCEPT !.snap = [x \in Reads(st) |-> v[x]], !.next = r,
                           !.todo = all \ (Locked(s) \cup {r})]]
  BY Zenon DEF Execute
<1>3. /\ IsSession(q) /\ Ordered(t, q.left) /\ Fits(t, st, q.own, row, {})
  BY <1>1, <1>2 DEF Sane, Visits, At
<1>4. /\ st \in StatementsOf(t.kind) /\ Keyed(st, t) /\ Foot(st, t) \subseteq Rows /\ IsTxn(t)
      /\ DOMAIN q.own \subseteq Rows
  BY <1>1, <1>2, SaneMiddle
<1>5. v = Over(q.own, row) /\ Locked(s) = DOMAIN q.own BY DEF View, Locked, Over
<1>6. Started(st, t, q.own, own, row, P, mine)
  <2> HIDE DEF q, t, st, v
  <2>1. \A x \in Locked(s) : own[x] = Eval(st, t, v, x) BY DEF Eval
  <2> QED BY <1>4, <1>5, <2>1 DEF Started
<1>7. /\ P \subseteq Foot(st, t) \ DOMAIN own
      /\ P # {} => Fits(t, st, own, row, P) /\ Finds(st, mine, own)
      /\ P = {} => \A st2 : Comes(st, t, Over(own, row), mine, st2) => Fits(t, st2, own, row, {})
  <2> HIDE DEF q, t, st, v, all, mine, own, P
  <2> QED BY <1>1, <1>3, <1>4, <1>6, ExecuteFits
<1>8. /\ p.txn = t /\ p.left = q.left /\ p.own = own /\ p.found = mine
      /\ DOMAIN p = {"txn", "left", "snap", "next", "todo", "found", "own"}
  <2>1. DOMAIN q = {"txn", "left", "snap", "next", "todo", "found", "own"} BY <1>3 DEF IsSession
  <2> HIDE DEF q, st, v, all, mine, own
  <2> QED BY <2>1, SMT DEF t
<1>9. DOMAIN own = Locked(s) /\ IsSession(p)
  <2>1. DOMAIN own = Locked(s) OBVIOUS
  <2> HIDE DEF q, t, st, v, all, mine, own, p
  <2> QED BY <1>4, <1>5, <1>8, <2>1 DEF IsSession
<1> HIDE DEF q, t, st, v, mine, own, p
<1>10. CASE all \subseteq Locked(s) /\ session' = [session EXCEPT ![s] = AfterStatement(s, p)]
  <2>1. P = {} BY <1>10
  <2> HIDE DEF P
  <2>2. \A st2 : Comes(Head(p.left), p.txn, Over(p.own, row), p.found, st2) =>
                    Fits(p.txn, st2, p.own, row, {})
    BY <1>7, <1>8, <2>1 DEF st
  <2>3. Sane(AfterStatement(s, p), row) /\ AfterStatement(s, p).own = p.own
    BY <1>2, <1>3, <1>8, <1>9, <2>2, AfterSane
  <2> QED BY <1>2, <1>8, <1>9, <1>10, <2>3
<1>11. ASSUME NEW r \in all \ Locked(s),
              session' = [session EXCEPT ![s] =
                 [p EXCEPT !.snap = [x \in Reads(st) |-> v[x]], !.next = r,
                           !.todo = all \ (Locked(s) \cup {r})]]
       PROVE  \E x : /\ session' = [session EXCEPT ![s] = x] /\ Sane(x, row)
                     /\ DOMAIN x.own = Locked(s) /\ row' = row
  <2>1. PICK x : x = [p EXCEPT !.snap = [y \in Reads(st) |-> v[y]], !.next = r,
                               !.todo = all \ (Locked(s) \cup {r})]
    OBVIOUS
  <2>2. /\ x.txn = t /\ x.left = q.left /\ x.own = own /\ x.found = mine /\ x.next = r
        /\ x.todo = P \ {r}
        /\ DOMAIN x = {"txn", "left", "snap", "next", "todo", "found", "own"}
    <3>1. /\ x.txn = p.txn /\ x.left = p.left /\ x.own = p.own /\ x.found = p.found /\ x.next = r
          /\ x.todo = all \ (Locked(s) \cup {r}) /\ DOMAIN x = DOMAIN p
      <4> HIDE DEF all
      <4> QED BY <1>8, <2>1, SMT
    <3> QED BY <1>8, <3>1
  <2>3. IsSession(x) BY <1>9, <1>8, <2>2 DEF IsSession
  <2>4. r \in P /\ r # NoRow BY <1>4, <1>7, <1>11
  <2>5. Sane(x, row)
    <3> HIDE DEF P
    <3>1. Fits(x.txn, Head(x.left), x.own, row, P) /\ x.left # <<>> /\ Ordered(x.txn, x.left)
      BY <1>2, <1>3, <1>7, <2>2, <2>4 DEF st
    <3>2. P \subseteq Foot(Head(x.left), x.txn) \ DOMAIN x.own
      BY <1>7, <2>2 DEF st
    <3>3. Finds(Head(x.left), x.found, x.own)
      BY <1>7, <2>2, <2>4 DEF st
    <3>4. x.next \in P /\ x.todo = P \ {x.next} /\ x.next # NoRow BY <2>2, <2>4
    <3> QED BY <2>3, <3>1, <3>2, <3>3, <3>4, MiddleSane
  <2>6. session' = [session EXCEPT ![s] = x] BY <1>11, <2>1, Zenon
  <2> QED BY <1>2, <1>9, <2>2, <2>5, <2>6
<1> QED BY <1>2, <1>10, <1>11

\* The session goes on to the next of the rows todo, or to its next statement.
LEMMA OnwardSane ==
    ASSUME NEW s, NEW p, NEW todo, NEW x \in Onward(s, p, todo), NoRow \notin Rows,
           IsSession(p), p.left # <<>>, Ordered(p.txn, p.left),
           Foot(Head(p.left), p.txn) \subseteq Rows,
           todo \subseteq Foot(Head(p.left), p.txn) \ DOMAIN p.own,
           todo # {} => /\ Fits(p.txn, Head(p.left), p.own, row, todo)
                        /\ Finds(Head(p.left), p.found, p.own),
           todo = {} => \A st2 : Comes(Head(p.left), p.txn, Over(p.own, row), p.found, st2) =>
                                    Fits(p.txn, st2, p.own, row, {})
    PROVE  Sane(x, row) /\ x.own = p.own
<1>1. CASE todo = {}
  <2>1. x = AfterStatement(s, p) BY <1>1 DEF Onward
  <2>2. Sane(AfterStatement(s, p), row) /\ AfterStatement(s, p).own = p.own BY <1>1, AfterSane
  <2> QED BY <2>1, <2>2, Zenon
<1>2. CASE todo # {}
  <2>1. PICK r \in todo : x = [p EXCEPT !.next = r, !.todo = todo \ {r}] BY <1>2, Zenon DEF Onward
  <2>2. DOMAIN p = {"txn", "left", "snap", "next", "todo", "found", "own"} BY DEF IsSession
  <2>3. /\ x.txn = p.txn /\ x.left = p.left /\ x.own = p.own /\ x.found = p.found /\ x.next = r
        /\ x.todo = todo \ {r} /\ DOMAIN x = DOMAIN p
    BY <2>1, <2>2, SMT
  <2>4. IsSession(x) BY <2>3 DEF IsSession
  <2>5. r # NoRow OBVIOUS
  <2>6. Sane(x, row)
    <3>1. Fits(x.txn, Head(x.left), x.own, row, todo) /\ x.left # <<>> /\ Ordered(x.txn, x.left)
      BY <1>2, <2>3
    <3>2. todo \subseteq Foot(Head(x.left), x.txn) \ DOMAIN x.own BY <2>3
    <3>3. Finds(Head(x.left), x.found, x.own) BY <1>2, <2>3
    <3>4. x.next \in todo /\ x.todo = todo \ {x.next} /\ x.next # NoRow BY <2>3, <2>5
    <3> QED BY <2>4, <3>1, <3>2, <3>3, <3>4, MiddleSane
  <2> QED BY <2>3, <2>6
<1> QED BY <1>1, <1>2

\* A claim's key is not what its statements are about.
LEMMA ClaimReordered ==
    ASSUME NEW t, NEW t2, NEW p, Ordered(t, p), t2.kind = t.kind, t2.parent = t.parent,
           t.kind = "claim" \/ t2.key = t.key
    PROVE  Ordered(t2, p)
<1>1. CASE t2.key = t.key BY <1>1 DEF Ordered, Path
<1>2. CASE t.kind = "claim"
  <2>1. StatementsOf(t.kind) \cap OfKey = {}
    BY <1>2, KindsDiffer DEF OfKey, KeyFree
  <2>2. p \in Seq(StatementsOf(t.kind)) BY DEF Ordered, Path
  <2>3. \A i \in 1..Len(p) : p[i] \in StatementsOf(t.kind) BY <2>2
  <2> QED BY <2>1, <2>3 DEF Ordered, Path
<1> QED BY <1>1, <1>2

\* Only a claim skips locked rows.
LEMMA PickClaims ==
    ASSUME NEW t, IsTxn(t), "pick" \in StatementsOf(t.kind)
    PROVE  t.kind = "claim"
BY KindsDiffer DEF IsTxn, BatchStatements, OnRunning, OfRetain, First, Work

\* A session that has got the lock it waited for.
LEMMA VisitSane ==
    ASSUME NEW s \in Sessions, NoKey \notin Keys, NoRow \notin Rows, LocksInv, Visit(s)
    PROVE  \E x : /\ session' = [session EXCEPT ![s] = x] /\ Sane(x, row) /\ row' = row
                  /\ DOMAIN x.own = Locked(s) \cup {session[s].next}
                  /\ ~LockedByOther(s, session[s].next)
<1> DEFINE q == session[s]
           t == q.txn
           r == q.next
           st == Head(q.left)
           v == [x \in Rows |-> IF x # r /\ x \in Reads(st) THEN q.snap[x] ELSE row[x]]
           matches == r \in Touches(st, t, v)
           new == IF matches THEN Written(st, t, v, r) ELSE row[r]
           picked == st = "pick" /\ matches
           own == [x \in Locked(s) \cup {r} |-> IF x = r THEN new ELSE q.own[x]]
           found == IF matches THEN q.found \cup {r} ELSE q.found
           t2 == [t EXCEPT !.key = IF picked THEN r[2] ELSE @]
           p == [q EXCEPT !.own = own, !.found = IF matches THEN @ \cup {r} ELSE @,
                          !.txn.key = IF picked THEN r[2] ELSE @]
           P == {r} \cup q.todo
           todo == IF picked THEN {} ELSE q.todo
<1>1. Sane(q, row) /\ Quiet(row) /\ row = [x \in Rows |-> row[x]] BY DEF LocksInv
<1>2. /\ r # NoRow /\ ~LockedByOther(s, r) /\ row' = row
      /\ \E after \in Onward(s, p, todo) : session' = [session EXCEPT ![s] = after]
  BY Zenon DEF Visit
<1>3. /\ IsSession(q) /\ Ordered(t, q.left) /\ q.left # <<>> /\ st = At(q) /\ Visits(q) = P
      /\ Fits(t, st, q.own, row, P) /\ P \subseteq Foot(st, t) \ DOMAIN q.own /\ r \notin q.todo
      /\ Finds(st, q.found, q.own)
  BY <1>1, <1>2 DEF Sane, Visits, At
<1>4. /\ st \in StatementsOf(t.kind) /\ Keyed(st, t) /\ Foot(st, t) \subseteq Rows /\ IsTxn(t)
      /\ DOMAIN q.own \subseteq Rows
  BY <1>1, <1>3, SaneMiddle
<1>5. Locked(s) = DOMAIN q.own /\ r \in Rows /\ r \notin DOMAIN q.own BY <1>3, <1>4 DEF Locked
<1>6. v[r] = row[r]
  <2> HIDE DEF q, r, st
  <2> QED BY <1>5
<1>7. Visited(st, t, q.own, own, row, P, r, v, q.found, found)
  <2> HIDE DEF q, r, st, t, v
  <2>1. own[r] = Eval(st, t, v, r) BY <1>6 DEF Eval
  <2>2. DOMAIN own = DOMAIN q.own \cup {r} /\ \A x \in DOMAIN q.own : own[x] = q.own[x]
    BY <1>5
  <2> HIDE DEF own
  <2> QED BY <1>3, <1>4, <1>5, <1>6, <2>1, <2>2 DEF Visited
<1>8. todo = IF picked THEN {} ELSE P \ {r}
  <2> HIDE DEF q, r, st, t, v, picked
  <2> QED BY <1>3
<1>9. /\ IsTxn(t2) /\ t2.kind = t.kind /\ t2.parent = t.parent /\ (st # "pick" => t2 = t)
      /\ todo \subseteq Foot(st, t2) \ DOMAIN own
      /\ todo # {} => Fits(t2, st, own, row, todo) /\ Finds(st, found, own)
      /\ todo = {} => \A st2 : Comes(st, t2, Over(own, row), found, st2) =>
                                  Fits(t2, st2, own, row, {})
  <2>1. Turned(st, t, t2, r, v, P, todo)
    <3> HIDE DEF q, r, st, t, v, P, todo
    <3> QED BY <1>8, Zenon DEF Turned
  <2> HIDE DEF q, t, r, st, v, matches, new, picked, own, found, t2, p, P, todo
  <2> QED BY <1>1, <1>3, <1>4, <1>7, <2>1, VisitFits
<1>10. /\ p.txn = t2 /\ p.left = q.left /\ p.own = own /\ p.found = found
       /\ DOMAIN p = {"txn", "left", "snap", "next", "todo", "found", "own"}
  <2>1. DOMAIN q = {"txn", "left", "snap", "next", "todo", "found", "own"} BY <1>3 DEF IsSession
  <2> HIDE DEF q, r, st, v, matches, new, picked, own
  <2> QED BY <2>1, SMT
<1>11. DOMAIN own = Locked(s) \cup {r} /\ IsSession(p)
  <2>1. DOMAIN own = Locked(s) \cup {r} OBVIOUS
  <2> HIDE DEF q, t, r, st, v, matches, new, picked, own, found, t2, p, P, todo
  <2> QED BY <1>4, <1>5, <1>9, <1>10, <2>1 DEF IsSession
<1>12. Ordered(t2, q.left)
  <2>1. st = "pick" => t.kind = "claim" BY <1>4, PickClaims
  <2> HIDE DEF q, t, r, st, v, matches, new, picked, own, found, t2, p, P, todo
  <2> QED BY <1>3, <1>9, <2>1, ClaimReordered
<1>13. Foot(st, t2) \subseteq Rows
  <2>1. st = "pick" => Foot(st, t2) = Actions BY DEF Foot, First
  <2>2. Actions \subseteq Rows BY RowSets
  <2> HIDE DEF q, t, r, st, v, matches, new, picked, own, found, t2, p, P, todo
  <2> QED BY <1>4, <1>9, <2>1, <2>2
<1>14. PICK x \in Onward(s, p, todo) : session' = [session EXCEPT ![s] = x] BY <1>2
<1>15. Sane(x, row) /\ x.own = own
  <2>1. Head(p.left) = st BY <1>10
  <2> HIDE DEF q, t, r, st, v, matches, new, picked, own, found, t2, p, P, todo
  <2> QED BY <1>3, <1>9, <1>10, <1>11, <1>12, <1>13, <2>1, OnwardSane
<1> QED BY <1>2, <1>11, <1>14, <1>15

\* claim: FOR UPDATE SKIP LOCKED goes on to another action.
LEMMA SkipSane ==
    ASSUME NEW s \in Sessions, NoKey \notin Keys, NoRow \notin Rows, LocksInv, Skip(s)
    PROVE  \E x : /\ session' = [session EXCEPT ![s] = x] /\ Sane(x, row) /\ row' = row
                  /\ DOMAIN x.own = Locked(s)
<1> DEFINE q == session[s]
           t == q.txn
           st == Head(q.left)
<1>1. Sane(q, row) BY DEF LocksInv
<1>2. /\ q.next # NoRow /\ st = "pick" /\ row' = row
      /\ \E after \in Onward(s, q, q.todo) : session' = [session EXCEPT ![s] = after]
  BY Zenon DEF Skip
<1>3. /\ IsSession(q) /\ Ordered(t, q.left) /\ q.left # <<>> /\ st = At(q)
      /\ Visits(q) = {q.next} \cup q.todo
      /\ Fits(t, st, q.own, row, Visits(q)) /\ Visits(q) \subseteq Foot(st, t) \ DOMAIN q.own
      /\ q.found = {}
  BY <1>1, <1>2 DEF Sane, Visits, At, Finds
<1>4. st \in StatementsOf(t.kind) /\ Foot(st, t) \subseteq Rows /\ IsTxn(t)
  BY <1>1, <1>3, SaneMiddle
<1>5. t.kind = "claim" BY <1>2, <1>4, PickClaims
<1>6. ClaimAt("pick", t.key, q.own, row) BY <1>2, <1>3, <1>5 DEF Fits
<1>7. ClaimAt("end", t.key, q.own, row) BY <1>6 DEF ClaimAt
<1>8. \A st2, Q : ClaimAt(st2, t.key, q.own, row) /\ (Q # {} \/ st2 # "pick") =>
            Fits(t, st2, q.own, row, Q)
  BY <1>5, KindsDiffer DEF Fits
<1>9. \A st2 : Comes(st, t, Over(q.own, row), q.found, st2) => st2 = "end"
  BY <1>2, <1>3 DEF Comes, GoesOn
<1>10. PICK x \in Onward(s, q, q.todo) : session' = [session EXCEPT ![s] = x] BY <1>2
<1> HIDE DEF q
<1>11. Sane(x, row) /\ x.own = q.own
  <2>1. q.todo # {} => /\ Fits(q.txn, Head(q.left), q.own, row, q.todo)
                       /\ Finds(Head(q.left), q.found, q.own)
    BY <1>2, <1>3, <1>6, <1>8 DEF Finds
  <2>2. q.todo = {} => \A st2 : Comes(Head(q.left), q.txn, Over(q.own, row), q.found, st2) =>
                                    Fits(q.txn, st2, q.own, row, {})
    BY <1>7, <1>8, <1>9
  <2>3. /\ q.todo \subseteq Foot(Head(q.left), q.txn) \ DOMAIN q.own
        /\ Foot(Head(q.left), q.txn) \subseteq Rows
    BY <1>3, <1>4
  <2>4. IsSession(q) /\ q.left # <<>> /\ Ordered(q.txn, q.left) BY <1>3
  <2> HIDE DEF t, st
  <2> QED BY <1>10, <2>1, <2>2, <2>3, <2>4, OnwardSane
<1> QED BY <1>2, <1>10, <1>11 DEF q, Locked

\* The head of two sequences, one after the other.
LEMMA HeadJoined ==
    ASSUME NEW S, NEW a \in Seq(S), NEW b \in Seq(S), a # <<>>
    PROVE  a \o b \in Seq(S) /\ a \o b # <<>> /\ Head(a \o b) = Head(a)
BY SMT

\* The statement every transaction on a batch starts with.
LEMMA BatchStarts ==
    ASSUME NEW kind \in BatchKinds
    PROVE  Program(kind) # <<>> /\ Head(Program(kind)) \in First \cup {"deleteBatches"}
<1> DEFINE S == BatchStatements
           done == <<"setDone", "recordPeak", "refreshChildren", "finishIfDone">>
           high == <<"raisePeak", "setHigh">>
           wait == <<"setWaiting">>
           lock == <<"lockRunning">>
           lockDone == <<"lockRunning", "lockIfDone">>
           lockFailed == <<"lockRunning", "lockIfDone", "setFailed">>
           failed == <<"setFailed">>
           finish == <<"finishIfDone">>
<1>1. /\ TakeResult \in Seq(S) /\ TakeResult # <<>> /\ Head(TakeResult) = "lockBatch"
      /\ TakeExpired \in Seq(S) /\ TakeExpired # <<>> /\ Head(TakeExpired) = "lockBatch"
  BY SMT DEF TakeResult, TakeExpired, BatchStatements, OnRunning, OfRetain, First, Work
<1>2. /\ Retry \in Seq(S) /\ Requeue \in Seq(S) /\ EndBatch \in Seq(S)
  BY SMT DEF Retry, Requeue, EndBatch, BatchStatements, OnRunning, OfRetain, First, Work
<1>3. /\ done \in Seq(S) /\ high \in Seq(S) /\ wait \in Seq(S)
      /\ lock \in Seq(S) /\ lock # <<>> /\ Head(lock) = "lockRunning"
      /\ lockDone \in Seq(S) /\ lockDone # <<>> /\ Head(lockDone) = "lockRunning"
      /\ lockFailed \in Seq(S) /\ lockFailed # <<>> /\ Head(lockFailed) = "lockRunning"
      /\ failed \in Seq(S) /\ failed # <<>> /\ finish \in Seq(S)
  BY SMT DEF BatchStatements, OnRunning, OfRetain, First, Work
<1>4. Fail \in Seq(S)
  <2>1. Fail = failed \o EndBatch \/ Fail = failed \o finish BY DEF Fail
  <2> HIDE DEF failed, finish, S
  <2> QED BY <1>2, <1>3, <2>1, HeadJoined
<1>5. "lockBatch" \in First /\ "lockRunning" \in First BY DEF First
<1> HIDE DEF S, done, high, wait, lock, lockDone, lockFailed, failed, finish
<1>6. CASE kind = "cancel"
  <2>1. Program("cancel") = lock \o EndBatch BY DEF Program, lock
  <2> QED BY <1>2, <1>3, <1>5, <1>6, <2>1, HeadJoined
<1>7. CASE kind = "done"
  <2>1. Program("done") = TakeResult \o done BY DEF Program, done
  <2> QED BY <1>1, <1>3, <1>5, <1>7, <2>1, HeadJoined
<1>8. CASE kind = "memory"
  <2>1. Program("memory") = TakeResult \o high \o Retry BY DEF Program, high
  <2>2. /\ TakeResult \o high \in Seq(S) /\ TakeResult \o high # <<>>
        /\ Head(TakeResult \o high) = "lockBatch"
    BY <1>1, <1>3, HeadJoined
  <2> QED BY <1>2, <1>5, <1>8, <2>1, <2>2, HeadJoined
<1>9. CASE kind = "missing"
  <2>1. Program("missing") = TakeResult \o wait \o Requeue BY DEF Program, wait
  <2>2. /\ TakeResult \o wait \in Seq(S) /\ TakeResult \o wait # <<>>
        /\ Head(TakeResult \o wait) = "lockBatch"
    BY <1>1, <1>3, HeadJoined
  <2> QED BY <1>2, <1>5, <1>9, <2>1, <2>2, HeadJoined
<1>10. CASE kind = "retry"
  <2>1. Program("retry") = TakeResult \o Retry BY DEF Program
  <2> QED BY <1>1, <1>2, <1>5, <1>10, <2>1, HeadJoined
<1>11. CASE kind = "failed"
  <2>1. Program("failed") = TakeResult \o Fail BY DEF Program
  <2> QED BY <1>1, <1>4, <1>5, <1>11, <2>1, HeadJoined
<1>12. CASE kind = "expire"
  <2>1. Program("expire") = TakeExpired \o Retry BY DEF Program
  <2> QED BY <1>1, <1>2, <1>5, <1>12, <2>1, HeadJoined
<1>13. CASE kind = "expireFinal"
  <2>1. Program("expireFinal") = TakeExpired \o Fail BY DEF Program
  <2> QED BY <1>1, <1>4, <1>5, <1>13, <2>1, HeadJoined
<1>14. CASE kind = "release"
  <2>1. Program("release") = <<"lockRunning", "makeReady">> BY DEF Program, ReleaseBatch
  <2> QED BY <1>5, <1>14, <2>1
<1>15. CASE kind = "evicted"
  <2>1. Program("evicted") = lockDone \o Requeue BY DEF Program, lockDone
  <2> QED BY <1>2, <1>3, <1>5, <1>15, <2>1, HeadJoined
<1>16. CASE kind = "evictedFinal"
  <2>1. Program("evictedFinal") = lockFailed \o EndBatch BY DEF Program, lockFailed
  <2> QED BY <1>2, <1>3, <1>5, <1>16, <2>1, HeadJoined
<1>17. CASE kind = "retain"
  <2>1. Program("retain") = <<"deleteBatches", "cascade">> BY DEF Program
  <2> QED BY <1>17, <2>1
<1>18. CASE kind = "missingFinal"
  <2>1. Program("missingFinal") = TakeResult \o failed \o EndBatch BY DEF Program, failed
  <2>2. /\ TakeResult \o failed \in Seq(S) /\ TakeResult \o failed # <<>>
        /\ Head(TakeResult \o failed) = "lockBatch"
    BY <1>1, <1>3, HeadJoined
  <2> QED BY <1>2, <1>5, <1>18, <2>1, <2>2, HeadJoined
<1> QED
  BY <1>6, <1>7, <1>8, <1>9, <1>10, <1>11, <1>12, <1>13, <1>14, <1>15, <1>16, <1>17, <1>18
  DEF BatchKinds

\* claim: run admission first, then the pick.
LEMMA ClaimStarts == Program("claim") # <<>> /\ Head(Program("claim")) \in {"admit", "pick"}
<1>1. Program("claim") = <<>> \o <<"pick", "insertLease">>
      \/ Program("claim") = <<"admit">> \o <<"pick", "insertLease">>
  BY DEF Program
<1>2. <<>> \o <<"pick", "insertLease">> = <<"pick", "insertLease">> BY SMT
<1>3. LET a == <<"admit">>
          b == <<"pick", "insertLease">>
      IN  a \o b # <<>> /\ Head(a \o b) = "admit"
  <2> DEFINE a == <<"admit">>
             b == <<"pick", "insertLease">>
             S == {"admit", "pick", "insertLease"}
  <2>1. a \in Seq(S) /\ b \in Seq(S) /\ a # <<>> /\ Head(a) = "admit" BY SMT
  <2> HIDE DEF a, b, S
  <2>2. a \o b # <<>> /\ Head(a \o b) = "admit" BY <2>1, HeadJoined
  <2> QED BY <2>2 DEF a, b
<1> QED BY <1>1, <1>2, <1>3

\* What is asked of the database can be run: a request about a lease or a product has a key.
LEMMA RequestsAskable ==
    ASSUME NEW t \in Requests, Parameters
    PROVE  Askable(t) /\ IsTxn(t) /\ (t.kind = "claim" => t.key = NoKey)
<1>1. ASSUME NEW kind, NEW k, NEW p, NEW ks, t = Txn(kind, k, p, ks),
             kind # "retain" => ks \subseteq Keys,
             kind \in BatchKinds \cup HintKinds \cup {"claim", "heartbeat"},
             kind \in OfLease \cup {"missing", "missingFinal", "evicted", "evictedFinal"} =>
                 k \in Keys /\ p \in Keys,
             kind = "claim" => k = NoKey
      PROVE  Askable(t) /\ IsTxn(t) /\ (t.kind = "claim" => t.key = NoKey)
  <2>1. t = [kind |-> kind, key |-> k, parent |-> p, keys |-> ks, stale |-> FALSE]
    BY <1>1 DEF Txn
  <2>2. t.kind = kind /\ t.key = k /\ t.parent = p /\ t.keys = ks BY <2>1
  <2>3. Askable(t) BY <1>1, <2>2 DEF Askable
  <2>4. IsTxn(t)
    <3>1. t = [kind |-> t.kind, key |-> t.key, parent |-> t.parent, keys |-> t.keys,
               stale |-> t.stale]
      BY <2>1, SMT
    <3> QED BY <1>1, <2>2, <3>1 DEF IsTxn
  <2> QED BY <1>1, <2>2, <2>3, <2>4
<1>2. Edges \subseteq Keys \X Keys BY DEF Edges, Parameters
<1>3. CASE \E kind \in OfLease, k \in {j \in Keys : row[Lease(j)] = "held"} :
              t = Txn(kind, k, k, {})
  <2>1. PICK kind \in OfLease, k \in Keys : t = Txn(kind, k, k, {}) BY <1>3
  <2>2. kind \in BatchKinds \cup HintKinds \cup {"claim", "heartbeat"} /\ kind # "claim"
    BY DEF OfLease, BatchKinds
  <2> QED BY <1>1, <2>1, <2>2
<1>4. CASE \E e \in {f \in Edges : row[Lease(f[1])] = "held"} : t = Txn("missing", e[1], e[2], {})
  <2>1. PICK e \in Edges : t = Txn("missing", e[1], e[2], {}) BY <1>4
  <2>2. e[1] \in Keys /\ e[2] \in Keys BY <1>2
  <2>3. "missing" \in BatchKinds BY DEF BatchKinds
  <2> QED BY <1>1, <2>1, <2>2, <2>3
<1>5. CASE \E kind \in {"evicted", "evictedFinal"},
              k \in {j \in Keys : row[Action(j)].state = "done" /\ \E e \in Edges : e[2] = j} :
                 t = Txn(kind, k, k, {})
  <2>1. PICK kind \in {"evicted", "evictedFinal"}, k \in Keys : t = Txn(kind, k, k, {}) BY <1>5
  <2>2. kind \in BatchKinds /\ kind # "claim" BY <2>1 DEF BatchKinds
  <2> QED BY <1>1, <2>1, <2>2
<1>6. CASE \E ks \in (SUBSET {k \in Keys : row[Action(k)].state = "waiting"
                                              /\ row[Action(k)].deps = 0})
                     \ {{}} : t = Txn("release", NoKey, NoKey, ks)
  <2>1. PICK ks \in SUBSET Keys : t = Txn("release", NoKey, NoKey, ks) BY <1>6
  <2>2. "release" \in BatchKinds /\ "release" \notin OfLease BY DEF BatchKinds, OfLease
  <2> QED BY <1>1, <2>1, <2>2
<1>7. CASE \E kind \in OfNothing : t = Txn(kind, NoKey, NoKey, {})
  <2>1. PICK kind \in OfNothing : t = Txn(kind, NoKey, NoKey, {}) BY <1>7
  <2>2. /\ kind \in BatchKinds \cup HintKinds \cup {"claim", "heartbeat"}
        /\ kind \notin OfLease \cup {"missing", "missingFinal", "evicted", "evictedFinal"}
    BY DEF OfNothing, OfLease, BatchKinds, HintKinds
  <2> QED BY <1>1, <2>1, <2>2
<1>15. CASE \E old \in (SUBSET {r \in BatchRows : row[r] \notin {"running", "gone"}}) \ {{}} :
               t = Txn("retain", NoKey, NoKey, old)
  <2>1. PICK old : t = Txn("retain", NoKey, NoKey, old) BY <1>15
  <2>2. /\ "retain" \in BatchKinds
        /\ "retain" \notin OfLease \cup {"missing", "missingFinal", "evicted", "evictedFinal"}
    BY DEF BatchKinds, OfLease
  <2> QED BY <1>1, <2>1, <2>2
<1> DEFINE held == {j \in Keys : row[Lease(j)] = "held"}
           needed == {f \in Edges : row[Lease(f[1])] = "held"}
           built == {j \in Keys : /\ row[Action(j)].state = "done"
                                  /\ \E e \in Edges : e[2] = j}
           free == {k \in Keys : /\ row[Action(k)].state = "waiting"
                                 /\ row[Action(k)].deps = 0}
           A == {Txn(kind, k, k, {}) : kind \in OfLease, k \in held}
           B == {Txn("missing", e[1], e[2], {}) : e \in needed}
           C == {Txn(kind, k, k, {}) : kind \in {"evicted", "evictedFinal"}, k \in built}
           D == {Txn("release", NoKey, NoKey, ks) : ks \in (SUBSET free) \ {{}}}
           E == {Txn(kind, NoKey, NoKey, {}) : kind \in OfNothing}
           ended == {r \in BatchRows : row[r] \notin {"running", "gone"}}
           F == {Txn("retain", NoKey, NoKey, old) : old \in (SUBSET ended) \ {{}}}
<1>8. Requests = A \cup B \cup C \cup D \cup F \cup E BY DEF Requests
<1>9. t \in A => \E kind \in OfLease, k \in held : t = Txn(kind, k, k, {}) OBVIOUS
<1>10. t \in B => \E e \in needed : t = Txn("missing", e[1], e[2], {}) OBVIOUS
<1>11. t \in C => \E kind \in {"evicted", "evictedFinal"}, k \in built : t = Txn(kind, k, k, {})
  OBVIOUS
<1>12. t \in D => \E ks \in (SUBSET free) \ {{}} : t = Txn("release", NoKey, NoKey, ks) OBVIOUS
<1>13. t \in E => \E kind \in OfNothing : t = Txn(kind, NoKey, NoKey, {}) OBVIOUS
<1>16. t \in F => \E old \in (SUBSET ended) \ {{}} : t = Txn("retain", NoKey, NoKey, old)
  OBVIOUS
<1>14. t \in A \/ t \in B \/ t \in C \/ t \in D \/ t \in E \/ t \in F
  <2> HIDE DEF A, B, C, D, E, F
  <2> QED BY <1>8
<1> HIDE DEF A, B, C, D, E, F
<1> QED
  BY <1>3, <1>4, <1>5, <1>6, <1>7, <1>9, <1>10, <1>11, <1>12, <1>13, <1>14, <1>15, <1>16, Zenon

\* A session that does nothing.
LEMMA IdleFacts ==
    /\ DOMAIN Idle = {"txn", "left", "snap", "next", "todo", "found", "own"}
    /\ Idle.txn.kind = "none" /\ IsTxn(Idle.txn) /\ Idle.left = <<>> /\ Idle.next = NoRow
    /\ Idle.todo = {} /\ DOMAIN Idle.own = {}
<1>1. PICK t : t = Txn("none", NoKey, NoKey, {}) OBVIOUS
<1>2. t.kind = "none" /\ IsTxn(t) BY <1>1, SMT DEF Txn, IsTxn
<1>3. /\ DOMAIN Idle = {"txn", "left", "snap", "next", "todo", "found", "own"}
      /\ Idle.txn = t /\ Idle.left = <<>> /\ Idle.next = NoRow
      /\ Idle.todo = {} /\ Idle.own = <<>>
  BY <1>1, SMT DEF Idle
<1>4. DOMAIN <<>> = {} BY SMT
<1> QED BY <1>2, <1>3, <1>4

\* A connection without a transaction holds nothing.
LEMMA IdleSane ==
    ASSUME NEW w
    PROVE  Sane(Idle, w)
<1>1. IsSession(Idle) BY IdleFacts DEF IsSession
<1>2. Ordered(Idle.txn, Idle.left) BY IdleFacts, SMT DEF Ordered, Path
<1>3. At(Idle) = "end" BY IdleFacts DEF At
<1>4. Fits(Idle.txn, At(Idle), Idle.own, w, Visits(Idle))
  BY <1>3, IdleFacts, KindsDiffer DEF Fits
<1> QED BY <1>1, <1>2, <1>4, IdleFacts DEF Sane

\* A transaction that begins.
LEMMA BeginSane ==
    ASSUME NEW s \in Sessions, Parameters, NEW t \in Requests, Begin(s, t)
    PROVE  \E x : /\ session' = [session EXCEPT ![s] = x] /\ Sane(x, row) /\ row' = row
                  /\ DOMAIN x.own = {}
<1>1. PICK x : x = [Idle EXCEPT !.txn = t, !.left = Program(t.kind)] OBVIOUS
<1>2. /\ DOMAIN x = DOMAIN Idle /\ x.txn = t /\ x.left = Program(t.kind) /\ x.next = NoRow
      /\ x.todo = {} /\ x.own = Idle.own
  BY <1>1, IdleFacts, SMT
<1>3. Askable(t) /\ IsTxn(t) /\ (t.kind = "claim" => t.key = NoKey) BY RequestsAskable
<1>4. Ordered(t, Program(t.kind)) BY <1>3, ProgramOrdered
<1>5. Visits(x) = {} BY <1>2 DEF Visits
<1>6. Fits(t, At(x), x.own, row, {})
  <2>1. CASE t.kind \in BatchKinds
    <3>1. At(x) \in First \cup {"deleteBatches"} BY <1>2, <2>1, BatchStarts DEF At
    <3>2. DOMAIN x.own = {} BY <1>2, IdleFacts
    <3>3. Retaining(x.own, row) BY <3>2 DEF Retaining
    <3>4. BatchAt(At(x), t.key, x.own, row) BY <3>1, <3>2, <3>3, BatchAtCases
    <3> QED BY <2>1, <3>4, KindsDiffer DEF Fits
  <2>2. CASE t.kind = "claim"
    <3>1. At(x) \in {"admit", "pick"} BY <1>2, <2>2, ClaimStarts DEF At
    <3>2. DOMAIN x.own = {} BY <1>2, IdleFacts
    <3>3. ClaimAt(At(x), t.key, x.own, row)
      BY <1>3, <2>2, <3>1, <3>2 DEF ClaimAt, Parameters
    <3> QED BY <2>2, <3>2, <3>3, KindsDiffer DEF Fits
  <2>3. CASE t.kind \in HintKinds \cup {"heartbeat"}
    <3>1. DOMAIN x.own = {} BY <1>2, IdleFacts
    <3> QED BY <2>3, <3>1, KindsDiffer DEF Fits
  <2> QED BY <1>3, <2>1, <2>2, <2>3 DEF Askable
<1>7. Sane(x, row)
  <2>1. IsSession(x) BY <1>2, <1>3, IdleFacts DEF IsSession
  <2> QED BY <1>2, <1>4, <1>5, <1>6, <2>1 DEF Sane
<1>8. session' = [session EXCEPT ![s] = x] /\ row' = row BY <1>1, Zenon DEF Begin
<1> QED BY <1>2, <1>7, <1>8, IdleFacts

\* One session moves and writes no committed row.
LEMMA OneMoves ==
    ASSUME LocksInv, NEW s \in Sessions, NEW x, session' = [session EXCEPT ![s] = x], row' = row,
           Sane(x, row), \A u \in Sessions \ {s} : DOMAIN x.own \cap Locked(u) = {}
    PROVE  LocksInv'
<1>1. session = [u \in Sessions |-> session[u]] BY DEF LocksInv
<1>2. /\ session' = [u \in Sessions |-> session'[u]] /\ session'[s] = x
      /\ \A u \in Sessions \ {s} : session'[u] = session[u]
  <2> HIDE <1>1
  <2>1. DOMAIN session = Sessions BY <1>1
  <2> QED BY <2>1
<1>3. \A u \in Sessions : Sane(session'[u], row') BY <1>2 DEF LocksInv
<1>4. Exclusive'
  <2>1. \A u \in Sessions : Locked(u)' = DOMAIN session'[u].own BY DEF Locked
  <2>2. \A u \in Sessions \ {s} : Locked(u)' = Locked(u) BY <1>2, <2>1 DEF Locked
  <2>3. Locked(s)' = DOMAIN x.own BY <1>2, <2>1
  <2>4. \A a, b \in Sessions : a # b => Locked(a)' \cap Locked(b)' = {}
    BY <2>2, <2>3 DEF LocksInv, Exclusive
  <2> QED BY <2>4 DEF Exclusive
<1>5. row' = [r \in Rows |-> row'[r]] /\ Quiet(row') BY DEF LocksInv
<1> QED BY <1>2, <1>3, <1>4, <1>5 DEF LocksInv

\* What a commit that leaves the batch's row alone does to the rows w: an action and its
\* lease stay, or a claim has taken the action.
Claimed(k, own, w, w2) ==
    /\ Action(k) \in DOMAIN own /\ Lease(k) \in DOMAIN own /\ w[Action(k)].state = "ready"
    /\ w2[Action(k)].state = "running" /\ w2[Lease(k)] = "held"
Grown(own, w, w2) ==
    /\ w2[Batch] = w[Batch]
    /\ \A k \in Keys : \/ w2[Action(k)] = w[Action(k)] /\ w2[Lease(k)] = w[Lease(k)]
                       \/ Claimed(k, own, w, w2)

\* Rows that stay outside the hints and the other batches stay sound.
LEMMA SameQuiet ==
    ASSUME NEW w, NEW w2, Quiet(w), \A r \in Rows : r \in Hints \cup Others \/ w2[r] = w[r]
    PROVE  Quiet(w2) /\ w2[Batch] = w[Batch]
           /\ \A k \in Keys : w2[Action(k)] = w[Action(k)] /\ w2[Lease(k)] = w[Lease(k)]
<1>1. /\ w2[Batch] = w[Batch]
      /\ \A k \in Keys : w2[Action(k)] = w[Action(k)] /\ w2[Lease(k)] = w[Lease(k)]
  BY RowSets
<1>2. Typed(w2) /\ HeldRuns(w2) BY <1>1 DEF Quiet, Typed, HeldRuns
<1>3. w2[Batch] # "running" => NoneUnfinished(w2) BY <1>1 DEF Quiet, NoneUnfinished
<1> QED BY <1>1, <1>2, <1>3 DEF Quiet

\* A commit leaves sound rows, ends no batch that has ended, and is a claim or on hints
\* unless it holds the batch.
LEMMA CommitRows ==
    ASSUME NEW t, IsTxn(t), NEW own, NEW w, DOMAIN own \subseteq Rows, Quiet(w), NoKey \notin Keys,
           Fits(t, "end", own, w, {})
    PROVE  /\ Quiet(Over(own, w))
           /\ w[Batch] # "running" => Over(own, w)[Batch] # "running"
           /\ Batch \notin DOMAIN own => Grown(own, w, Over(own, w))
<1> DEFINE w2 == Over(own, w)
<1>1. \A r \in Rows : w2[r] = IF r \in DOMAIN own THEN own[r] ELSE w[r] BY DEF Over
<1> HIDE DEF w2
<1>2. ASSUME \A r \in Rows : r \in Hints \cup Others \/ w2[r] = w[r]
      PROVE  Quiet(w2) /\ (w[Batch] # "running" => w2[Batch] # "running") /\ Grown(own, w, w2)
  BY <1>2, SameQuiet DEF Grown
<1>3. CASE t.kind = "none" \/ t.kind \in HintKinds
  <2>1. DOMAIN own \subseteq Hints BY <1>3 DEF Fits
  <2> QED BY <1>1, <1>2, <2>1 DEF w2
<1>4. CASE t.kind = "heartbeat"
  <2>1. \A r \in DOMAIN own : own[r] = w[r] BY <1>4 DEF Fits
  <2> QED BY <1>1, <1>2, <2>1 DEF w2
<1>5. CASE t.kind = "claim"
  <2>1. ClaimAt("end", t.key, own, w) BY <1>5 DEF Fits
  <2>2. CASE t.key \notin Keys
    <3>1. \A r \in DOMAIN own : own[r] = w[r] BY <2>1, <2>2 DEF ClaimAt
    <3> QED BY <1>1, <1>2, <3>1 DEF w2
  <2>3. CASE t.key \in Keys
    <3> DEFINE k == t.key
    <3> HIDE DEF k
    <3>1. /\ k \in Keys /\ Action(k) \in DOMAIN own /\ w[Action(k)].state = "ready"
          /\ IsAction(own[Action(k)]) /\ own[Action(k)].state = "running"
          /\ Lease(k) \in DOMAIN own /\ own[Lease(k)] = "held"
          /\ \A r \in DOMAIN own : own[r] = w[r] \/ r \in {Action(k), Lease(k)}
      BY <2>1, <2>3 DEF ClaimAt, k
    <3>2. \A r \in Rows : r \in {Action(k), Lease(k)} \/ w2[r] = w[r] BY <1>1, <3>1
    <3>3. /\ w2[Batch] = w[Batch] /\ w2[Action(k)] = own[Action(k)] /\ w2[Lease(k)] = "held"
      BY <1>1, <3>1, <3>2, RowSets, RowNames
    <3>4. \A j \in Keys : j # k => w2[Action(j)] = w[Action(j)] /\ w2[Lease(j)] = w[Lease(j)]
      BY <3>1, <3>2, RowSets, RowNames
    <3>5. w[Batch] = "running" BY <3>1 DEF Quiet, NoneUnfinished, Unfinished
    <3>6. Typed(w2) BY <3>1, <3>3, <3>4 DEF Quiet, Typed
    <3>7. HeldRuns(w2) BY <3>1, <3>3, <3>4 DEF Quiet, HeldRuns
    <3>8. Quiet(w2) BY <3>3, <3>5, <3>6, <3>7 DEF Quiet
    <3>9. Grown(own, w, w2) BY <3>1, <3>3, <3>4 DEF Grown, Claimed
    <3> QED BY <3>5, <3>8, <3>9 DEF w2
  <2> QED BY <2>2, <2>3
<1>6. CASE t.kind \in BatchKinds
  <2>1. Ended(own, w) BY <1>6, BatchAtCases DEF Fits
  <2>2. Quiet(w2) /\ (w[Batch] # "running" => w2[Batch] # "running") BY <2>1 DEF Ended, w2
  <2>3. Batch \notin DOMAIN own => \A r \in Rows : r \in Hints \cup Others \/ w2[r] = w[r]
    BY <1>1, <2>1 DEF Ended, Shape
  <2> QED BY <1>2, <2>2, <2>3 DEF w2
<1> QED BY <1>3, <1>4, <1>5, <1>6 DEF IsTxn

\* The view of a transaction that holds the batch, when another commits.
LEMMA ViewKept ==
    ASSUME NEW own, NEW own1, NEW w, NEW w2, Grown(own1, w, w2), Quiet(w2),
           DOMAIN own \cap DOMAIN own1 = {}, Typed(Over(own, w))
    PROVE  /\ Typed(Over(own, w2))
           /\ HeldRuns(Over(own, w)) => HeldRuns(Over(own, w2))
           /\ \A k \in Keys : Claimed(k, own1, w, w2) => Over(own, w)[Action(k)].state = "ready"
           /\ NoneUnfinished(Over(own, w)) =>
                 \A k \in Keys : /\ w2[Action(k)] = w[Action(k)] /\ w2[Lease(k)] = w[Lease(k)]
                                 /\ Over(own, w2)[Action(k)] = Over(own, w)[Action(k)]
                                 /\ Over(own, w2)[Lease(k)] = Over(own, w)[Lease(k)]
<1> DEFINE v == Over(own, w)
           v2 == Over(own, w2)
<1>1. \A r \in Rows : /\ v[r] = IF r \in DOMAIN own THEN own[r] ELSE w[r]
                      /\ v2[r] = IF r \in DOMAIN own THEN own[r] ELSE w2[r]
  BY DEF Over
<1> HIDE DEF v, v2
<1>2. ASSUME NEW k \in Keys
      PROVE  /\ v[Action(k)] = IF Action(k) \in DOMAIN own THEN own[Action(k)] ELSE w[Action(k)]
             /\ v[Lease(k)] = IF Lease(k) \in DOMAIN own THEN own[Lease(k)] ELSE w[Lease(k)]
             /\ v2[Action(k)] = IF Action(k) \in DOMAIN own THEN own[Action(k)] ELSE w2[Action(k)]
             /\ v2[Lease(k)] = IF Lease(k) \in DOMAIN own THEN own[Lease(k)] ELSE w2[Lease(k)]
  BY <1>1, RowSets
<1>3. ASSUME NEW k \in Keys, Claimed(k, own1, w, w2)
      PROVE  v[Action(k)].state = "ready" /\ v2[Action(k)] = w2[Action(k)]
             /\ v2[Lease(k)] = w2[Lease(k)]
  BY <1>2, <1>3 DEF Claimed
<1>4. ASSUME NEW k \in Keys, ~Claimed(k, own1, w, w2)
      PROVE  /\ w2[Action(k)] = w[Action(k)] /\ w2[Lease(k)] = w[Lease(k)]
             /\ v2[Action(k)] = v[Action(k)] /\ v2[Lease(k)] = v[Lease(k)]
  BY <1>2, <1>4 DEF Grown
<1>5. Typed(v2)
  <2>1. \A k \in Keys : v2[Action(k)] = v[Action(k)] \/ v2[Action(k)] = w2[Action(k)] BY <1>3, <1>4
  <2> QED BY <2>1 DEF Typed, Quiet, v
<1>6. HeldRuns(v) => HeldRuns(v2)
  <2>1. \A k \in Keys : \/ v2[Action(k)] = v[Action(k)] /\ v2[Lease(k)] = v[Lease(k)]
                        \/ v2[Action(k)] = w2[Action(k)] /\ v2[Lease(k)] = w2[Lease(k)]
    BY <1>3, <1>4
  <2> QED BY <2>1 DEF HeldRuns, Quiet
<1>7. NoneUnfinished(v) => \A k \in Keys : ~Claimed(k, own1, w, w2)
  BY <1>3 DEF NoneUnfinished, Unfinished
<1> QED BY <1>3, <1>4, <1>5, <1>6, <1>7 DEF v, v2

\* A transaction on the batch that waits or works while another transaction commits.
LEMMA BatchKept ==
    ASSUME NEW st, NEW key, NEW own, NEW own1, NEW w, NEW w2, NEW P, Quiet(w), Quiet(w2),
           DOMAIN own \subseteq Rows, DOMAIN own \cap DOMAIN own1 = {}, w2 = Over(own1, w),
           w[Batch] # "running" => w2[Batch] # "running",
           Batch \notin DOMAIN own1 => Grown(own1, w, w2),
           st \in BatchStatements \cup {"end"}, BatchAt(st, key, own, w),
           P # {} => Pending(st, own, w, P)
    PROVE  BatchAt(st, key, own, w2) /\ (P # {} => Pending(st, own, w2, P))
<1>1. \A r \in Rows : r \notin DOMAIN own1 => w2[r] = w[r] BY DEF Over
<1>2. \A r \in DOMAIN own : w2[r] = w[r] BY <1>1
<1> DEFINE v == Over(own, w)
           v2 == Over(own, w2)
<1>3. CASE st \in First
  <2>1. DOMAIN own = {} BY <1>3 DEF BatchAt
  <2>2. BatchAt(st, key, own, w2) BY <1>3, <2>1, BatchAtCases
  <2>3. Pending(st, own, w2, P) BY <1>3 DEF Pending, First
  <2> QED BY <2>2, <2>3
<1>4. CASE st = "takeLease"
  <2>1. /\ DOMAIN own \subseteq {Batch} /\ \A r \in DOMAIN own : own[r] = w[r]
        /\ DOMAIN own = {} => w[Batch] # "running"
    BY <1>4, BatchAtCases
  <2>2. BatchAt("takeLease", key, own, w2) BY <1>2, <2>1, BatchAtCases
  <2>3. P # {} => Pending(st, own, w2, P) BY <1>4 DEF Pending
  <2> QED BY <1>4, <2>2, <2>3
<1>5. ASSUME Batch \in DOMAIN own, Typed(v)
      PROVE  /\ Grown(own1, w, w2) /\ w2[Batch] = w[Batch] /\ Typed(v2)
             /\ HeldRuns(v) => HeldRuns(v2)
             /\ \A k \in Keys : Claimed(k, own1, w, w2) => v[Action(k)].state = "ready"
             /\ NoneUnfinished(v) =>
                   \A k \in Keys : /\ w2[Action(k)] = w[Action(k)] /\ w2[Lease(k)] = w[Lease(k)]
                                   /\ v2[Action(k)] = v[Action(k)] /\ v2[Lease(k)] = v[Lease(k)]
             /\ v[Batch] = own[Batch] /\ v2[Batch] = own[Batch]
  <2>1. Grown(own1, w, w2) /\ w2[Batch] = w[Batch] BY <1>5, <1>2
  <2>2. v[Batch] = own[Batch] /\ v2[Batch] = own[Batch] BY <1>5, RowSets DEF Over
  <2> QED BY <1>5, <2>1, <2>2, ViewKept
<1>6. TookHeld(own, w) => TookHeld(own, w2) BY <1>2 DEF TookHeld
<1>7. CASE st \in Work
  <2>1. /\ Working(own, w) /\ (st \in NoHints => DOMAIN own \cap Hints = {})
        /\ (st \in KeyFree => Free(key, own))
    BY <1>7 DEF BatchAt
  <2>2. Batch \in DOMAIN own /\ Typed(v) /\ HeldRuns(v) BY <2>1 DEF Working
  <2>3. Working(own, w2) BY <1>5, <1>6, <2>1, <2>2 DEF Working
  <2>4. st \notin First \cup {"takeLease", "cancelActions", "deleteLeases", "deleteBatches",
                             "cascade", "end"}
    BY <1>7 DEF Work, First
  <2>5. BatchAt(st, key, own, w2) BY <2>1, <2>3, <2>4 DEF BatchAt
  <2>6. Pending(st, own, w2, P) BY <2>4 DEF Pending
  <2> QED BY <2>5, <2>6
<1>8. CASE st \in {"cancelActions", "deleteLeases"}
  <2>1. Ending(own, w) /\ (st = "deleteLeases" => NoneUnfinished(v)) BY <1>8, BatchAtCases
  <2>2. Batch \in DOMAIN own /\ Typed(v) BY <2>1 DEF Ending
  <2>3. Ending(own, w2) BY <1>5, <1>6, <2>1, <2>2 DEF Ending
  <2>4. CASE st = "cancelActions"
    <3>1. ASSUME P # {}, NEW k \in Keys, v2[Action(k)].state \in Unfinished
          PROVE  Action(k) \in P
      <4>1. v[Action(k)].state \in Unfinished => Action(k) \in P BY <2>4, <3>1 DEF Pending
      <4>2. CASE Claimed(k, own1, w, w2) BY <1>5, <2>2, <4>1, <4>2 DEF Unfinished
      <4>3. CASE ~Claimed(k, own1, w, w2)
        <5>1. w2[Action(k)] = w[Action(k)] BY <1>5, <2>2, <4>3 DEF Grown
        <5>2. v2[Action(k)] = v[Action(k)] BY <5>1, RowSets DEF Over
        <5> QED BY <3>1, <4>1, <5>2
      <4> QED BY <4>2, <4>3
    <3>2. P # {} => Pending("cancelActions", own, w2, P) BY <3>1 DEF Pending
    <3> QED BY <2>3, <2>4, <3>2, BatchAtCases
  <2>5. CASE st = "deleteLeases"
    <3>1. NoneUnfinished(v) BY <2>1, <2>5
    <3>2. \A k \in Keys : /\ w2[Lease(k)] = w[Lease(k)]
                          /\ v2[Action(k)] = v[Action(k)] /\ v2[Lease(k)] = v[Lease(k)]
      BY <1>5, <2>2, <3>1
    <3>3. NoneUnfinished(v2) BY <3>1, <3>2 DEF NoneUnfinished
    <3>4. P # {} => \A k \in Keys : /\ v[Lease(k)] = "held" => Lease(k) \in P
                                    /\ Lease(k) \in P => w[Lease(k)] = "held"
      BY <2>5 DEF Pending
    <3>5. P # {} => Pending("deleteLeases", own, w2, P) BY <3>2, <3>4 DEF Pending
    <3> QED BY <2>3, <2>5, <3>3, <3>5, BatchAtCases
  <2> QED BY <1>8, <2>4, <2>5
<1>9. CASE st = "cascade"
  <2>1. Deleting(own, w) BY <1>9, BatchAtCases
  <2>2. Batch \in DOMAIN own /\ Quiet(v) /\ Typed(v) BY <2>1 DEF Deleting, Quiet
  <2>3. NoneUnfinished(v) BY <1>5, <2>1, <2>2 DEF Deleting, Quiet
  <2>4. \A k \in Keys : v2[Action(k)] = v[Action(k)] /\ v2[Lease(k)] = v[Lease(k)]
    BY <1>5, <2>2, <2>3
  <2>5. v2[Batch] = v[Batch] BY <1>5, <2>2
  <2>6. Quiet(v2)
    <3>1. Typed(v2) /\ HeldRuns(v2) BY <1>5, <2>2 DEF Quiet
    <3>2. NoneUnfinished(v2) BY <2>3, <2>4 DEF NoneUnfinished
    <3> QED BY <3>1, <3>2 DEF Quiet
  <2>7. w2[Batch] = w[Batch] BY <1>5, <2>2
  <2>8. Deleting(own, w2) BY <1>6, <2>1, <2>6, <2>7 DEF Deleting
  <2>9. P # {} => Pending("cascade", own, w2, P) BY <1>9 DEF Pending
  <2> QED BY <1>9, <2>8, <2>9, BatchAtCases
<1>10. CASE st = "end"
  <2>1. Ended(own, w) BY <1>10, BatchAtCases
  <2>2. CASE DOMAIN own \subseteq Others
    <3>1. \A r \in Rows : r \in Hints \cup Others \/ v2[r] = w2[r] BY <2>2 DEF Over
    <3>2. Quiet(v2) /\ v2[Batch] = w2[Batch] BY <3>1, SameQuiet
    <3>3. Ended(own, w2) BY <2>1, <3>2 DEF Ended
    <3>4. Pending("end", own, w2, P) BY DEF Pending
    <3> QED BY <1>10, <3>3, <3>4, BatchAtCases
  <2>3. CASE ~(DOMAIN own \subseteq Others)
    <3>1. Batch \in DOMAIN own /\ Quiet(v) /\ Typed(v) BY <2>1, <2>3 DEF Ended, Shape, Quiet
    <3>2. w2[Batch] = w[Batch] /\ v2[Batch] = v[Batch] BY <1>5, <3>1
    <3>3. v2[Batch] # "running" => NoneUnfinished(v2)
      <4>1. SUFFICES ASSUME v2[Batch] # "running" PROVE NoneUnfinished(v2) OBVIOUS
      <4>2. NoneUnfinished(v) BY <3>1, <3>2, <4>1 DEF Quiet
      <4>3. \A k \in Keys : v2[Action(k)] = v[Action(k)] BY <1>5, <3>1, <4>2
      <4> QED BY <4>2, <4>3 DEF NoneUnfinished
    <3>4. Typed(v2) /\ HeldRuns(v2) BY <1>5, <3>1 DEF Quiet
    <3>5. Quiet(v2) BY <3>3, <3>4 DEF Quiet
    <3>6. Ended(own, w2) BY <2>1, <3>2, <3>5 DEF Ended
    <3>7. Pending("end", own, w2, P) BY DEF Pending
    <3> QED BY <1>10, <3>6, <3>7, BatchAtCases
  <2> QED BY <2>2, <2>3
<1>11. CASE st = "deleteBatches"
  <2>1. Retaining(own, w) BY <1>11, BatchAtCases
  <2>2. Retaining(own, w2) BY <1>2, <2>1 DEF Retaining
  <2>3. P # {} => Pending("deleteBatches", own, w2, P) BY <1>11 DEF Pending
  <2> QED BY <1>11, <2>2, <2>3, BatchAtCases
<1> QED BY <1>3, <1>4, <1>7, <1>8, <1>9, <1>10, <1>11 DEF BatchStatements, OnRunning, OfRetain

\* A transaction while another one commits: the rows it holds are its own.
LEMMA FitsKept ==
    ASSUME NEW t, IsTxn(t), NEW t1, IsTxn(t1), NEW st, NEW own, NEW own1, NEW w, NEW P, Quiet(w),
           NoKey \notin Keys, DOMAIN own \subseteq Rows, DOMAIN own1 \subseteq Rows,
           DOMAIN own \cap DOMAIN own1 = {}, Fits(t1, "end", own1, w, {}),
           st \in StatementsOf(t.kind) \cup {"end"}, Fits(t, st, own, w, P)
    PROVE  Fits(t, st, own, Over(own1, w), P)
<1> DEFINE w2 == Over(own1, w)
<1>1. \A r \in DOMAIN own : w2[r] = w[r] BY DEF Over
<1>2. /\ Quiet(w2) /\ (w[Batch] # "running" => w2[Batch] # "running")
      /\ Batch \notin DOMAIN own1 => Grown(own1, w, w2)
  BY CommitRows
<1>3. CASE t.kind \in BatchKinds
  <2>1. st \in BatchStatements \cup {"end"} BY <1>3, KindsDiffer
  <2>2. BatchAt(st, t.key, own, w) /\ (P # {} => Pending(st, own, w, P)) BY <1>3 DEF Fits
  <2>3. BatchAt(st, t.key, own, w2) /\ (P # {} => Pending(st, own, w2, P))
    BY <1>2, <2>1, <2>2, BatchKept
  <2> QED BY <1>3, <2>3, KindsDiffer DEF Fits
<1> HIDE DEF w2
<1>4. CASE t.kind = "claim"
  <2>1. ClaimAt(st, t.key, own, w) /\ (st = "pick" /\ P = {} => DOMAIN own \cap Actions = {})
    BY <1>4 DEF Fits
  <2>2. ClaimAt(st, t.key, own, w2) BY <1>1, <2>1 DEF ClaimAt
  <2> QED BY <1>4, <2>1, <2>2, KindsDiffer DEF Fits, w2
<1>5. CASE t.kind = "heartbeat" BY <1>1, <1>5, KindsDiffer DEF Fits, w2
<1>6. CASE t.kind = "none" \/ t.kind \in HintKinds BY <1>6, KindsDiffer DEF Fits
<1> QED BY <1>3, <1>4, <1>5, <1>6 DEF IsTxn

\* A session whose attempt token has gone stale is where it was.
LEMMA StaleSane ==
    ASSUME NEW q, NEW w, Sane(q, w)
    PROVE  /\ Sane([q EXCEPT !.txn.stale = TRUE], w)
           /\ [q EXCEPT !.txn.stale = TRUE].own = q.own
<1>1. PICK t : t = [q.txn EXCEPT !.stale = TRUE] OBVIOUS
<1>2. PICK x : x = [q EXCEPT !.txn.stale = TRUE] OBVIOUS
<1>3. DOMAIN q = {"txn", "left", "snap", "next", "todo", "found", "own"} /\ IsTxn(q.txn)
  BY DEF Sane, IsSession
<1>4. /\ DOMAIN x = DOMAIN q /\ x.txn = t /\ x.left = q.left /\ x.next = q.next /\ x.todo = q.todo
      /\ x.found = q.found /\ x.own = q.own
  BY <1>1, <1>2, <1>3, SMT
<1>5. IsTxn(t) /\ t.kind = q.txn.kind /\ t.key = q.txn.key /\ t.parent = q.txn.parent
  BY <1>1, <1>3, TxnSet
<1>6. At(x) = At(q) /\ Visits(x) = Visits(q) BY <1>4 DEF At, Visits
<1>7. Foot(At(q), t) = Foot(At(q), q.txn) BY <1>5 DEF Foot
<1>8. Ordered(t, q.left) BY <1>5, ClaimReordered DEF Sane
<1>9. Fits(t, At(q), q.own, w, Visits(q)) BY <1>5 DEF Sane, Fits
<1>10. IsSession(x) BY <1>4, <1>5 DEF Sane, IsSession
<1>11. Sane(x, w) BY <1>4, <1>6, <1>7, <1>8, <1>9, <1>10 DEF Sane
<1> QED BY <1>2, <1>4, <1>11

\* A session while another one commits.
LEMMA SaneKept ==
    ASSUME NEW q, NEW q1, NEW w, Sane(q, w), Sane(q1, w), q1.left = <<>>, Quiet(w),
           NoKey \notin Keys,
           DOMAIN q.own \cap DOMAIN q1.own = {}
    PROVE  Sane(q, Over(q1.own, w))
<1>1. /\ IsTxn(q.txn) /\ IsTxn(q1.txn) /\ DOMAIN q.own \subseteq Rows
      /\ DOMAIN q1.own \subseteq Rows
  BY DEF Sane, IsSession
<1>2. At(q1) = "end" /\ Visits(q1) = {} BY DEF At, Visits, Sane
<1>3. At(q) \in StatementsOf(q.txn.kind) \cup {"end"}
  <2>1. q.left # <<>> => At(q) \in StatementsOf(q.txn.kind) BY SaneMiddle
  <2> QED BY <2>1 DEF At
<1>4. Fits(q.txn, At(q), q.own, Over(q1.own, w), Visits(q))
  <2>1. Fits(q1.txn, "end", q1.own, w, {}) BY <1>2 DEF Sane
  <2>2. Fits(q.txn, At(q), q.own, w, Visits(q)) BY DEF Sane
  <2> QED BY <1>1, <1>3, <2>1, <2>2, FitsKept
<1> QED BY <1>4 DEF Sane

\* A commit: every other session goes on with the rows it left.
LEMMA CommitInv ==
    ASSUME Parameters, LocksInv, NEW s \in Sessions, Commit(s)
    PROVE  LocksInv'
<1>1. /\ session[s].left = <<>> /\ row' = View(s)
      /\ session' = [u \in Sessions |->
          IF u = s THEN Idle
          ELSE IF session[u].txn.key \in Keys /\ row[Lease(session[u].txn.key)] = "held"
                  /\ row'[Lease(session[u].txn.key)] = "gone"
          THEN [session[u] EXCEPT !.txn.stale = TRUE]
          ELSE session[u]]
  BY Zenon DEF Commit
<1>2. /\ session' = [u \in Sessions |-> session'[u]] /\ session'[s] = Idle
      /\ \A u \in Sessions \ {s} : \/ session'[u] = session[u]
                                   \/ session'[u] = [session[u] EXCEPT !.txn.stale = TRUE]
  BY <1>1
<1>3. row' = Over(session[s].own, row) BY <1>1 DEF View, Over, Locked
<1>4. /\ Quiet(row) /\ \A u \in Sessions : Sane(session[u], row)
      /\ \A u \in Sessions \ {s} : DOMAIN session[u].own \cap DOMAIN session[s].own = {}
  BY DEF LocksInv, Exclusive, Locked
<1>5. Quiet(row')
  <2>1. /\ IsTxn(session[s].txn) /\ DOMAIN session[s].own \subseteq Rows
    BY <1>4 DEF Sane, IsSession
  <2>2. At(session[s]) = "end" /\ Visits(session[s]) = {} BY <1>1, <1>4 DEF At, Visits, Sane
  <2>3. Fits(session[s].txn, "end", session[s].own, row, {}) BY <1>4, <2>2 DEF Sane
  <2> QED BY <1>3, <1>4, <2>1, <2>3, CommitRows DEF Parameters
<1>6. row' = [r \in Rows |-> row'[r]] BY <1>3 DEF Over
<1>7. ASSUME NEW u \in Sessions \ {s}
      PROVE  Sane(session'[u], row') /\ session'[u].own = session[u].own
  <2>1. Sane(session[u], row') BY <1>1, <1>3, <1>4, SaneKept DEF Parameters
  <2>2. /\ Sane([session[u] EXCEPT !.txn.stale = TRUE], row')
        /\ [session[u] EXCEPT !.txn.stale = TRUE].own = session[u].own
    BY <2>1, StaleSane, Zenon
  <2>3. CASE session'[u] = session[u] BY <2>1, <2>3
  <2>4. CASE session'[u] = [session[u] EXCEPT !.txn.stale = TRUE] BY <2>2, <2>4, Zenon
  <2> QED BY <1>2, <2>3, <2>4
<1>8. \A u \in Sessions : Sane(session'[u], row') BY <1>2, <1>7, IdleSane
<1>9. Exclusive'
  <2>1. \A u \in Sessions : Locked(u)' = DOMAIN session'[u].own BY DEF Locked
  <2>2. Locked(s)' = {} BY <1>2, <2>1, IdleFacts
  <2>3. \A u \in Sessions \ {s} : Locked(u)' = Locked(u) BY <1>7, <2>1 DEF Locked
  <2>4. \A a, b \in Sessions : a # b => Locked(a)' \cap Locked(b)' = {}
    BY <2>2, <2>3 DEF LocksInv, Exclusive
  <2> QED BY <2>4 DEF Exclusive
<1> QED BY <1>2, <1>5, <1>6, <1>8, <1>9 DEF LocksInv

\* A submitted batch before anything is asked of it.
LEMMA LocksInit ==
    ASSUME Parameters, Init
    PROVE  LocksInv
<1>1. row = [r \in Rows |->
                CASE r = Batch -> "running"
                  [] r \in Others -> "done"
                  [] r \in Actions -> [state |-> "waiting",
                                       deps |-> Cardinality({e \in Edges : e[1] = r[2]})]
                  [] r \in Hints -> "stale"
                  [] OTHER -> "gone"]
      /\ session = [s \in Sessions |-> Idle]
  BY Zenon DEF Init
<1>2. row[Batch] = "running" BY <1>1, RowSets
<1>3. ASSUME NEW k \in Keys
      PROVE  IsAction(row[Action(k)]) /\ row[Lease(k)] = "gone"
  <2>1. /\ Action(k) \in Rows /\ Action(k) # Batch /\ Action(k) \in Actions
        /\ Action(k) \notin Hints /\ Action(k) \notin Others /\ Lease(k) \notin Others
        /\ Lease(k) \in Rows /\ Lease(k) # Batch /\ Lease(k) \notin Actions /\ Lease(k) \notin Hints
    BY RowSets, RowNames
  <2>2. row[Lease(k)] = "gone" BY <1>1, <2>1
  <2>3. \E n : row[Action(k)] = [state |-> "waiting", deps |-> n] BY <1>1, <2>1
  <2> QED BY <2>2, <2>3 DEF IsAction
<1>4. Quiet(row) BY <1>2, <1>3 DEF Quiet, Typed, HeldRuns
<1>5. row = [r \in Rows |-> row[r]] BY <1>1
<1>6. session = [s \in Sessions |-> session[s]] /\ \A s \in Sessions : session[s] = Idle BY <1>1
<1>7. Exclusive BY <1>6, IdleFacts DEF Exclusive, Locked
<1>8. \A s \in Sessions : Sane(session[s], row) BY <1>6, IdleSane
<1> QED BY <1>4, <1>5, <1>6, <1>7, <1>8 DEF LocksInv

\* Every step of the database.
LEMMA LocksStep ==
    ASSUME Parameters, LocksInv, [Next]_vars
    PROVE  LocksInv'
<1>1. NoKey \notin Keys /\ NoRow \notin Rows BY DEF Parameters
<1>2. ASSUME NEW s \in Sessions, NEW x, session' = [session EXCEPT ![s] = x], row' = row,
             Sane(x, row), DOMAIN x.own \subseteq Locked(s)
      PROVE  LocksInv'
  <2>1. \A u \in Sessions \ {s} : DOMAIN x.own \cap Locked(u) = {}
    BY <1>2 DEF LocksInv, Exclusive
  <2> QED BY <1>2, <2>1, OneMoves
<1>3. ASSUME NEW s \in Sessions, NEW t \in Requests, Begin(s, t) PROVE LocksInv'
  <2>1. PICK x : /\ session' = [session EXCEPT ![s] = x] /\ Sane(x, row) /\ row' = row
                 /\ DOMAIN x.own = {}
    BY <1>3, BeginSane
  <2> QED BY <1>2, <2>1
<1>4. ASSUME NEW s \in Sessions, Execute(s) PROVE LocksInv'
  <2>1. PICK x : /\ session' = [session EXCEPT ![s] = x] /\ Sane(x, row)
                 /\ DOMAIN x.own = Locked(s) /\ row' = row
    BY <1>1, <1>4, ExecuteSane
  <2> QED BY <1>2, <2>1
<1>5. ASSUME NEW s \in Sessions, Visit(s) PROVE LocksInv'
  <2>1. PICK x : /\ session' = [session EXCEPT ![s] = x] /\ Sane(x, row) /\ row' = row
                 /\ DOMAIN x.own = Locked(s) \cup {session[s].next}
                 /\ ~LockedByOther(s, session[s].next)
    BY <1>1, <1>5, VisitSane
  <2>2. \A u \in Sessions \ {s} : DOMAIN x.own \cap Locked(u) = {}
    BY <2>1 DEF LocksInv, Exclusive, LockedByOther
  <2> QED BY <2>1, <2>2, OneMoves
<1>6. ASSUME NEW s \in Sessions, Skip(s) PROVE LocksInv'
  <2>1. PICK x : /\ session' = [session EXCEPT ![s] = x] /\ Sane(x, row) /\ row' = row
                 /\ DOMAIN x.own = Locked(s)
    BY <1>1, <1>6, SkipSane
  <2> QED BY <1>2, <2>1
<1>7. ASSUME NEW s \in Sessions, Abort(s) PROVE LocksInv'
  <2>1. session' = [session EXCEPT ![s] = Idle] /\ row' = row BY <1>7 DEF Abort
  <2> QED BY <1>2, <2>1, IdleSane, IdleFacts
<1>8. CASE UNCHANGED vars
  <2>1. row' = row /\ session' = session BY <1>8 DEF vars
  <2>2. \A u \in Sessions : Locked(u)' = Locked(u) BY <2>1 DEF Locked
  <2>3. Exclusive' BY <2>2 DEF LocksInv, Exclusive
  <2> QED BY <2>1, <2>3 DEF LocksInv
<1> QED BY <1>3, <1>4, <1>5, <1>6, <1>7, <1>8, CommitInv DEF Next

\* A session that waits is in the middle of its program.
LEMMA Waits ==
    ASSUME LocksInv, NEW u \in Sessions, Blockers(u) # {}
    PROVE  LET q == session[u]
           IN  /\ q.left # <<>> /\ At(q) \in StatementsOf(q.txn.kind) /\ At(q) # "pick"
               /\ IsTxn(q.txn) /\ Keyed(At(q), q.txn)
               /\ q.next \in Foot(At(q), q.txn) /\ q.next \notin Locked(u)
               /\ Fits(q.txn, At(q), q.own, row, Visits(q)) /\ At(q) # "end"
<1> DEFINE q == session[u]
<1>1. q.next # NoRow /\ Head(q.left) # "pick" BY DEF Blockers
<1>2. Sane(q, row) BY DEF LocksInv
<1> HIDE DEF q
<1>3. q.left # <<>> /\ q.next \in Foot(At(q), q.txn) \ DOMAIN q.own BY <1>1, <1>2 DEF Sane, Visits
<1>4. /\ At(q) = Head(q.left) /\ At(q) \in StatementsOf(q.txn.kind) /\ At(q) \in Statements
      /\ Keyed(At(q), q.txn) /\ IsTxn(q.txn)
  BY <1>2, <1>3, SaneMiddle
<1>5. "end" \notin Statements BY DEF Statements, BatchStatements, OnRunning, OfRetain, First, Work
<1>6. Fits(q.txn, At(q), q.own, row, Visits(q)) BY <1>2 DEF Sane
<1> QED BY <1>1, <1>3, <1>4, <1>5, <1>6 DEF Locked, q

\* Whom a session waits for has the row it wants.
LEMMA BlockersHold ==
    ASSUME NEW u
    PROVE  /\ u \notin Blockers(u) /\ Blockers(u) \subseteq Sessions
           /\ \A x \in Blockers(u) : session[u].next \in Locked(x)
BY DEF Blockers

\* What a statement of a transaction on a running batch locks.
LEMMA BatchFoot ==
    ASSUME NEW st \in OnRunning, NEW t, Keyed(st, t)
    PROVE  \/ st \in First \cup {"endBatch", "finishIfDone"} /\ Foot(st, t) = {Batch}
           \/ st \in {"recordPeak", "raisePeak"} /\ Foot(st, t) \subseteq Hints
           \/ Foot(st, t) \subseteq Actions \cup LeaseRows
<1>1. CASE st \in First \cup {"endBatch", "finishIfDone"}
  <2>1. Foot(st, t) = {Batch} BY <1>1 DEF Foot, First
  <2> QED BY <1>1, <2>1
<1>2. CASE st \in {"recordPeak", "raisePeak"}
  <2>1. Foot(st, t) = {Hint(t.key)} BY <1>2 DEF Foot, First
  <2>2. t.key \in Keys BY <1>2 DEF Keyed, OfKey, KeyFree
  <2> QED BY <1>2, <2>1, <2>2, RowSets
<1>3. CASE st \in {"noteResult", "setDone", "setHigh", "setWaiting", "setFailed", "lockIfRuns",
                   "lockIfDone"}
  <2>1. Foot(st, t) = {Action(t.key)} BY <1>3 DEF Foot, First
  <2> QED BY <1>3, <2>1, RowSets DEF Keyed, OfKey, KeyFree
<1>4. CASE st = "takeLease"
  <2>1. Foot(st, t) = {Lease(t.key)} BY <1>4 DEF Foot, First
  <2> QED BY <1>4, <2>1, RowSets DEF Keyed, OfKey
<1>5. CASE st \in {"requeueParent", "refreshKey", "refreshParent", "refreshChildren", "makeReady",
                   "cancelActions", "deleteLeases"}
  BY <1>5 DEF Foot, First
<1> QED BY <1>1, <1>2, <1>3, <1>4, <1>5 DEF OnRunning, First, Work

\* A transaction on the batch that is not at its end and has the lease of a key has taken it
\* while it was held, so that the action runs and no claim is after it.
LEMMA LeaseWasHeld ==
    ASSUME NEW st \in BatchStatements, NEW key, NEW own, NEW w, Quiet(w), BatchAt(st, key, own, w),
           NEW k \in Keys, Lease(k) \in DOMAIN own
    PROVE  w[Action(k)].state # "ready"
<1>1. w[Lease(k)] = "held"
  <2>1. st \notin First BY DEF BatchAt
  <2>2. st # "takeLease" BY RowNames DEF BatchAt
  <2>5. st # "deleteBatches" BY RowSets DEF BatchAt, Retaining
  <2>3. st \in Work \cup {"cancelActions", "deleteLeases", "cascade"}
    BY <2>1, <2>2, <2>5 DEF BatchStatements, OnRunning, OfRetain
  <2>4. TookHeld(own, w) BY <2>3 DEF BatchAt, Working, Ending, Deleting
  <2> QED BY <2>4 DEF TookHeld
<1> QED BY <1>1 DEF Quiet, HeldRuns

\* A transaction on the batch holds the batch if it holds anything but other batches.
LEMMA BatchFirst ==
    ASSUME NEW st \in BatchStatements, NEW key, NEW own, NEW w, BatchAt(st, key, own, w)
    PROVE  /\ st \in First => DOMAIN own = {}
           /\ st \in OnRunning /\ DOMAIN own # {} => Batch \in DOMAIN own
           /\ Batch \notin DOMAIN own => DOMAIN own \subseteq Others
<1>1. st \in First => DOMAIN own = {} BY DEF BatchAt
<1>2. CASE st = "takeLease" BY <1>1, <1>2 DEF BatchAt
<1>3. CASE st = "deleteBatches"
  <2>1. DOMAIN own \subseteq BatchRows BY <1>3, BatchAtCases DEF Retaining
  <2>2. st \notin OnRunning BY <1>3 DEF OnRunning, First, Work
  <2> QED BY <1>1, <2>1, <2>2, RowSets
<1>4. CASE st \notin First \cup {"takeLease", "deleteBatches"}
  <2>1. st \in Work \cup {"cancelActions", "deleteLeases", "cascade"}
    BY <1>4 DEF BatchStatements, OnRunning, OfRetain
  <2> QED BY <1>1, <2>1 DEF BatchAt, Working, Ending, Deleting
<1> QED BY <1>1, <1>2, <1>3, <1>4

\* What keeps s from a circle.
LEMMA Apart ==
    ASSUME NEW s \in Sessions, NEW S \in SUBSET Sessions, s \notin S, Blockers(s) \subseteq S,
           \A u \in S : Blockers(u) \subseteq S
    PROVE  ~OnCycle(s)
BY DEF OnCycle

\* Who holds nothing blocks nobody.
LEMMA HoldsNothing ==
    ASSUME NEW s \in Sessions, Locked(s) = {}
    PROVE  ~OnCycle(s)
<1>1. \A u \in Sessions : s \notin Blockers(u) BY BlockersHold
<1>2. \A u \in Sessions : Blockers(u) \subseteq Sessions \ {s} BY <1>1, BlockersHold
<1>3. Sessions \ {s} \in SUBSET Sessions BY Zenon
<1> QED BY <1>2, <1>3, Apart

\* A claim is in no circle: while it inserts its lease nobody else that has the lease waits.
LEMMA ClaimApart ==
    ASSUME Parameters, LocksInv, NEW s \in Sessions, session[s].txn.kind = "claim"
    PROVE  ~OnCycle(s)
<1>1. SUFFICES ASSUME Blockers(s) # {}, Locked(s) # {} PROVE ~OnCycle(s)
  BY HoldsNothing DEF OnCycle
<1> DEFINE k == session[s].txn.key
<1>2. /\ At(session[s]) \in {"admit", "insertLease"} /\ At(session[s]) # "end"
      /\ ClaimAt(At(session[s]), k, session[s].own, row)
  BY <1>1, Waits, KindsDiffer DEF Fits
<1>3. At(session[s]) = "insertLease" BY <1>1, <1>2 DEF ClaimAt, Locked
<1>4. k \in Keys /\ row[Action(k)].state = "ready" BY <1>2, <1>3 DEF ClaimAt
<1>5. session[s].next = Lease(k) BY <1>1, <1>3, Waits DEF Foot, First
<1>6. ASSUME NEW u \in Blockers(s), Blockers(u) # {} PROVE FALSE
  <2>1. u \in Sessions /\ Lease(k) \in Locked(u) BY <1>5, BlockersHold
  <2> DEFINE q == session[u]
  <2>2. /\ IsTxn(q.txn) /\ Fits(q.txn, At(q), q.own, row, Visits(q)) /\ At(q) # "end"
        /\ At(q) \in StatementsOf(q.txn.kind) /\ Locked(u) = DOMAIN q.own
    BY <1>6, <2>1, Waits DEF Locked
  <2>3. Lease(k) \in LeaseRows /\ Lease(k) \notin Hints BY <1>4, RowSets
  <2> HIDE DEF q, k
  <2>4. CASE q.txn.kind = "none" BY <2>1, <2>2, <2>4 DEF Fits
  <2>5. CASE q.txn.kind \in HintKinds BY <2>1, <2>2, <2>3, <2>5 DEF Fits
  <2>6. CASE q.txn.kind = "heartbeat" BY <2>1, <2>2, <2>6 DEF Fits
  <2>7. CASE q.txn.kind = "claim"
    <3>1. ClaimAt(At(q), q.txn.key, q.own, row) BY <2>2, <2>7 DEF Fits
    <3> QED BY <2>1, <2>2, <2>3, <3>1 DEF ClaimAt
  <2>8. CASE q.txn.kind \in BatchKinds
    <3>1. BatchAt(At(q), q.txn.key, q.own, row) /\ At(q) \in BatchStatements
      BY <2>2, <2>8, KindsDiffer DEF Fits
    <3>2. Quiet(row) BY DEF LocksInv
    <3> QED BY <1>4, <2>1, <2>2, <3>1, <3>2, LeaseWasHeld
  <2> QED BY <2>2, <2>4, <2>5, <2>6, <2>7, <2>8 DEF IsTxn
<1>7. \A u \in Blockers(s) : Blockers(u) \subseteq Blockers(s) BY <1>6
<1>8. Blockers(s) \in SUBSET Sessions /\ s \notin Blockers(s) BY BlockersHold
<1> QED BY <1>7, <1>8, Apart

\* Only one transaction on the batch holds any of its rows or hints.
LEMMA OneBatch ==
    ASSUME LocksInv, NEW s \in Sessions, Batch \in Locked(s), NEW u \in Sessions, u # s,
           session[u].txn.kind \in BatchKinds, Blockers(u) # {}
    PROVE  Locked(u) \cap (Actions \cup LeaseRows \cup Hints) = {}
<1> DEFINE q == session[u]
<1>1. At(q) \in BatchStatements /\ BatchAt(At(q), q.txn.key, q.own, row) /\ Locked(u) = DOMAIN q.own
  BY Waits, KindsDiffer DEF Fits, Locked
<1> HIDE DEF q
<1>2. Batch \notin Locked(u) => Locked(u) \subseteq Others BY <1>1, BatchFirst
<1>3. Batch \notin Locked(u) BY DEF LocksInv, Exclusive
<1> QED BY <1>2, <1>3, RowSets

\* A completion, an expiry, a release, a re-queue or a cancel is in no circle: it holds the
\* batch, which keeps others of its kind and retention from the batch's rows; claims and
\* heartbeats that hold actions or leases do not wait for it, and who holds hints only waits
\* for hints.
LEMMA BatchApart ==
    ASSUME Parameters, LocksInv, NEW s \in Sessions,
           session[s].txn.kind \in BatchKinds \ {"retain"}
    PROVE  ~OnCycle(s)
<1>1. SUFFICES ASSUME Blockers(s) # {}, Locked(s) # {} PROVE ~OnCycle(s)
  BY HoldsNothing DEF OnCycle
<1> DEFINE p == session[s]
           st == At(p)
<1>2. /\ st \in BatchStatements /\ st \in OnRunning
      /\ BatchAt(st, p.txn.key, p.own, row) /\ Keyed(st, p.txn)
      /\ p.next \in Foot(st, p.txn) /\ p.next \notin Locked(s) /\ Locked(s) = DOMAIN p.own
  BY <1>1, Waits, KindsDiffer DEF Fits, Locked
<1> HIDE DEF p, st
<1>3. Batch \in Locked(s) BY <1>1, <1>2, BatchFirst
<1>4. CASE st \in {"recordPeak", "raisePeak"} /\ Foot(st, p.txn) \subseteq Hints
  <2> DEFINE S == {u \in Sessions : Locked(u) \cap Hints # {}}
  <2>1. s \notin S
    <3>1. st \in Work /\ st \in NoHints BY <1>4 DEF Work, NoHints
    <3>2. DOMAIN p.own \cap Hints = {} BY <1>2, <3>1 DEF BatchAt
    <3> QED BY <1>2, <3>2
  <2>2. Blockers(s) \subseteq S BY <1>2, <1>4, BlockersHold DEF p
  <2>3. ASSUME NEW u \in S, NEW x \in Blockers(u) PROVE x \in S
    <3> DEFINE q == session[u]
    <3>1. /\ u \in Sessions /\ u # s /\ x \in Sessions /\ q.next \in Locked(x) /\ Blockers(u) # {}
      BY <2>1, <2>3, BlockersHold
    <3>2. /\ IsTxn(q.txn) /\ Fits(q.txn, At(q), q.own, row, Visits(q)) /\ At(q) # "end"
          /\ At(q) \in StatementsOf(q.txn.kind) /\ Locked(u) = DOMAIN q.own
          /\ q.next \in Foot(At(q), q.txn)
      BY <3>1, Waits DEF Locked
    <3>3. q.txn.kind \notin BatchKinds BY <1>3, <2>3, <3>1, OneBatch
    <3> HIDE DEF q
    <3>4. CASE q.txn.kind \in {"none", "heartbeat"} BY <2>3, <3>2, <3>4, RowSets DEF Fits
    <3>5. CASE q.txn.kind = "claim"
      <4>1. ClaimAt(At(q), q.txn.key, q.own, row) BY <3>2, <3>5 DEF Fits
      <4>2. DOMAIN q.own \subseteq {Admission} \cup Actions \cup LeaseRows BY <4>1 DEF ClaimAt
      <4> QED BY <2>3, <3>2, <4>2, RowSets
    <3>6. CASE q.txn.kind \in HintKinds
      <4>1. At(q) \in {"useHints", "deleteHints"} BY <3>2, <3>6, KindsDiffer
      <4>2. Foot(At(q), q.txn) = Hints BY <4>1 DEF Foot, First
      <4> QED BY <3>1, <3>2, <4>2
    <3> QED BY <3>2, <3>3, <3>4, <3>5, <3>6 DEF IsTxn
  <2>4. S \in SUBSET Sessions BY Zenon
  <2> HIDE DEF S
  <2>5. \A u \in S : Blockers(u) \subseteq S BY <2>3
  <2> QED BY <2>1, <2>2, <2>4, <2>5, Apart
<1>5. CASE Foot(st, p.txn) \subseteq Actions \cup LeaseRows
  <2> DEFINE A == Actions \cup LeaseRows
             S == {u \in Sessions \ {s} : Locked(u) \cap A # {}}
  <2>1. s \notin S OBVIOUS
  <2>2. Blockers(s) \subseteq S BY <1>2, <1>5, BlockersHold DEF p
  <2>3. ASSUME NEW u \in S, NEW x \in Blockers(u) PROVE x \in S
    <3> DEFINE q == session[u]
    <3>1. /\ u \in Sessions /\ u # s /\ x \in Sessions /\ q.next \in Locked(x) /\ Blockers(u) # {}
      BY <2>1, <2>3, BlockersHold
    <3>2. /\ IsTxn(q.txn) /\ Fits(q.txn, At(q), q.own, row, Visits(q)) /\ At(q) # "end"
          /\ At(q) \in StatementsOf(q.txn.kind) /\ Locked(u) = DOMAIN q.own
          /\ q.next \in Foot(At(q), q.txn) /\ At(q) # "pick"
      BY <3>1, Waits DEF Locked
    <3>3. q.txn.kind \notin BatchKinds BY <1>3, <2>3, <3>1, OneBatch
    <3> HIDE DEF q
    <3>4. CASE q.txn.kind \in {"none", "heartbeat"} BY <2>3, <3>2, <3>4 DEF Fits
    <3>5. CASE q.txn.kind \in HintKinds BY <2>3, <3>2, <3>5, RowSets DEF Fits
    <3>6. CASE q.txn.kind = "claim"
      <4> DEFINE k == q.txn.key
      <4>1. ClaimAt(At(q), k, q.own, row) /\ At(q) \in {"admit", "insertLease"}
        BY <3>2, <3>6, KindsDiffer DEF Fits
      <4>2. At(q) = "insertLease" BY <2>3, <3>2, <4>1 DEF ClaimAt
      <4>3. k \in Keys /\ row[Action(k)].state = "ready" BY <4>1, <4>2 DEF ClaimAt
      <4>4. q.next = Lease(k) BY <3>2, <4>2 DEF Foot, First
      <4>5. x # s
        <5>1. Quiet(row) BY DEF LocksInv
        <5>2. Lease(k) \notin Locked(s)
          <6> HIDE DEF k
          <6> QED BY <1>2, <4>3, <5>1, LeaseWasHeld
        <5> QED BY <3>1, <4>4, <5>2
      <4>6. Lease(k) \in A BY <4>3, RowSets
      <4> QED BY <3>1, <4>4, <4>5, <4>6
    <3> QED BY <3>2, <3>3, <3>4, <3>5, <3>6 DEF IsTxn
  <2>4. S \in SUBSET Sessions BY Zenon
  <2> HIDE DEF S
  <2>5. \A u \in S : Blockers(u) \subseteq S BY <2>3
  <2> QED BY <2>1, <2>2, <2>4, <2>5, Apart
<1>6. CASE Foot(st, p.txn) = {Batch} BY <1>2, <1>3, <1>6
<1> QED BY <1>2, <1>4, <1>5, <1>6, BatchFoot

\* Transactions so ordered never wait for each other in a circle.
LEMMA LocksNoDeadlock ==
    ASSUME Parameters, LocksInv
    PROVE  NoDeadlock
<1>1. SUFFICES ASSUME NEW s \in Sessions, OnCycle(s)
               PROVE  session[s].txn.kind \in HintKinds \cup {"retain"}
  BY DEF NoDeadlock, HintKinds
<1>2. Blockers(s) # {} BY <1>1 DEF OnCycle
<1> DEFINE q == session[s]
<1>3. /\ IsTxn(q.txn) /\ Fits(q.txn, At(q), q.own, row, Visits(q)) /\ At(q) # "end"
      /\ Locked(s) = DOMAIN q.own
  BY <1>2, Waits DEF Locked
<1>4. q.txn.kind \notin {"none", "heartbeat"}
  <2> HIDE DEF q
  <2>1. SUFFICES ASSUME q.txn.kind \in {"none", "heartbeat"} PROVE FALSE OBVIOUS
  <2>2. Locked(s) = {} BY <1>3, <2>1 DEF Fits
  <2> QED BY <1>1, <2>2, HoldsNothing
<1>5. q.txn.kind \notin (BatchKinds \ {"retain"}) \cup {"claim"}
  BY <1>1, BatchApart, ClaimApart
<1> QED BY <1>3, <1>4, <1>5 DEF IsTxn

-----------------------------------------------------------------------------

\* "Lock order is a batch row first, then its actions and leases, so a completion, an
\* expiry and a cancel never deadlock": however the statements of any number of claims,
\* heartbeats, completions, expiries, releases, re-queues, cancels, submits and deletions
\* are interleaved, only submits and the deletions of old hints and of old batches, which
\* lock several rows in no order, can wait in a circle.
THEOREM TransactionsNeverDeadlock == Spec => []NoDeadlock
<1>1. Parameters BY ParametersAssumption
<1>2. Init => LocksInv BY <1>1, LocksInit
<1>3. LocksInv /\ [Next]_vars => LocksInv' BY <1>1, LocksStep
<1>4. LocksInv => NoDeadlock BY <1>1, LocksNoDeadlock
<1> QED BY <1>2, <1>3, <1>4, PTL DEF Spec
=============================================================================
