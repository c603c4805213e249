---------------------------- MODULE MetricsProofs ----------------------------
(***************************************************************************)
(* Proofs about the metrics registry, for any number of calls, series and  *)
(* buckets.                                                                *)
(*                                                                         *)
(* MetricsInv is inductive.  Its part about the running total survives a   *)
(* load of a bucket because the calls of that bucket were not among those  *)
(* of the buckets before it, and every other step because a set of counted *)
(* calls only grows.                                                       *)
(***************************************************************************)
EXTENDS MetricsRegistry, TLAPS, FiniteSetTheorems

USE DEF calls, histogram, labelled, page, vars

\* The calls counted of the buckets before b.
Below(b) == {c \in count : shape[c].bucket < b}

\* Sets of calls are finite, and a smaller set has a smaller value.
LEMMA Values ==
  ASSUME NEW S \in SUBSET Calls
  PROVE  /\ IsFiniteSet(S) /\ Cardinality(S) \in Nat
         /\ \A T \in SUBSET S : Cardinality(T) <= Cardinality(S)
<1>1. IsFiniteSet(S)  BY CallsAssumption, FS_Subset
<1> QED BY <1>1, FS_CardinalityType, FS_Subset

\* Additions to the labelled series, and lookups, leave types as they are.
LEMMA AddKeepsType ==
  ASSUME TypeOK, NEW c \in Calls, NEW s \in Series, Add(c, s)
  PROVE  series' \in [Series -> SUBSET Calls]
BY DEF TypeOK, Add

LEMMA CreateKeepsType ==
  ASSUME TypeOK, NEW new \in SUBSET Series, Create(new)
  PROVE  entries' \subseteq Series /\ series' \in [Series -> SUBSET Calls]
BY DEF TypeOK, Create

\* The series a call is counted in exist for its labels.
LEMMA LabelsAreSeries ==
  ASSUME TypeOK, NEW c \in Calls
  PROVE  /\ SeriesOf(shape[c].key) \subseteq Series
         /\ \A name \in PerRoute : Route(c, name) \in Series
         /\ Status(c) \in Series
         /\ Repeated(c) => Reason(c) \in Series
<1>1. shape[c] \in Shapes  BY DEF TypeOK
<1>2. /\ shape[c].key \in Keys /\ shape[c].status \in Statuses
      /\ shape[c].reason \in Reasons \union {"none"}
  BY <1>1 DEF Shapes
<1> QED BY <1>2 DEF Series, SeriesOf, PerRoute, Route, Status, Reason, Repeated

\* A call is at one place only, so once past "count" it stays past it.
LEMMA GotoKeepsPlace ==
  ASSUME TypeOK, NEW c \in Calls, NEW label \in Recording, Goto(c, label)
  PROVE  pc' \in [Calls -> Recording] /\ shape' \in [Calls -> Shapes]
BY DEF TypeOK, Goto

\* Steps on the labelled series: of the histogram they change nothing.
LEMMA RecordKeepsInv ==
  ASSUME MetricsInv, NEW c \in Calls, Record(c)
  PROVE  MetricsInv'
<1>1. TypeOK  BY DEF MetricsInv
<1>2. /\ TypeOK' /\ UNCHANGED <<shape, histogram, page>>
      /\ pc[c] # "count" /\ pc' = [pc EXCEPT ![c] = pc'[c]]
      /\ pc'[c] \in {"reason", "repeats"} => Repeated(c)
  <2> USE <1>1, LabelsAreSeries, GotoKeepsPlace DEF Recording
  <2>1. CASE FindRoute(c)
    <3>1. SeriesOf(shape[c].key) \union {Status(c)} \in SUBSET Series
      BY LabelsAreSeries
    <3> QED BY <2>1, <3>1, CreateKeepsType DEF FindRoute, TypeOK, At, Goto
  <2>2. CASE AddRequest(c)
    BY <2>2, AddKeepsType DEF AddRequest, PerRoute, Add, TypeOK, At, Goto
  <2>3. CASE AddStatus(c)
    BY <2>3, AddKeepsType DEF AddStatus, Add, TypeOK, At, Goto
  <2>4. CASE AddError(c)
    BY <2>4, AddKeepsType DEF AddError, PerRoute, Add, Skip, TypeOK, At, Goto
  <2>5. CASE AddRetry(c)
    BY <2>5, AddKeepsType DEF AddRetry, PerRoute, Add, Skip, TypeOK, At, Goto
  <2>6. CASE FindReason(c)
    <3>1. {Reason(c)} \in SUBSET Series  BY <2>6 DEF MetricsInv, FindReason, At
    <3> QED BY <2>6, <3>1, CreateKeepsType
        DEF FindReason, TypeOK, At, Goto, MetricsInv
  <2>7. CASE AddReason(c)
    BY <2>7, AddKeepsType DEF AddReason, Add, TypeOK, At, Goto
  <2> QED BY <2>1, <2>2, <2>3, <2>4, <2>5, <2>6, <2>7 DEF Record
<1>3. \A d \in Calls : /\ pc'[d] # "count" => d \in count'
                       /\ pc'[d] \in {"reason", "repeats"} => Repeated(d)'
  BY <1>1, <1>2 DEF MetricsInv, TypeOK, Repeated
<1>4. \A b \in 1 .. Buckets :
        bucket'[b] \subseteq {d \in count' : shape'[d].bucket = b}
  BY <1>2 DEF MetricsInv
<1>5. /\ line' = 0 => cumulative' = 0
      /\ line' \in 1 .. Buckets =>
           cumulative' <= Cardinality({d \in count' : shape'[d].bucket < line'})
      /\ line' > Buckets => printed'["Inf"] <= Cardinality(count')
      /\ HistogramIsCumulative'
  BY <1>2 DEF MetricsInv, HistogramIsCumulative
<1> QED BY <1>2, <1>3, <1>4, <1>5 DEF MetricsInv

\* Observing a call: the count it enters first only grows.
LEMMA ObserveKeepsInv ==
  ASSUME MetricsInv, NEW c \in Calls, Observe(c)
  PROVE  MetricsInv'
<1>1. TypeOK  BY DEF MetricsInv
<1>2. shape[c].bucket \in 1 .. Buckets  BY <1>1 DEF TypeOK, Shapes
<1>3. TypeOK' /\ count \subseteq count'
  BY <1>1, <1>2, GotoKeepsPlace
     DEF Observe, AddCount, AddSum, AddBucket, TypeOK, Recording, Goto
<1>4. /\ UNCHANGED <<shape, page, left>>
      /\ pc[c] \in {"count", "sum", "bucket"}
      /\ pc' = [pc EXCEPT ![c] = pc'[c]]
      /\ pc'[c] \in {"sum", "bucket", "route"}
      /\ c \in count'
  BY <1>1 DEF Observe, AddCount, AddSum, AddBucket, At, Goto, MetricsInv, TypeOK
<1>5. \A b \in 1 .. Buckets : bucket'[b] \subseteq bucket[b] \union {c}
                              /\ (c \in bucket'[b] /\ c \notin bucket[b] =>
                                    shape[c].bucket = b)
  BY <1>1, <1>2 DEF Observe, AddCount, AddSum, AddBucket, TypeOK
<1>6. \A b \in 1 .. Buckets :
        bucket'[b] \subseteq {d \in count' : shape'[d].bucket = b}
  BY <1>3, <1>4, <1>5 DEF MetricsInv
<1>7. Cardinality(count) <= Cardinality(count') /\ Cardinality(count') \in Nat
      /\ Cardinality(count) \in Nat
  BY <1>1, <1>3, Values DEF TypeOK
<1>8. /\ Cardinality(Below(line)) <= Cardinality(Below(line)')
      /\ Cardinality(Below(line)) \in Nat /\ Cardinality(Below(line)') \in Nat
  <2>1. Below(line) \subseteq Below(line)' /\ Below(line)' \subseteq Calls
    BY <1>3, <1>4 DEF Below, TypeOK
  <2> QED BY <2>1, Values
<1>9. line \in 1 .. Buckets => cumulative' <= Cardinality(Below(line)')
  BY <1>1, <1>4, <1>8 DEF MetricsInv, TypeOK, Below
<1> QED
  BY <1>1, <1>3, <1>4, <1>6, <1>7, <1>9
     DEF MetricsInv, HistogramIsCumulative, Below, TypeOK, Repeated

\* The running total takes in the calls of one more bucket, which are not among
\* those of the buckets before it.
LEMMA PrintBucketKeepsInv ==
  ASSUME MetricsInv, PrintBucket
  PROVE  MetricsInv'
<1>1. TypeOK /\ line \in 1 .. Buckets - 1 /\ line \in 1 .. Buckets
      /\ Buckets \in Nat
  BY BucketsAssumption DEF MetricsInv, PrintBucket
<1> DEFINE own == {c \in count : shape[c].bucket = line}
<1>2. Below(line) \subseteq Calls /\ own \subseteq Calls /\ bucket[line] \subseteq own
  BY <1>1 DEF Below, TypeOK, MetricsInv
<1>3. Below(line + 1) = Below(line) \union own /\ Below(line) \intersect own = {}
  BY <1>1 DEF Below, TypeOK, Shapes
<1>4. Cardinality(Below(line + 1)) = Cardinality(Below(line)) + Cardinality(own)
  <2>1. IsFiniteSet(Below(line)) /\ IsFiniteSet(own)  BY <1>2, Values
  <2>2. Cardinality(Below(line)) \in Nat /\ Cardinality(own) \in Nat
    BY <2>1, FS_CardinalityType
  <2> HIDE DEF own
  <2>3. Cardinality(Below(line) \union own) =
          Cardinality(Below(line)) + Cardinality(own) - Cardinality({})
    BY <1>3, <2>1, FS_Union
  <2>4. Cardinality({}) = 0  BY FS_EmptySet
  <2>5. Below(line + 1) = Below(line) \union own  BY ONLY <1>3
  <2>6. Cardinality(Below(line + 1)) = Cardinality(Below(line) \union own)
    BY ONLY <2>5
  <2> QED BY ONLY <2>2, <2>3, <2>4, <2>6
<1>5. Cardinality(bucket[line]) <= Cardinality(own)
      /\ Cardinality(bucket[line]) \in Nat /\ Cardinality(own) \in Nat
      /\ Cardinality(Below(line)) \in Nat
  <2>1. bucket[line] \in SUBSET Calls  BY <1>2
  <2> QED BY <1>2, <2>1, Values
<1>6. cumulative <= Cardinality(Below(line)) /\ cumulative \in Nat
  BY <1>1 DEF MetricsInv, Below, TypeOK
<1>7. cumulative' \in Nat /\ cumulative' <= Cardinality(Below(line + 1))
  <2> HIDE DEF own
  <2> QED BY <1>4, <1>5, <1>6 DEF PrintBucket
<1>8. line' = line + 1 /\ line' \in 1 .. Buckets
      /\ UNCHANGED <<calls, histogram, labelled, printed, left>>
  BY <1>1 DEF PrintBucket
<1>9. TypeOK'  BY <1>1, <1>7, <1>8 DEF TypeOK
<1>10. cumulative' <= Cardinality({c \in count' : shape'[c].bucket < line'})
  BY <1>7, <1>8 DEF Below
<1> HIDE DEF own
<1> QED BY <1>1, <1>8, <1>9, <1>10 DEF MetricsInv, HistogramIsCumulative, Repeated

\* The other lines of a page.
LEMMA PrintKeepsInv ==
  ASSUME MetricsInv,
         BeginScrape \/ PrintInf \/ PrintCount \/ LockMaps \/ PrintSeries
  PROVE  MetricsInv'
<1>1. TypeOK /\ Buckets \in Nat \ {0}  BY BucketsAssumption DEF MetricsInv
<1>2. count \subseteq Calls /\ Cardinality(count) \in Nat
  BY <1>1, Values DEF TypeOK
<1>3. CASE BeginScrape
  <2>1. Cardinality(Below(1)) \in Nat /\ cumulative = 0
    BY <1>2, <1>3, Values DEF Below, BeginScrape, MetricsInv
  <2> QED
    BY <1>1, <1>3, <2>1
       DEF BeginScrape, MetricsInv, HistogramIsCumulative, TypeOK, Below, Repeated
<1>4. CASE PrintInf
  <2>1. cumulative <= Cardinality(Below(Buckets))
        /\ Cardinality(Below(Buckets)) \in Nat
        /\ Cardinality(Below(Buckets)) <= Cardinality(count)
    <3>1. Below(Buckets) \in SUBSET count  BY DEF Below
    <3>2. Cardinality(Below(Buckets)) \in Nat  BY <1>2, <3>1, Values
    <3> QED BY <1>1, <1>2, <1>4, <3>1, <3>2, Values DEF PrintInf, MetricsInv, Below
  <2>2. TypeOK'  BY <1>1, <1>2, <1>4 DEF PrintInf, TypeOK
  <2> QED
    BY <1>1, <1>2, <1>4, <2>1, <2>2
       DEF PrintInf, MetricsInv, HistogramIsCumulative, TypeOK, Repeated
<1>5. CASE PrintCount
  BY <1>1, <1>2, <1>5
     DEF PrintCount, MetricsInv, HistogramIsCumulative, TypeOK, Repeated
<1>6. CASE LockMaps
  BY <1>1, <1>2, <1>6
     DEF LockMaps, MetricsInv, HistogramIsCumulative, TypeOK, Repeated
<1>7. CASE PrintSeries
  BY <1>1, <1>7
     DEF PrintSeries, MetricsInv, HistogramIsCumulative, TypeOK, Repeated
<1> QED BY <1>3, <1>4, <1>5, <1>6, <1>7

\* The order of the loads and additions of the registry keeps every page
\* consistent, for any number of calls in flight and any buckets.
THEOREM MetricsCorrect == Spec => []MetricsInv
<1>1. Init => MetricsInv
  BY BucketsAssumption
     DEF Init, MetricsInv, HistogramIsCumulative, TypeOK, Recording
<1>2. MetricsInv /\ [Next]_vars => MetricsInv'
  <2>1. ASSUME MetricsInv, UNCHANGED vars  PROVE MetricsInv'
    BY <2>1 DEF MetricsInv, HistogramIsCumulative, TypeOK, Repeated
  <2> QED BY <2>1, ObserveKeepsInv, RecordKeepsInv, PrintBucketKeepsInv,
             PrintKeepsInv DEF Next, Scrape
<1> QED BY <1>1, <1>2, PTL DEF Spec

\* A page never shows more observations in its buckets than in all.
THEOREM PagesAreCumulative == Spec => []HistogramIsCumulative
BY MetricsCorrect, PTL DEF MetricsInv

\* A handler changes the maps only when nobody holds routeMu.
LEMMA RecordersRespectLock ==
  ASSUME NEW c \in Calls, Observe(c) \/ Record(c), Locked
  PROVE  entries' = entries
BY DEF Observe, AddCount, AddSum, AddBucket, Record, FindRoute, AddRequest,
       AddStatus, AddError, AddRetry, FindReason, AddReason, Add, Skip

\* The maps of series are never written while a scraper ranges over them.
THEOREM MapsAreStill == Spec => MapsStandStill
<1>1. [Next]_vars => [Locked => UNCHANGED entries]_vars
  <2>1. ASSUME Scrape \/ UNCHANGED vars  PROVE UNCHANGED entries
    BY <2>1 DEF Scrape, BeginScrape, PrintBucket, PrintInf, PrintCount,
                LockMaps, PrintSeries
  <2> QED BY <2>1, RecordersRespectLock DEF Next
<1> QED BY <1>1, PTL DEF Spec, MapsStandStill

-----------------------------------------------------------------------------
\* What each call has been counted in, by how far its handler is.
Counted(c, s) ==
  \/ /\ s = Route(c, "requests")
     /\ pc[c] \in {"status", "errors", "retries", "reason", "repeats", "done"}
  \/ /\ s = Status(c)
     /\ pc[c] \in {"errors", "retries", "reason", "repeats", "done"}
  \/ /\ s = Route(c, "errors") /\ Failed(c)
     /\ pc[c] \in {"retries", "reason", "repeats", "done"}
  \/ /\ s = Route(c, "retries") /\ Repeated(c)
     /\ pc[c] \in {"reason", "repeats", "done"}
  \/ s = Reason(c) /\ Repeated(c) /\ pc[c] = "done"

\* Each counter holds the calls counted in it, and none is counted in a series
\* that is not in the maps.
SeriesInv ==
  /\ count = {c \in Calls : pc[c] # "count"}
  /\ sum = {c \in Calls : pc[c] \notin {"count", "sum"}}
  /\ \A b \in 1 .. Buckets :
       bucket[b] = {c \in Calls : /\ pc[c] \notin {"count", "sum", "bucket"}
                                  /\ shape[c].bucket = b}
  /\ \A s \in Series : series[s] = {c \in Calls : Counted(c, s)}
  /\ \A s \in Series, c \in Calls : Counted(c, s) => s \in entries
  /\ \A c \in Calls :
       /\ pc[c] \in {"requests", "status", "errors", "retries"} =>
            SeriesOf(shape[c].key) \union {Status(c)} \subseteq entries
       /\ pc[c] = "repeats" => Reason(c) \in entries

CountersGrow ==
  /\ count \subseteq count' /\ sum \subseteq sum'
  /\ \A b \in 1 .. Buckets : bucket[b] \subseteq bucket'[b]
  /\ entries \subseteq entries'
  /\ \A s \in Series : series[s] \subseteq series'[s]

\* The handler of c moves; what other calls are counted in stays.
LEMMA OthersCounted ==
  ASSUME TypeOK, NEW c \in Calls, NEW label, Goto(c, label)
  PROVE  \A d \in Calls \ {c}, s \in Series :
           (Counted(d, s)' <=> Counted(d, s)) /\ pc'[d] = pc[d]
BY DEF TypeOK, Goto, Counted, Route, Status, Reason, Failed, Repeated

\* A step of recording adds c to the one series its labels name, if any.
LEMMA CountingOne ==
  ASSUME TypeOK, SeriesInv, NEW c \in Calls, NEW label, Goto(c, label),
         NEW s0 \in Series, series' = [series EXCEPT ![s0] = @ \union {c}],
         \A s \in Series : Counted(c, s)' <=> Counted(c, s) \/ s = s0
  PROVE  /\ \A s \in Series : series'[s] = {d \in Calls : Counted(d, s)'}
         /\ \A s \in Series : series[s] \subseteq series'[s]
<1>1. \A s \in Series : series'[s] = IF s = s0 THEN series[s] \union {c} ELSE series[s]
  BY DEF TypeOK
<1>2. \A s \in Series : series[s] = {d \in Calls : Counted(d, s)}
  BY DEF SeriesInv
<1>3. \A s \in Series : \A d \in Calls :
        Counted(d, s)' <=> Counted(d, s) \/ (d = c /\ s = s0)
  BY OthersCounted
<1> QED BY ONLY <1>1, <1>2, <1>3

LEMMA CountingNone ==
  ASSUME TypeOK, SeriesInv, NEW c \in Calls, NEW label, Goto(c, label),
         \A s \in Series : series'[s] = series[s],
         \A s \in Series : Counted(c, s)' <=> Counted(c, s)
  PROVE  /\ \A s \in Series : series'[s] = {d \in Calls : Counted(d, s)'}
         /\ \A s \in Series : series[s] \subseteq series'[s]
<1>1. \A s \in Series : series[s] = {d \in Calls : Counted(d, s)}
  BY DEF SeriesInv
<1>2. \A s \in Series : \A d \in Calls : Counted(d, s)' <=> Counted(d, s)
  BY OthersCounted
<1> QED BY ONLY <1>1, <1>2, \A s \in Series : series'[s] = series[s]

\* New entries start at zero, and were at zero.
LEMMA CreatingKeeps ==
  ASSUME TypeOK, SeriesInv, NEW new \in SUBSET Series, Create(new)
  PROVE  \A s \in Series : series'[s] = series[s]
<1>1. \A s \in Series : s \notin entries => series[s] = {}
  BY DEF SeriesInv
<1> QED BY <1>1 DEF Create

LEMMA RecordCounts ==
  ASSUME MetricsInv, SeriesInv, NEW c \in Calls, Record(c)
  PROVE  SeriesInv' /\ CountersGrow
<1>1. TypeOK /\ pc[c] \in Recording  BY DEF MetricsInv, TypeOK
<1>2. /\ UNCHANGED <<shape, histogram>> /\ Goto(c, pc'[c])
      /\ pc[c] \notin {"count", "sum", "bucket"}
      /\ pc'[c] \notin {"count", "sum", "bucket"}
  BY <1>1 DEF Record, FindRoute, AddRequest, AddStatus, AddError, AddRetry,
              FindReason, AddReason, Add, Skip, At, Goto, TypeOK
<1>3. /\ count' = {d \in Calls : pc'[d] # "count"}
      /\ sum' = {d \in Calls : pc'[d] \notin {"count", "sum"}}
      /\ \A b \in 1 .. Buckets :
           bucket'[b] = {d \in Calls : /\ pc'[d] \notin {"count", "sum", "bucket"}
                                       /\ shape'[d].bucket = b}
  <2>1. \A d \in Calls : \A l \in {"count", "sum", "bucket"} : pc'[d] = l <=> pc[d] = l
    BY <1>1, <1>2 DEF Goto, TypeOK
  <2> QED BY <1>2, <2>1 DEF SeriesInv
<1>4. /\ \A s \in Series : series'[s] = {d \in Calls : Counted(d, s)'}
      /\ \A s \in Series : series[s] \subseteq series'[s]
  <2> USE DEF Counted, At
  <2>0. /\ Goto(c, pc'[c]) /\ pc' = [pc EXCEPT ![c] = pc'[c]] /\ shape' = shape
        /\ \A s \in Series : Route(c, "requests")' = Route(c, "requests")
    BY <1>1, <1>2 DEF Goto, Route
  <2>1. CASE FindRoute(c)
    <3>1. SeriesOf(shape[c].key) \union {Status(c)} \in SUBSET Series
      BY <1>1, LabelsAreSeries
    <3>2. \A s \in Series : series'[s] = series[s]
      BY <1>1, <2>1, <3>1, CreatingKeeps DEF FindRoute
    <3>3. \A s \in Series : Counted(c, s)' <=> Counted(c, s)
      BY <1>1, <2>1 DEF FindRoute, Goto, TypeOK
    <3> QED BY <1>1, <2>0, <3>2, <3>3, CountingNone
  <2>2. CASE AddRequest(c)
    <3>1. \A s \in Series : Counted(c, s)' <=> Counted(c, s) \/ s = Route(c, "requests")
      BY <1>1, <2>2 DEF AddRequest, Goto, TypeOK, Route
    <3> QED BY <1>1, <2>0, <2>2, <3>1, LabelsAreSeries, CountingOne
        DEF AddRequest, Add, PerRoute
  <2>3. CASE AddStatus(c)
    <3>1. \A s \in Series : Counted(c, s)' <=> Counted(c, s) \/ s = Status(c)
      BY <1>1, <2>3 DEF AddStatus, Goto, TypeOK, Route, Status
    <3> QED BY <1>1, <2>0, <2>3, <3>1, LabelsAreSeries, CountingOne
        DEF AddStatus, Add
  <2>4. CASE AddError(c) /\ Failed(c)
    <3>1. \A s \in Series : Counted(c, s)' <=> Counted(c, s) \/ s = Route(c, "errors")
      BY <1>1, <2>4 DEF AddError, Goto, TypeOK, Route, Status, Failed
    <3> QED BY <1>1, <2>0, <2>4, <3>1, LabelsAreSeries, CountingOne
        DEF AddError, Add, PerRoute
  <2>5. CASE AddError(c) /\ ~Failed(c)
    <3>1. \A s \in Series : Counted(c, s)' <=> Counted(c, s)
      BY <1>1, <2>5 DEF AddError, Goto, TypeOK, Route, Status, Failed
    <3> QED BY <1>1, <2>0, <2>5, <3>1, CountingNone DEF AddError, Skip
  <2>6. CASE AddRetry(c) /\ Repeated(c)
    <3>1. \A s \in Series : Counted(c, s)' <=> Counted(c, s) \/ s = Route(c, "retries")
      BY <1>1, <2>6 DEF AddRetry, Goto, TypeOK, Route, Status, Failed, Repeated
    <3> QED BY <1>1, <2>0, <2>6, <3>1, LabelsAreSeries, CountingOne
        DEF AddRetry, Add, PerRoute
  <2>7. CASE AddRetry(c) /\ ~Repeated(c)
    <3>1. \A s \in Series : Counted(c, s)' <=> Counted(c, s)
      BY <1>1, <2>7 DEF AddRetry, Goto, TypeOK, Route, Status, Failed, Repeated
    <3> QED BY <1>1, <2>0, <2>7, <3>1, CountingNone DEF AddRetry, Skip
  <2>8. CASE FindReason(c)
    <3>1. {Reason(c)} \in SUBSET Series
      BY <1>1, <2>8, LabelsAreSeries DEF MetricsInv, FindReason
    <3>2. \A s \in Series : series'[s] = series[s]
      BY <1>1, <2>8, <3>1, CreatingKeeps DEF FindReason
    <3>3. \A s \in Series : Counted(c, s)' <=> Counted(c, s)
      BY <1>1, <2>8 DEF FindReason, Goto, TypeOK, Route, Status, Failed, Repeated
    <3> QED BY <1>1, <2>0, <3>2, <3>3, CountingNone
  <2>9. CASE AddReason(c)
    <3>1. Repeated(c)  BY <2>9 DEF MetricsInv, AddReason
    <3>2. \A s \in Series : Counted(c, s)' <=> Counted(c, s) \/ s = Reason(c)
      BY <1>1, <2>9, <3>1
         DEF AddReason, Goto, TypeOK, Route, Status, Failed, Repeated, Reason
    <3> QED BY <1>1, <2>0, <2>9, <3>1, <3>2, LabelsAreSeries, CountingOne
        DEF AddReason, Add
  <2> QED BY <2>1, <2>2, <2>3, <2>4, <2>5, <2>6, <2>7, <2>8, <2>9 DEF Record
\* What a call is counted in is in the maps by then, and stays there.
<1>5. /\ entries \subseteq entries'
      /\ \A s \in Series, d \in Calls : Counted(d, s)' => s \in entries'
      /\ \A d \in Calls :
           /\ pc'[d] \in {"requests", "status", "errors", "retries"} =>
                SeriesOf(shape'[d].key) \union {Status(d)'} \subseteq entries'
           /\ pc'[d] = "repeats" => Reason(d)' \in entries'
  <2>1. entries \subseteq entries'
    BY DEF Record, FindRoute, AddRequest, AddStatus, AddError, AddRetry,
           FindReason, AddReason, Add, Skip, Create
  <2>2. \A d \in Calls \ {c} : pc'[d] = pc[d] /\ shape'[d] = shape[d]
    BY <1>1, <1>2 DEF Goto, TypeOK
  <2>3. ASSUME NEW d \in Calls \ {c}
        PROVE  /\ \A s \in Series : Counted(d, s)' => s \in entries'
               /\ pc'[d] \in {"requests", "status", "errors", "retries"} =>
                    SeriesOf(shape'[d].key) \union {Status(d)'} \subseteq entries'
               /\ pc'[d] = "repeats" => Reason(d)' \in entries'
    BY <1>1, <1>2, <2>1, <2>2, <2>3, OthersCounted DEF SeriesInv, Status, Reason
  <2>4. /\ pc'[c] \in {"requests", "status", "errors", "retries"} =>
             SeriesOf(shape'[c].key) \union {Status(c)'} \subseteq entries'
        /\ pc'[c] = "repeats" => Reason(c)' \in entries'
    BY <1>1, <1>2, <2>1
       DEF Record, FindRoute, AddRequest, AddStatus, AddError, AddRetry,
           FindReason, AddReason, Create, SeriesInv, Goto, At, TypeOK, Status,
           Reason
  <2>5. \A s \in Series : Counted(c, s)' => s \in entries'
    <3>1. ASSUME NEW s \in Series, Counted(c, s)', ~Counted(c, s)
          PROVE  \/ /\ s \in SeriesOf(shape[c].key) \union {Status(c)}
                    /\ pc[c] \in {"requests", "status", "errors", "retries"}
                 \/ s = Reason(c) /\ pc[c] = "repeats"
      BY <1>1, <1>2, <3>1
         DEF Record, FindRoute, AddRequest, AddStatus, AddError, AddRetry,
             FindReason, AddReason, Goto, At, TypeOK, Counted, Route, Status,
             Reason, SeriesOf, PerRoute, Failed, Repeated
    <3>2. \A s \in Series : Counted(c, s) => s \in entries  BY DEF SeriesInv
    <3> QED BY <2>1, <3>1, <3>2 DEF SeriesInv
  <2> QED BY <2>1, <2>3, <2>4, <2>5
<1>6. CountersGrow  BY <1>2, <1>4, <1>5 DEF CountersGrow
<1> QED BY <1>3, <1>4, <1>5, <1>6 DEF SeriesInv

\* Observing a call counts it in the histogram and in no series.
LEMMA ObserveCounts ==
  ASSUME MetricsInv, SeriesInv, NEW c \in Calls, Observe(c)
  PROVE  SeriesInv' /\ CountersGrow
<1>1. TypeOK  BY DEF MetricsInv
<1>2. /\ pc[c] \in {"count", "sum", "bucket"} /\ Goto(c, pc'[c])
      /\ pc'[c] \in {"sum", "bucket", "route"} /\ UNCHANGED labelled
      /\ shape[c].bucket \in 1 .. Buckets
  BY <1>1 DEF Observe, AddCount, AddSum, AddBucket, At, Goto, TypeOK, Shapes
<1>3. \A d \in Calls : \A s \in Series :
        (Counted(d, s)' <=> Counted(d, s)) /\ (d # c => pc'[d] = pc[d])
  <2>1. \A s \in Series : ~Counted(c, s) /\ ~Counted(c, s)'
    BY <1>2 DEF Counted
  <2> QED BY <1>1, <1>2, <2>1, OthersCounted
<1>4. \A d \in Calls : d # c => pc'[d] = pc[d]
  BY <1>1, <1>2 DEF Goto, TypeOK
<1>5. /\ count' = {d \in Calls : pc'[d] # "count"}
      /\ sum' = {d \in Calls : pc'[d] \notin {"count", "sum"}}
      /\ \A b \in 1 .. Buckets :
           bucket'[b] = {d \in Calls : /\ pc'[d] \notin {"count", "sum", "bucket"}
                                       /\ shape'[d].bucket = b}
  <2>1. CASE AddCount(c)
    BY <1>1, <1>4, <2>1 DEF AddCount, At, Goto, TypeOK, SeriesInv
  <2>2. CASE AddSum(c)
    BY <1>1, <1>4, <2>2 DEF AddSum, At, Goto, TypeOK, SeriesInv
  <2>3. CASE AddBucket(c)
    BY <1>1, <1>2, <1>4, <2>3 DEF AddBucket, At, Goto, TypeOK, SeriesInv
  <2> QED BY <2>1, <2>2, <2>3 DEF Observe
<1>6. CountersGrow
  BY <1>1, <1>2 DEF CountersGrow, Observe, AddCount, AddSum, AddBucket, TypeOK
<1>7. \A d \in Calls :
        /\ pc'[d] \in {"requests", "status", "errors", "retries"} =>
             SeriesOf(shape'[d].key) \union {Status(d)'} \subseteq entries'
        /\ pc'[d] = "repeats" => Reason(d)' \in entries'
  BY <1>2, <1>4 DEF SeriesInv, Goto, Status, Reason
<1> QED BY <1>2, <1>3, <1>5, <1>6, <1>7 DEF SeriesInv

\* Every counter holds what it should at every moment, for any number of calls.
LEMMA CountersStep ==
  ASSUME MetricsInv, SeriesInv, [Next]_vars
  PROVE  SeriesInv' /\ CountersGrow
<1>1. ASSUME Scrape \/ UNCHANGED vars  PROVE SeriesInv' /\ CountersGrow
  <2>1. UNCHANGED <<shape, pc, count, sum, bucket, entries, series>>
    BY <1>1 DEF Scrape, BeginScrape, PrintBucket, PrintInf, PrintCount,
                LockMaps, PrintSeries
  <2> QED BY <2>1 DEF SeriesInv, CountersGrow, Counted, Route, Status, Reason,
                      Failed, Repeated
<1> QED BY <1>1, RecordCounts, ObserveCounts DEF Next

LEMMA CountersInit == Init => SeriesInv
BY DEF Init, SeriesInv, Counted

LEMMA CountersInvariant == Spec => [](MetricsInv /\ SeriesInv)
<1>1. MetricsInv /\ SeriesInv /\ [Next]_vars => SeriesInv'
  BY CountersStep
<1> QED BY <1>1, CountersInit, MetricsCorrect, PTL DEF Spec

\* No counter falls or starts again, whatever order the additions, the lookups
\* and the making of entries come in.
THEOREM CountersOnlyGrow == Spec => CountersNeverFall
<1>1. MetricsInv /\ SeriesInv /\ [Next]_vars => [CountersGrow]_vars
  BY CountersStep
<1> QED BY <1>1, CountersInvariant, PTL DEF Spec, CountersNeverFall, CountersGrow

-----------------------------------------------------------------------------
\* The names of series are told apart by their parts.
LEMMA PairsDiffer ==
  ASSUME NEW a, NEW b, NEW x, NEW y
  PROVE  <<a, b>> = <<x, y>> <=> a = x /\ b = y
OBVIOUS

LEMMA TriplesDiffer ==
  ASSUME NEW a, NEW b, NEW c, NEW x, NEW y, NEW z
  PROVE  <<a, b, c>> = <<x, y, z>> <=> a = x /\ b = y /\ c = z
OBVIOUS

LEMMA PairIsNoTriple ==
  ASSUME NEW a, NEW b, NEW x, NEW y, NEW z
  PROVE  <<a, b>> # <<x, y, z>>
OBVIOUS

\* What a call that is recorded has been counted in.
LEMMA CountedWhenDone ==
  ASSUME NEW c \in Calls, pc[c] = "done", NEW k, NEW v
  PROVE  /\ Counted(c, <<"requests", k>>) <=> shape[c].key = k
         /\ Counted(c, <<"errors", k>>) <=> shape[c].key = k /\ Failed(c)
         /\ Counted(c, <<"retries", k>>) <=> shape[c].key = k /\ Repeated(c)
         /\ Counted(c, <<"status", k, v>>) <=>
              shape[c].key = k /\ shape[c].status = v
         /\ Counted(c, <<"reason", v>>) <=> shape[c].reason = v /\ Repeated(c)
<1>1. \A s : Counted(c, s) <=>
        \/ s = <<"requests", shape[c].key>>
        \/ s = <<"status", shape[c].key, shape[c].status>>
        \/ s = <<"errors", shape[c].key>> /\ Failed(c)
        \/ s = <<"retries", shape[c].key>> /\ Repeated(c)
        \/ s = <<"reason", shape[c].reason>> /\ Repeated(c)
  BY DEF Counted, Route, Status, Reason
<1>2. Counted(c, <<"requests", k>>) <=> shape[c].key = k
  BY <1>1, PairsDiffer, PairIsNoTriple
<1>3. Counted(c, <<"errors", k>>) <=> shape[c].key = k /\ Failed(c)
  BY <1>1, PairsDiffer, PairIsNoTriple
<1>4. Counted(c, <<"retries", k>>) <=> shape[c].key = k /\ Repeated(c)
  BY <1>1, PairsDiffer, PairIsNoTriple
<1>5. Counted(c, <<"status", k, v>>) <=> shape[c].key = k /\ shape[c].status = v
  BY <1>1, TriplesDiffer, PairIsNoTriple
<1>6. Counted(c, <<"reason", v>>) <=> shape[c].reason = v /\ Repeated(c)
  BY <1>1, PairsDiffer, PairIsNoTriple
<1> QED BY <1>2, <1>3, <1>4, <1>5, <1>6

LEMMA SeriesWhenDone ==
  ASSUME TypeOK, SeriesInv, \A c \in Calls : pc[c] = "done"
  PROVE  /\ \A k \in Keys :
              /\ series[<<"requests", k>>] = {c \in Calls : shape[c].key = k}
              /\ series[<<"errors", k>>] =
                   {c \in Calls : shape[c].key = k /\ Failed(c)}
              /\ series[<<"retries", k>>] =
                   {c \in Calls : shape[c].key = k /\ Repeated(c)}
              /\ \A v \in Statuses :
                   series[<<"status", k, v>>] =
                     {c \in Calls : shape[c].key = k /\ shape[c].status = v}
         /\ \A x \in Reasons :
              series[<<"reason", x>>] =
                {c \in Calls : shape[c].reason = x /\ Repeated(c)}
<1>1. \A s \in Series : series[s] = {c \in Calls : Counted(c, s)}
  BY DEF SeriesInv
<1>2. ASSUME NEW k \in Keys
      PROVE  /\ <<"requests", k>> \in Series
             /\ <<"errors", k>> \in Series
             /\ <<"retries", k>> \in Series
             /\ \A v \in Statuses : <<"status", k, v>> \in Series
  BY DEF Series, PerRoute
<1>3. \A x \in Reasons : <<"reason", x>> \in Series
  BY DEF Series
<1>4. ASSUME NEW k \in Keys
      PROVE  /\ series[<<"requests", k>>] = {c \in Calls : shape[c].key = k}
             /\ series[<<"errors", k>>] =
                  {c \in Calls : shape[c].key = k /\ Failed(c)}
             /\ series[<<"retries", k>>] =
                  {c \in Calls : shape[c].key = k /\ Repeated(c)}
  <2>1. /\ series[<<"requests", k>>] = {c \in Calls : Counted(c, <<"requests", k>>)}
        /\ series[<<"errors", k>>] = {c \in Calls : Counted(c, <<"errors", k>>)}
        /\ series[<<"retries", k>>] = {c \in Calls : Counted(c, <<"retries", k>>)}
    BY <1>1, <1>2
  <2>2. ASSUME NEW c \in Calls
        PROVE  /\ Counted(c, <<"requests", k>>) <=> shape[c].key = k
               /\ Counted(c, <<"errors", k>>) <=> shape[c].key = k /\ Failed(c)
               /\ Counted(c, <<"retries", k>>) <=> shape[c].key = k /\ Repeated(c)
    BY CountedWhenDone
  <2>3. {c \in Calls : Counted(c, <<"requests", k>>)} =
          {c \in Calls : shape[c].key = k}
    BY <2>2
  <2>4. {c \in Calls : Counted(c, <<"errors", k>>)} =
          {c \in Calls : shape[c].key = k /\ Failed(c)}
    BY <2>2
  <2>5. {c \in Calls : Counted(c, <<"retries", k>>)} =
          {c \in Calls : shape[c].key = k /\ Repeated(c)}
    BY <2>2
  <2> QED BY <2>1, <2>3, <2>4, <2>5
<1>5. ASSUME NEW k \in Keys, NEW v \in Statuses
      PROVE  series[<<"status", k, v>>] =
               {c \in Calls : shape[c].key = k /\ shape[c].status = v}
  <2>1. series[<<"status", k, v>>] = {c \in Calls : Counted(c, <<"status", k, v>>)}
    BY <1>1, <1>2
  <2>2. ASSUME NEW c \in Calls
        PROVE  Counted(c, <<"status", k, v>>) <=>
                 shape[c].key = k /\ shape[c].status = v
    BY CountedWhenDone
  <2> QED BY <2>1, <2>2
<1>6. ASSUME NEW x \in Reasons
      PROVE  series[<<"reason", x>>] =
               {c \in Calls : shape[c].reason = x /\ Repeated(c)}
  <2>1. series[<<"reason", x>>] = {c \in Calls : Counted(c, <<"reason", x>>)}
    BY <1>1, <1>3
  <2>2. ASSUME NEW c \in Calls
        PROVE  Counted(c, <<"reason", x>>) <=> shape[c].reason = x /\ Repeated(c)
    BY CountedWhenDone
  <2> QED BY <2>1, <2>2
<1> QED BY <1>4, <1>5, <1>6

\* Once the calls are recorded each is under its own labels and under no others,
\* for any number of calls, labels and reasons.
THEOREM RecordedInPlace == Spec => []SeriesReconcile
<1>1. ASSUME MetricsInv, SeriesInv PROVE SeriesReconcile
  <2> SUFFICES ASSUME \A c \in Calls : pc[c] = "done"
               PROVE  SeriesReconcile
    BY DEF SeriesReconcile
  <2>1. TypeOK
    BY <1>1 DEF MetricsInv
  <2>2. /\ count = Calls /\ sum = Calls
        /\ \A b \in 1 .. Buckets : bucket[b] = {c \in Calls : shape[c].bucket = b}
    BY <1>1 DEF SeriesInv
  <2> DEFINE InPlace(k, own) ==
               /\ series[<<"requests", k>>] = own
               /\ series[<<"errors", k>>] = {c \in own : Failed(c)}
               /\ series[<<"retries", k>>] = {c \in own : Repeated(c)}
               /\ \A v \in Statuses :
                    series[<<"status", k, v>>] = {c \in own : shape[c].status = v}
  <2>3. ASSUME NEW k \in Keys PROVE InPlace(k, {c \in Calls : shape[c].key = k})
    <3> DEFINE own == {c \in Calls : shape[c].key = k}
    <3>1. /\ series[<<"requests", k>>] = {c \in Calls : shape[c].key = k}
          /\ series[<<"errors", k>>] =
               {c \in Calls : shape[c].key = k /\ Failed(c)}
          /\ series[<<"retries", k>>] =
               {c \in Calls : shape[c].key = k /\ Repeated(c)}
          /\ \A v \in Statuses :
               series[<<"status", k, v>>] =
                 {c \in Calls : shape[c].key = k /\ shape[c].status = v}
      BY <1>1, <2>1, SeriesWhenDone
    <3>2. /\ {c \in Calls : shape[c].key = k /\ Failed(c)} = {c \in own : Failed(c)}
          /\ {c \in Calls : shape[c].key = k /\ Repeated(c)}
               = {c \in own : Repeated(c)}
          /\ \A v \in Statuses :
               {c \in Calls : shape[c].key = k /\ shape[c].status = v}
                 = {c \in own : shape[c].status = v}
      OBVIOUS
    <3> QED BY <3>1, <3>2
  <2>4. ASSUME NEW x \in Reasons
        PROVE  series[<<"reason", x>>] = {c \in Calls : shape[c].reason = x}
    <3>1. series[<<"reason", x>>] =
            {c \in Calls : shape[c].reason = x /\ Repeated(c)}
      BY <1>1, <2>1, SeriesWhenDone
    <3> QED BY <3>1, ReasonsAssumption DEF Repeated
  <2> QED BY <2>2, <2>3, <2>4, Zenon DEF SeriesReconcile
<1> QED BY <1>1, CountersInvariant, PTL
=============================================================================
