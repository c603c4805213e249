--------------------------- MODULE MetricsRegistry ---------------------------
(***************************************************************************)
(* The counters of the gateway while handlers record calls and a scraper   *)
(* reads them (internal/router/router.go: durationHistogram.observe,       *)
(* recordRouteMetric, recordRetryReason, metrics, writeHistogram).         *)
(*                                                                         *)
(* A counter is modelled by the set of calls it has counted: its value is  *)
(* how many they are.  Each addition and each load is a step of its own,   *)
(* as they are atomic instructions under no common lock; only the lookups  *)
(* in the maps of series are made under routeMu.                           *)
(***************************************************************************)
EXTENDS Integers, FiniteSets

CONSTANTS
  Calls,      \* upstream calls that came to a response
  Keys,       \* pairs of provider and model
  Reasons,    \* reasons to repeat a call
  Buckets     \* number of buckets, the unbounded one included

ASSUME CallsAssumption   == IsFiniteSet(Calls)
ASSUME ReasonsAssumption == "none" \notin Reasons
ASSUME BucketsAssumption == Buckets \in Nat \ {0}

Statuses == {200, 503}

\* The series of the labelled maps, by name and labels.
PerRoute == {"requests", "errors", "retries"}

SeriesOf(k) == PerRoute \X {k}
Series == (PerRoute \X Keys) \union ({"status"} \X Keys \X Statuses)
            \union ({"reason"} \X Reasons)

Shapes == [key: Keys, status: Statuses, bucket: 1 .. Buckets,
           reason: Reasons \union {"none"}]

VARIABLES
  shape,      \* what each call came to
  pc,         \* where its handler is in recording it
  count, sum, \* of the histogram
  bucket,     \* its buckets
  entries,    \* the series that exist in the maps
  series,     \* their counters
  line,       \* the line of the histogram the scraper is at, 0 outside it
  cumulative, \* its running total
  printed,    \* the values of +Inf and count it has printed
  left        \* the series it has still to print; it holds routeMu until none

calls     == <<shape, pc>>
histogram == <<count, sum, bucket>>
labelled  == <<entries, series>>
page      == <<line, cumulative, printed>>

vars == <<calls, histogram, labelled, page, left>>

Recording == {"count", "sum", "bucket", "route", "requests", "status",
              "errors", "retries", "reason", "repeats", "done"}

TypeOK ==
  /\ shape \in [Calls -> Shapes]
  /\ pc \in [Calls -> Recording]
  /\ count \subseteq Calls /\ sum \subseteq Calls
  /\ bucket \in [1 .. Buckets -> SUBSET Calls]
  /\ entries \subseteq Series
  /\ series \in [Series -> SUBSET Calls]
  /\ line \in 0 .. Buckets + 2
  /\ cumulative \in Nat
  /\ printed \in [{"Inf", "count"} -> Nat]
  /\ left \subseteq Series

Init ==
  /\ shape \in [Calls -> Shapes]
  /\ pc = [c \in Calls |-> "count"]
  /\ count = {} /\ sum = {}
  /\ bucket = [b \in 1 .. Buckets |-> {}]
  /\ entries = {}
  /\ series = [s \in Series |-> {}]
  /\ line = 0
  /\ cumulative = 0
  /\ printed = [v \in {"Inf", "count"} |-> 0]
  /\ left = {}

At(c, label)     == pc[c] = label
Goto(c, label)   == pc' = [pc EXCEPT ![c] = label] /\ UNCHANGED shape
Failed(c)        == shape[c].status >= 400
Repeated(c)      == shape[c].reason # "none"
Route(c, name)   == <<name, shape[c].key>>
Status(c)        == <<"status", shape[c].key, shape[c].status>>
Reason(c)        == <<"reason", shape[c].reason>>
Locked           == left # {}    \* the scraper holds routeMu

-----------------------------------------------------------------------------
\* observe: the count, the sum, then one bucket.
AddCount(c) ==
  /\ At(c, "count") /\ Goto(c, "sum")
  /\ count' = count \union {c}
  /\ UNCHANGED <<sum, bucket, labelled, page, left>>

AddSum(c) ==
  /\ At(c, "sum") /\ Goto(c, "bucket")
  /\ sum' = sum \union {c}
  /\ UNCHANGED <<count, bucket, labelled, page, left>>

\* Mutant: the loop over the boundaries does not return.
AddBucket_Every(c) ==
  /\ At(c, "bucket") /\ Goto(c, "route")
  /\ bucket' = [b \in 1 .. Buckets |->
                  IF b >= shape[c].bucket THEN bucket[b] \union {c}
                                          ELSE bucket[b]]
  /\ UNCHANGED <<count, sum, labelled, page, left>>

AddBucket(c) ==
  /\ At(c, "bucket") /\ Goto(c, "route")
  /\ bucket' = [bucket EXCEPT ![shape[c].bucket] = @ \union {c}]
  /\ UNCHANGED <<count, sum, labelled, page, left>>

\* Mutant: an entry is made anew by every call.
Create_Overwrites(new) ==
  /\ entries' = entries \union new
  /\ series' = [s \in Series |-> IF s \in new THEN {} ELSE series[s]]

\* Entries that are not in the maps yet, with counters of zero.
Create(new) ==
  /\ entries' = entries \union new
  /\ series' = [s \in Series |-> IF s \in new \ entries THEN {} ELSE series[s]]

\* Mutant: the maps are looked up without the lock.
FindRoute_Unlocked(c) ==
  /\ At(c, "route") /\ Goto(c, "requests")
  /\ Create(SeriesOf(shape[c].key) \union {Status(c)})
  /\ UNCHANGED <<histogram, page, left>>

\* recordRouteMetric: the lookup under routeMu, the additions after it.
FindRoute(c) ==
  /\ At(c, "route") /\ Goto(c, "requests")
  /\ ~Locked
  /\ Create(SeriesOf(shape[c].key) \union {Status(c)})
  /\ UNCHANGED <<histogram, page, left>>

Add(c, s) == /\ series' = [series EXCEPT ![s] = @ \union {c}]
             /\ UNCHANGED <<histogram, entries, page, left>>

Skip == UNCHANGED <<histogram, labelled, page, left>>

AddRequest(c) ==
  At(c, "requests") /\ Goto(c, "status") /\ Add(c, Route(c, "requests"))

AddStatus(c) == At(c, "status") /\ Goto(c, "errors") /\ Add(c, Status(c))

\* Mutant: only calls that were not repeated count as errors.
AddError_Once(c) ==
  /\ At(c, "errors") /\ Goto(c, "retries")
  /\ IF Failed(c) /\ ~Repeated(c) THEN Add(c, Route(c, "errors")) ELSE Skip

AddError(c) ==
  /\ At(c, "errors") /\ Goto(c, "retries")
  /\ IF Failed(c) THEN Add(c, Route(c, "errors")) ELSE Skip

AddRetry(c) ==
  /\ At(c, "retries") /\ Goto(c, IF Repeated(c) THEN "reason" ELSE "done")
  /\ IF Repeated(c) THEN Add(c, Route(c, "retries")) ELSE Skip

\* recordRetryReason.
FindReason(c) ==
  /\ At(c, "reason") /\ Goto(c, "repeats")
  /\ ~Locked
  /\ Create({Reason(c)})
  /\ UNCHANGED <<histogram, page, left>>

AddReason(c) == At(c, "repeats") /\ Goto(c, "done") /\ Add(c, Reason(c))

-----------------------------------------------------------------------------
\* metrics: the histogram line by line, then under routeMu the map of reasons and
\* that of routes, each in any order.
BeginScrape ==
  /\ line = 0 /\ left = {}
  /\ line' = 1
  /\ UNCHANGED <<calls, histogram, labelled, cumulative, printed, left>>

\* The loop stops before the last bucket.
PrintBucket ==
  /\ line \in 1 .. Buckets - 1
  /\ line' = line + 1
  /\ cumulative' = cumulative + Cardinality(bucket[line])
  /\ UNCHANGED <<calls, histogram, labelled, printed, left>>

PrintInf ==
  /\ line = Buckets
  /\ line' = Buckets + 1
  /\ printed' = [printed EXCEPT !["Inf"] = Cardinality(count)]
  /\ UNCHANGED <<calls, histogram, labelled, cumulative, left>>

PrintCount ==
  /\ line = Buckets + 1
  /\ line' = Buckets + 2
  /\ printed' = [printed EXCEPT !["count"] = Cardinality(count)]
  /\ UNCHANGED <<calls, histogram, labelled, cumulative, left>>

LockMaps ==
  /\ line = Buckets + 2
  /\ line' = 0
  /\ left' = entries
  /\ cumulative' = 0
  /\ printed' = [v \in {"Inf", "count"} |-> 0]
  /\ UNCHANGED <<calls, histogram, labelled>>

\* The line of a reason, or the lines of a provider and model.
PrintSeries ==
  /\ \E s \in left :
       \/ s[1] = "reason" /\ left' = left \ {s}
       \/ /\ \A t \in left : t[1] # "reason"
          /\ left' = {t \in left : t[2] # s[2]}
  /\ UNCHANGED <<calls, histogram, labelled, page>>

-----------------------------------------------------------------------------
Observe(c) == AddCount(c) \/ AddSum(c) \/ AddBucket(c)

Record(c) == FindRoute(c) \/ AddRequest(c) \/ AddStatus(c) \/ AddError(c)
               \/ AddRetry(c) \/ FindReason(c) \/ AddReason(c)

Scrape == BeginScrape \/ PrintBucket \/ PrintInf \/ PrintCount
            \/ LockMaps \/ PrintSeries

Next == (\E c \in Calls : Observe(c) \/ Record(c)) \/ Scrape

Spec == Init /\ [][Next]_vars

-----------------------------------------------------------------------------
\* A page never shows fewer observations in all than in its buckets, though it
\* is read without a lock while calls are observed.
HistogramIsCumulative ==
  /\ line > Buckets => cumulative <= printed["Inf"]
  /\ line > Buckets + 1 => printed["Inf"] <= printed["count"]

\* Why: a call is counted before it enters its one bucket, and the scraper loads
\* the buckets before the count; so the running total never exceeds the calls
\* counted that belong to the buckets read.
MetricsInv ==
  /\ TypeOK
  /\ \A c \in Calls : /\ pc[c] # "count" => c \in count
                      /\ pc[c] \in {"reason", "repeats"} => Repeated(c)
  /\ \A b \in 1 .. Buckets :
       bucket[b] \subseteq {c \in count : shape[c].bucket = b}
  /\ line = 0 => cumulative = 0
  /\ line \in 1 .. Buckets =>
       cumulative <= Cardinality({c \in count : shape[c].bucket < line})
  /\ line > Buckets => printed["Inf"] <= Cardinality(count)
  /\ HistogramIsCumulative

\* The maps do not change while the scraper ranges over them, which would end
\* the process.
MapsStandStill == [][Locked => UNCHANGED entries]_vars

\* No counter falls or starts again: whatever a scrape shows, a later one shows
\* at least as much.
CountersNeverFall ==
  [][/\ count \subseteq count' /\ sum \subseteq sum'
     /\ \A b \in 1 .. Buckets : bucket[b] \subseteq bucket'[b]
     /\ entries \subseteq entries'
     /\ \A s \in Series : series[s] \subseteq series'[s]]_vars

\* When the calls are recorded each is under the labels it came to and under no
\* others: in the bucket of its duration, in the requests and the status of its
\* provider and model, among their errors only with a status of 400 or more,
\* among their retries, under its reason, only if it was repeated.  Each value
\* is a set here: the same addition made twice would not show.
SeriesReconcile ==
  (\A c \in Calls : pc[c] = "done") =>
    /\ count = Calls /\ sum = Calls
    /\ \A b \in 1 .. Buckets : bucket[b] = {c \in Calls : shape[c].bucket = b}
    /\ \A k \in Keys :
         LET own == {c \in Calls : shape[c].key = k}
         IN /\ series[<<"requests", k>>] = own
            /\ series[<<"errors", k>>] = {c \in own : Failed(c)}
            /\ series[<<"retries", k>>] = {c \in own : Repeated(c)}
            /\ \A v \in Statuses :
                 series[<<"status", k, v>>] = {c \in own : shape[c].status = v}
    /\ \A x \in Reasons :
         series[<<"reason", x>>] = {c \in Calls : shape[c].reason = x}
=============================================================================
