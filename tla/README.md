# go-feather-route, specified

TLA+ specifications of go-feather-route, an HTTP gateway that authenticates
OpenAI-compatible chat and embedding requests, admits them through bounded
bulkheads and forwards them to one of several configured providers. The modules
are model-checked with TLC and most of what they state is proved with TLAPS.
Line numbers refer to `internal/router/router.go` unless another file is named.

## 1. The system

| Part | State | Operations | Talks to |
|---|---|---|---|
| Request wrapper (`Handler`, 186-231) | `active`, `requests`, `errors`, status of the response | authorize, dispatch, account in a defer | every endpoint |
| Endpoints (`chat` 371-495, `embeddings` 497-593) | locals of one goroutine per request, gauges, counters | read, decode, select, admit, try candidates, account, relay or return, unwind | all parts below |
| Candidate selection (`clientsFor` 891-927) | none of its own | resolve the route, drop providers in cooldown, never return nothing | routes, provider health |
| Provider health (941-963) | `providerFailures`, `providerCooldown` under `routeMu` | available, mark failure, mark success | selection, endpoints |
| Admission (393-405, 519-528) | three buffered channels used as semaphores | send in a select with the context, deferred receive | endpoints |
| Provider client (`internal/provider`) | a response body per call | prepare the body, call, one retry on 429/5xx, backoff | providers |
| Stream relay (645-699) | chunk buffer, tail, `done`, usage tail | read, check, write, scan, reset, flush | client, provider, watchdog |
| Stream watchdog (744-805) | reset/stop/done channels, timer, `expired` | re-arm, expire and close, stop and join | relay |
| `[DONE]` search (701-736) | tail array and its length | search a chunk and the window across the boundary | relay |
| Metrics (`/metrics`, `/status`, 74-138, 311-365, 595-627) | counters, gauges, histograms; maps of labelled series under `routeMu` | record, print | all endpoints, scrapers |
| Usage (`internal/usage`) | none; one goroutine per event, 2 s each | parse, report | usage service |
| Routing table (`internal/gateway`) | immutable maps and rules | `ProviderFor`, `Models` | selection, read-only endpoints |
| Embedding normalizer (823-889) | none | count, check and order vectors | `embeddings` |
| Configuration (`internal/config`) | layers of file, environment, flags | load, normalize, validate | start |
| Process (`main.go`, `internal/diagnostics`) | two HTTP servers, a signal channel, a shutdown budget | start, stop, drain | the operating system, all handlers |


Every request runs in a goroutine of its own. Requests meet in four places: the
semaphores, `routeMu` (health, the route metrics and, for as long as the scraper
takes to read, the metrics handler), the atomic counters, and the providers. A
streamed response adds a second goroutine that shares the upstream body with the
handler and closes it under a blocked `Read`.

What is hard here, and what makes each part correct:

* **Every way out.** A handler can end in a dozen places, each after some of the
  acquisitions (gauge, token, body, stream gauge). Tokens, gauges and bodies must
  be returned exactly once, in an order that keeps "connections and streams at
  most as many as tokens" true in between.
* **Interruption.** The client may leave and the deadline may pass at any step:
  in the queue, before a call, in flight, in the backoff, while relaying.
* **Repetition.** POSTs are not idempotent. Only an explicit 429/5xx may be
  repeated, a stream never by the client, and nothing after output has begun.
* **Health.** Failures and successes of concurrent requests interleave with
  cooldowns that end by themselves; cooldowns must be earned and must not make a
  routed request impossible.
* **Accounting.** Counters and usage events are written on different paths and
  must agree with what clients were answered.
* **Expiry.** The watchdog races reads, resets, the end of the stream and its own
  `Stop`.
* **Reading while others write.** Histograms and series are read and written
  under no common lock; only the maps of series are protected.
* **Stopping.** Two servers are drained one after the other on one budget, while
  listeners may still be starting, profiles download and reports are posted.
* **Layers.** A setting, a provider or a model can come from four layers and is
  translated on the way; what was validated must be what runs.
* **Waiting.** Nobody promises that a provider answers, that a client takes what
  it asked for or that a scraper reads. Requests still have to finish, a class must
  not be blocked by another one, and what can block everyone has to be known.

The hazards are listed one by one, with their lines and the properties aimed at
them, in `PROJECT.json`.

## 2. Modules

| Module | Models | Lines |
|---|---|---|
| `ProviderHealth` | failure counters and cooldowns | 36-37, 941-963 |
| `Gateway` (extends `ProviderHealth`) | the request path: wrapper, endpoints, selection, admission, attempts and retry, fallback, accounting, deferred calls; clients, deadlines, cooldowns and the scraper as environment | 186-231, 311-354, 371-638, 891-996; `provider.go` 64-157, 250-315 |
| `GatewayProperties` | what the request path promises, and what the documentation says of it | |
| `Bulkheads` | abstract specification of admission: phases of a request and a limit per class, no semaphores | |
| `StreamRelay` | the relay of one stream and its watchdog goroutine, with a discrete clock | 645-699, 744-805 |
| `DoneMarker` | the search for the end marker in a stream that arrives in pieces | 663-665, 701-736 |
| `UsageScan` (extends `DoneMarker`) | the usage collected from the same pieces | 661-662, 680-689; `usage/reporter.go` 20-53 |
| `MetricsRegistry` | histogram and labelled series while calls are recorded and a scraper prints | 74-84, 116-138, 311-365, 595-627, 1077-1082 |
| `Lifecycle` | start, signals, the two servers, the shutdown on one budget, work and reports in flight | `main.go` 20-78; `pprof.go`; `usage/reporter.go` 84-113 |
| `Routing` | from the model a client names to providers and their own names of it; `/ready`, model status | 241-309, 891-912; `routes.go`; `provider.go` 159-166, 186-238 |
| `Config` (extends `Routing`) | layers, model list, validation | `config.go` 103-374 |
| `RetryDelay` | the wait before a repetition, in integers that wrap | `provider.go` 250-270 |
| `Embeddings` | checking and ordering the vectors of an embedding response | 823-889; `contract/openai.go` 69-82 |
| `Algorithms` | gives `Config`, `RetryDelay` and `Embeddings` one input per behaviour and states what they compute | |
| `MCGateway`, `MCStreamRelay`, `MCUsageScan`, `MCMetrics`, `MCLifecycle`, `MCAlgorithms` | instances for TLC | |
| `GatewayProofs`, `RequestProofs`, `AccountingProofs` | theorems about the request path | |
| `StreamRelayProofs`, `ScanProofs`, `MetricsProofs`, `LifecycleProofs`, `AlgorithmProofs` | theorems about the other parts | |

Definitions whose comment starts with *Mutant* are wrong variants of the
definition that follows them. They are not part of any specification; each
documents a bug that some property of section 3 notices.

### Gateway

`pc[r]` is where the handler of request `r` is. A step is a stretch of code
between two operations that other goroutines can observe. From start to end:
`Arrive`/`RefuseUnauthorized` (wrapper, 198-228), `ReadRequest` and its two
refusals, `ConsiderProvider` once per provider of the route (each call to
`providerAvailable` takes `routeMu` by itself, so cooldowns change between
them), `FinishSelection`, the select as `Acquire` and `AbandonQueue` (both are
enabled when both cases are ready), then per attempt `SendCall`, `Respond` or
`LoseCall`, `DrainForRetry` and the backoff, then `FallBack` or `Accept`,
`Account`. Then a stream is relayed until `CompleteStream` or `CutStream`; of any
other response the body is read, which fails (`RefuseResponse`,
`RefuseUpstreamError`) or leads to label `write` (`ReturnResponse`, where usage is
reported, and `CopyUpstreamError`), where the handler stays until the client has
taken the answer or is gone (`FinishWrite`). The deferred calls `CloseUpstream`,
`Release`, `Leave`, `Exit` follow in the order Go runs them.

`LoseCall` has three causes: the connection failed, the context ended the call, or
the connection was not made within the five seconds of the dialer (`provider.go`
42). The error of the last is `context.DeadlineExceeded` to `errors.Is`, so it is
counted as a cancellation like the second, with the request's context alive (435,
558).

Abstractions. Answers the gateway makes itself are small, stay in the buffer of
`net/http` until the handler returns, and so are written without a wait. Statuses are reduced to what the code tells apart: below 400,
429/5xx, everything else. Bodies, headers and durations are left out; decoding
and validation are choices between the outcomes the code has. A cooldown
deadline is whether it has passed. A model's route is the sequence of its
*configured* providers (names without a client are skipped by 906-909 and never
appear). Admission lets any waiter take a free token; Go hands over in FIFO
order, so the model has every behaviour of the code and more. The verdict on a
relayed stream (`CompleteStream`/`CutStream`) is a free choice here and is what
`StreamRelay` is about. The route-metric updates of `Account` take `routeMu` at
most twice with atomic additions in between; they are one step, because nothing
reads the two halves together in this model; `MetricsRegistry` takes them apart.

`sent` and `answer` are history: what was called upstream with what result, and
what the client got. `slots`, `gauge` and `total` are the code's own state.

### StreamRelay

The handler's `relay` counter walks the loop: `ReadChunk`/`ReadEnd`,
`CheckExpired`, `Write`/`WriteFails`, `ScanAndReset`, `Flush`, `Judge`, and the
deferred `StopWatchdog` and `Join`. The watchdog is a select over its reset
channel (one token), its timer and the stop channel: `Rearm`, `Expire`,
`CloseBody`, `Stopped`. Setting the flag and closing the body are separate
steps, as they are in the code (773-774).

Time is discrete. `Tick` is enabled only when both goroutines wait, so code
takes no time compared with the timeout, while everything that may happen at the
same instant (a chunk, a disconnect, an expiry, a reset) interleaves freely,
including the select choosing between a ready reset and a fired timer. Timers
behave as they do since Go 1.23 (`go.mod` asks for 1.27): after `Stop` and
`Reset` no stale value is received. The branch for a timeout of zero (754-757)
cannot be reached, `NewServer` replaces such a timeout (154-156). A chunk is the
marker or it is not; how the marker is found in bytes is `DoneMarker`, what is
collected for usage `UsageScan`. Whether the client may `stall`, that is take as
long as it likes over a write, is chosen initially: `ExpiryMeansSilence` and
`RelayReturns` are about clients that do not. The flush of the headers before
the watchdog is started is not a step.

### DoneMarker and UsageScan

`tail` holds the bytes of the array that are in use. Alphabet and marker are
parameters. Every chunk that can be read, from one byte on, is an input, and
`stream` is the history of all bytes read.

`UsageScan` adds `usageTail` and `streamUsage` to the same step: one `Forward`
is one pass through the loop body 680-689. What JSON a line holds is the
parameter `Usage`, the token count of the lines that report one above zero; all
others leave the usage alone, as `parsed.Total > 0` does. The code splits at
empty lines and then at line ends; a line that is not empty is the same line
either way, so `ParseSSE` takes the last of the lines.

### MetricsRegistry

A counter is the set of calls it has counted, so that a call counted in the wrong
series, or in two, is told apart from one not counted yet; the same addition made
twice would not show. `pc[c]`
walks the recording of one upstream call: `AddCount`, `AddSum`, `AddBucket`
(124-138), then `FindRoute` under `routeMu` and the four additions after it
(596-614), then `FindReason` and `AddReason` if the call was repeated (617-627).
Every addition and every load is a step, since they are atomic instructions and
nothing else orders them. The scraper prints one histogram line by line
(`PrintBucket`, `PrintInf`, `PrintCount`) and then holds `routeMu` while it
ranges over the maps (`LockMaps`, `PrintSeries`): first the reasons in any order,
then the routes in any order, all lines of one before those of the next.

One histogram stands for the four, which share code and no state, and the two
sums of milliseconds are left out. Calls that came to no response
only enter the histogram (433-441, 556-563) and are left out. Labels are given: what
`boundedMetricLabel` makes of a name (everything with a slash becomes `other`) is
not modelled.

### Lifecycle

`main` is where the main goroutine is, from loading the configuration to the
end; `draining` the server it is shutting down. The model contains what
`net/http` does in `Shutdown`, as far as `main.go` relies on it: the listener is
closed, then idle connections are looked for (`polling`), and while there are
others the goroutine waits for a timer or the context (`pausing`) and
`PollAgain` or `GiveUp`. `FinishDiagnostics` is the end of the first shutdown and
the beginning of the second in one step, because nothing is between the two
calls. A diagnostics server that is not configured is shut down at once (126).

`ListenAndServe` runs in a goroutine: it may look for a shutdown and bind after
`main` has gone on, so `BeginListening` and `Bind` are separate. Any failure of
it, except after a shutdown, ends the process from that goroutine (51-52), with
everything being served; a failure of the diagnostics server only stops it.
`Exit` says what the end of the process does to work and reports. A signal
before `Notify` has its default action. A report belongs to a request: its
handler starts it before it returns, and it lives on after that until the
collector answers or its own two seconds pass (`EndReport`), or the process ends. A second signal
stays in the channel and has no effect. Requests are accepted once each; what
they do is `Gateway`.

### Algorithms: Config, Routing, RetryDelay, Embeddings

These are functions of their inputs, so they are operators, and a behaviour of
`Algorithms` is an input and the result.

*Names.* A name is a sequence of tokens in which `/` and a final `*` are tokens.
A prefix that ends within a token is therefore not distinguished; the code
treats it like any other prefix. *Settings.* Three stand for all that are
treated alike: one that every layer sets, one whose text is parsed by the
validation and one whose text is parsed at once. A value is the layer it comes
from, so that the wrong layer shows. *Providers.* A URL is what the validation
tells apart: https, clear text, clear text on this machine, no URL; the
`APIKeyEnv` of a provider is taken to be there. Costs are left out.
*Durations* wrap at a width of a few bits, as `time.Duration` does at 64.
*Vectors* are an index and a length, and which of the response's vectors it is.
Infinite numbers (869-873) cannot come out of JSON. `Gateway` has the outcome of
`Normalize` as a choice between `ReturnResponse` and `RefuseResponse`, and that
of `Candidates` as the constant `Route`.

## 3. Runs

| Run | Specification and bounds | Shows |
|---|---|---|
| `cooldown` | `Spec`; 3 streams, 2 models on one primary, one with a second provider behind it and one that lists the primary twice, cooldowns elapse | `TypeOK`, `CandidatesFollowTheRoute`, `CooldownsAreEarned`, `UsageMatchesService` |
| `interrupted` | `Spec`; 2 requests, chat or stream, 1 token each; models with a fallback, without a route and on a provider without a key; disconnects and deadlines | `SlotsMatchHolders`, `ConnectionsHeldUnderSlots`, `RepetitionsAreJustified`, `UsageMatchesService`, `GaugesMatchWork`, `CountersReconcile`, `CallsStartClean`, `ImplementsBulkheads` (refinement) |
| `isolation` | `ChatSpec`; 2 requests, chat beside embeddings without any fairness, deadlines and a scraper that may stop reading, clients that may not take their answers | `ChatFinishes`, which names the two exceptions |
| `relay` | `FairSpec`; timeout 2 ticks, 3 chunks, clients that stall and clients that do not | `RelayInv`, `CompletedIsWhole`, `NothingReadIsDropped`, `WatchdogJoined`, `ExpiryMeansSilence`, `RelayReturns` |
| `scan` | `UsageSpec`; streams of up to 8 bytes over 4 letters, chunks of up to 6, marker `aba`, three lines that report usage | `TailIsRecent`, `DoneIsExact`, `UsageIsExact` |
| `metrics` | `Spec`; 2 calls of any outcome, 2 pairs of provider and model, 2 retry reasons, 3 buckets, a scraper that comes again and again | `MetricsInv`, `HistogramIsCumulative`, `SeriesReconcile`, `MapsStandStill`, `CountersNeverFall` |
| `lifecycle` | `FairSpec`; 2 requests, 1 profile, any configuration, signals and failures | `LifecycleInv`, `ZeroMeansDrained`, `CutIsForced`, `StopsWhenAsked` |
| `algorithms` | `Spec`; the inputs `MCAlgorithms` lists: three settings in three layers, two providers of every kind and address, up to two list entries with 6 rule tables and 4 route tables, providers without a name; durations of 6 bits; up to 3 vectors | `AcceptedIsRunnable`, `ListedModelsAreServed`, `NamesArriveTranslated`, `ReadyMeansServed`, `DelayIsBounded`, `VectorsMatchInputs` |
| `fallback_used` | `Spec`; 3 streams, primary and fallback | **violated**: `FallbackIsMarked` |
| `no_cooldown` | `Spec`; 2 chat requests, 1 provider | **violated**: `RepeatedFailuresCool` |
| `slow_client` | `FairSpec`; timeout 2 ticks, 2 chunks | **violated**: `ExpiryIsUpstreamSilence` |
| `buffered` | `UsageSpec`; streams of up to 6 bytes | **violated**: `NeverBufferedWhole` |

Why the bounds are enough. One token per class is the tightest semaphore, and
two or three requests give a holder, a waiter and one that leaves the queue.
Two failures make a cooldown, so three streams can start one and meet it; two
models on one primary let one request fail over to another provider while the
other comes back to the same one, so that the turns of a provider differ. Two
candidates with two attempts each reach every branch of both loops. In
`StreamRelay` two ticks separate "re-armed", "running" and "fired", and three
chunks leave room for one before, one at and one after an expiry. In
`scan` the marker overlaps itself, a chunk of six bytes is longer than the
window of the search (five) and shorter than the stream, and eight bytes hold
two complete events and the beginning of a third, whose lines end with and
without a return. In `metrics` two calls meet at every instruction, with one route
and reason to share or one for each, and three buckets are a first, a last that is
printed and the unbounded one; `MetricsProofs` covers the rest. In `lifecycle` one of the two requests can
be drained while the other is cut off, beside a profile that holds the first
shutdown. In `algorithms` two entries are enough for one to follow another of the
same name, and the tables have a rule before, after and instead of a more special
one; six bits let every header wrap around several times. Three vectors can be in
order, rotated, doubled, out of range and of different lengths. Requests are symmetric in the safety runs of
`Gateway`, calls, routes and reasons in `metrics`; `isolation` uses no symmetry. `scan` and `buffered` do not check
deadlock, since a stream that has reached its bound ends; everywhere else a
finished system stutters explicitly (`Finished`, `Gone`; the scraper of `metrics` goes on) and any other stop would be
reported.

### Fairness

`Gateway`. Weak fairness for the steps a handler takes by itself (the Go
scheduler); weak fairness of the deadline (a timer set by
`context.WithTimeout`); weak fairness of the steps that end a wait for a
provider, but only once the context is done, since that is what unblocks them; and
strong fairness of the steps that need `routeMu`, because a `sync.Mutex` hands
over to a waiter that starves. Nothing is assumed of providers, of clients sending
their request (the server sets no `ReadTimeout`, `cmd/go-feather-route/main.go`
36-42, so a body may never arrive, and the liveness property starts at selection),
of clients taking their answer, or of scrapers reading (there is no `WriteTimeout`
either). What those two can do without a limit is not assumed away but said in
`ChatFinishes`, as the only two ways in which a chat request does not finish:
`ScraperStops`, a scraper that stops reading while the metrics handler holds
`routeMu` (340-353), and `ClientStops`, a chat client that never takes its answer
and so keeps a token. `ChatSpec` assumes all this of chat handlers only, nothing
of the others. Embeddings differ from chat in nothing the argument uses. Streams do: they relay
for as long as their clients take, so nothing is claimed of when they finish here;
`RelayReturns` says it of one relay.

`StreamRelay`. Both goroutines run, the clock goes on, and a client that does
not stall, or whose connection is broken, lets a write return. Nothing is
assumed of the provider or the context.

`Lifecycle`. The main goroutine runs and the timer of the shutdown's budget fires.
Strong fairness of `GiveUp`: when the poll
timer and the context are both ready, `select` takes either at random, and not
for ever the same one. Nothing is assumed of handlers, clients, collectors or
signals, so `StopsWhenAsked` holds although nothing in flight ever ends.

### Where code and documentation part

* `fallback_used`: `selectedIndex` counts candidates after cooldowns were
  removed, so while the primary cools down the fallback is candidate 0 and its
  usage event is not marked (`docs/providers.md` 48-50).
* `no_cooldown`: the last candidate of a request is never counted as failed
  (422), so a provider that nothing falls back from never cools down
  (`docs/configuration.md` 68-69).
* `slow_client`: the idle timeout is described as the time between upstream
  bytes (`config/env.schema.yaml` 8), but is re-armed only after the client has
  taken the last ones (677-690).
* `buffered`: responses are never to be buffered without a bound
  (`docs/standards.md` 7-9), but `usageTail` is only cut at two adjacent new
  lines (681). A stream whose lines end in a return and a new line stays in
  memory as a whole, and its usage is never parsed.

Met while modelling, and followed by the models as the code has them:

* Rules without `*` are accepted by the validation if they contain a slash
  (`config.go` 366) but match nothing: `ProviderFor` looks for `provider/*` and
  for prefixes only, while `routes.go` 9 speaks of exact ones.
* An upstream model that begins with its own provider and a slash loses that,
  once for embeddings and twice for chat (`provider.go` 159-165, 235); the names
  are excepted in `NamesArriveTranslated`.
* Fallbacks receive the name the client used, not an alias of theirs, unless they
  have one of the same name.
* Of entries with the same name the last one gives the provider and the first one
  the fallbacks (`config.go` 188, `router.go` 897-901).
* `routes:` entries are not validated; one that names no provider answers 404.
* `/ready` ranges over the exact names: with rules only it answers 503.
* A provider may have the empty string as its name. `/ready` ignores whether a
  model has a provider (244) and takes that one for the provider of every model
  without; `ReadyMeansServed` excepts such configurations.
* A `Retry-After` of more seconds than fit a duration wraps around and may be
  retried at once (`provider.go` 254); `DelayIsBounded` promises waits that can
  be represented.
* A profile that is being downloaded can use up the budget of the shutdown, and
  the gateway's requests are then cut off without being drained; a diagnostics
  server that breaks ends the process with status 0.
* A connection that is not made within five seconds is counted as a cancellation of
  the request (`router.go` 435 and 558, `provider.go` 42), which nobody cancelled.
* `/metrics` is not behind the authorization (234) and holds `routeMu` while it
  writes to the scraper (340-353), and no write has a timeout: a scraper that stops
  reading stops selection, fallback and accounting of every request. A client that
  does not take its answer keeps its token. These are the exceptions of
  `ChatFinishes`.
* Usage of a buffered answer is reported before the answer is written, and stays
  reported if nobody takes it.
* On a page of `/metrics` the `+Inf` bucket and the count of a histogram are two
  loads and may differ; only "not above" holds.

`docs/routing.md` 22 promises a retry of transport errors. `provider.go` 96-100
returns them at once and `docs/configuration.md` 67-68 agrees with the code; the
model follows the code, and `RepetitionsAreJustified` states it.

## 4. Proofs

| Theorem | Module | Statement |
|---|---|---|
| `TypeCorrect` | `GatewayProofs` | `Spec => []TypeOK` |
| `SlotAccounting` | `GatewayProofs` | `Spec => []SlotsMatchHolders` |
| `GatewayImplementsBulkheads` | `GatewayProofs` | `Spec => ImplementsBulkheads` |
| `ConnectionsAreBounded` | `RequestProofs` | `Spec => []ConnectionsHeldUnderSlots` |
| `OnlyJustifiedRepetitions` | `RequestProofs` | `Spec => []RepetitionsAreJustified` |
| `CallsAreClean` | `RequestProofs` | `Spec => CallsStartClean` |
| `CooldownsEarned` | `RequestProofs` | `Spec => []CooldownsAreEarned` |
| `CandidatesAreListed` | `RequestProofs` | `Spec => []CandidatesFollowTheRoute` |
| `GaugesAreRight` | `AccountingProofs` | `Spec => []GaugesMatchWork` |
| `ServiceIsReported` | `AccountingProofs` | `Spec => []UsageMatchesService` |
| `CountersAreRight` | `AccountingProofs` | `Spec => []CountersReconcile` |
| `RelayInvariant` | `StreamRelayProofs` | `Spec => []RelayInv` |
| `CompletedStreamsAreWhole` | `StreamRelayProofs` | `Spec => []CompletedIsWhole` |
| `ReadIsForwarded` | `StreamRelayProofs` | `Spec => []NothingReadIsDropped` |
| `WatchdogsAreJoined` | `StreamRelayProofs` | `Spec => []WatchdogJoined` |
| `ExpiriesAreSilences` | `StreamRelayProofs` | `Spec => ExpiryMeansSilence` |
| `SearchExact` | `ScanProofs` | `Spec => [](TailIsRecent /\ DoneIsExact)` |
| `MarkerIsFound` | `ScanProofs` | `UsageSpec => [](TailIsRecent /\ DoneIsExact)` |
| `UsageIsRead` | `ScanProofs` | `UsageSpec => []UsageIsExact` |
| `MetricsCorrect` | `MetricsProofs` | `Spec => []MetricsInv` |
| `PagesAreCumulative` | `MetricsProofs` | `Spec => []HistogramIsCumulative` |
| `MapsAreStill` | `MetricsProofs` | `Spec => MapsStandStill` |
| `CountersOnlyGrow` | `MetricsProofs` | `Spec => CountersNeverFall` |
| `RecordedInPlace` | `MetricsProofs` | `Spec => []SeriesReconcile` |
| `LifecycleCorrect` | `LifecycleProofs` | `Spec => [](LifecycleInv /\ CutIsForced)` |
| `ZeroIsDrained` | `LifecycleProofs` | `Spec => []ZeroMeansDrained` |
| `AcceptedRuns` | `AlgorithmProofs` | `Spec => []AcceptedIsRunnable` |
| `ListedAreServed` | `AlgorithmProofs` | `Spec => []ListedModelsAreServed` |
| `NamesArrive` | `AlgorithmProofs` | `Spec => []NamesArriveTranslated` |
| `ReadyIsServed` | `AlgorithmProofs` | `Spec => []ReadyMeansServed` |
| `WaitIsBounded` | `AlgorithmProofs` | `Spec => []DelayIsBounded` |
| `VectorsAreOrdered` | `AlgorithmProofs` | `Spec => []VectorsMatchInputs` |

They hold for every value of the constants under the named assumptions of the
modules: finitely many requests, classes among the three, routes over the
providers, at least one token per class, a positive idle timeout, a marker of at
least two bytes, lines of usage without a new line in them, finitely many calls,
at least one bucket, profiles that are no requests, a wait whose default, longest
value and jitter fit a duration, and configurations, headers and responses whose
fields have the types of the code; the mark of a call that was not repeated is no
retry reason. Routes may be empty or name a provider twice.

* `TypeCorrect`. `TypeOK` is not inductive: `Candidate(r)` is a provider only if
  the cursor `idx[r]` lies within `clients[r]`, and `LastCall(r)` exists only if
  something was sent. The invariant adds `Cursor`, which says so at the labels
  where it matters. The type invariant is proved in its seven parts, each with
  the actions grouped by what they leave alone.
* `SlotAccounting`. The tokens of a class equal the number of its handlers at an
  admitted label. Entering and leaving that set are the only changes, by one
  element each, and `IsFiniteSet(Requests)` gives the cardinalities. The limit
  follows from the guard of `Acquire`.
* `GatewayImplementsBulkheads`. Through `PhaseOf`, `Acquire` is `Admit`: its
  guard on the tokens is the abstract guard on the handlers served, by
  `SlotAccounting`. Every other action is a move or a stutter.
* `ConnectionsAreBounded`, `OnlyJustifiedRepetitions`, `CallsAreClean`. Whether a
  repetition is justified depends on how many calls were made before the attempt
  the handler is at and on what the last of them came to. `RequestOK` says both
  label by label: which labels hold a body, where a call is pending, and that the
  calls so far are those of the candidates before the cursor plus the attempts at
  it. A step of one handler leaves the `RequestOK` of the others alone. The three
  properties follow; the last is read off a step of `SendCall`.
* `CooldownsEarned`. `Strikes(p)` is the set of candidate positions requests have
  turned away from; it grows by one with every failure counted, and a cooldown
  trades two counted failures for itself.
* `CandidatesAreListed`. `Selected` says of which listings of the route the
  candidates are: a rising map from the candidates to the positions that were
  looked at. Consulting the next provider extends the map at its end or leaves it.
  That it rises is what keeps apart the listings of a provider that is named twice.
* `GaugesAreRight`. Each gauge is the size of a set of handlers. `OneMoves` says
  how the step of one handler changes the size of such a set, the lemmas on the
  actions that the gauge changes by as much. The bound of the stream gauge comes
  from `SlotAccounting`.
* `ServiceIsReported`. The event of a stream is made in the step that completes it,
  that of a buffered answer before it is written, so for a while there is an event
  and no answer yet. `ServiceOK` says label by label what the last call came to, that only
  a request without an answer from a provider keeps an error, and that there is an
  event, the one `Report` makes, exactly for the answers that served or are being
  written. `RequestOK` gives the calls of
  the turn, the listings above who is a fallback.
* `CountersAreRight`. Each counter is the size of a set of requests
  (`CounterInv`); the streams started are the sum of four such sets, and the
  cancellations at most the requests on their way out that were interrupted or not
  connected in time (`Excused`). A step of one
  handler changes every counter by what it changes of the sets (`Reconciles`), and
  `SetMoves` turns that into sizes.
* `RelayInvariant`. The chunks delivered are those read but for the one in hand;
  an error of EOF means that nothing was unread; the marker was seen in a chunk
  that was delivered; a handler that returned left no watchdog. The three
  theorems after it are read off it.
* `SearchExact`. `TailIsRecent` says that the tail is the last
  `Len(Marker) - 1` bytes of the stream. An occurrence of the marker in
  `stream \o chunk` lies in the stream, in the chunk, or across the boundary, and
  in the last case in the tail and the first bytes of the chunk.
* `UsageIsRead`. The text up to the last empty line has been parsed, the rest
  waits, and a text is cut at an empty line only, so no line lies across a cut;
  the last line that reports usage is that of the second piece or, if this has
  none, of the first. `ParseSSE` is a choice of the last such line, not a fold, so
  no induction is needed.
* `ExpiriesAreSilences`. `TimerFollows`: the timer and the silence add up to at
  least the timeout, and whatever was heard in this tick has set the timer back,
  or is still to be read, in hand, or a token in the reset channel. So a timer
  that reaches zero has counted a whole timeout of silence.
* `MetricsCorrect`. While the scraper is at line `n` its running total is at most
  the number of calls counted that belong to buckets below `n`. A load of the next
  bucket keeps this because its calls were counted before they entered it and are
  not among those below; an addition only enlarges the set. The total printed
  later is then at most the count.
* `MapsAreStill`. The only steps that add entries are lookups under the lock.
* `CountersOnlyGrow`. `SeriesInv` says of every counter that it is exactly the set
  of calls whose handlers are past its addition, and that nothing is counted in a
  series outside the maps. So an entry that is made starts at the zero it had, and
  an addition only adds its own call.
* `RecordedInPlace`. `SeriesInv` read off when every handler is past its additions:
  each series is then the set of all calls with its labels. A reason of a retry has
  to differ from the absence of one, which is assumed.
* `LifecycleCorrect`, `ZeroIsDrained`. The gateway is drained only once the
  diagnostics server is idle and neither listener accepts; the step to status 0
  has the gateway idle by its guard and the diagnostics server by the invariant,
  so it cuts nothing off.
* `AcceptedRuns`, `ListedAreServed`, `NamesArrive`, `ReadyIsServed`. What the loop
  over the model list does is followed turn by turn. `WalkKeeps` says what it
  leaves alone, `LastEntryWins` that after `n` entries the last one of each name
  among them decides on its route and on the alias of its provider;
  `EnvironmentOverrides` says what the later layers change of that, and
  `Existing` is treated like the loop. Induction over the turns is induction over
  the set of numbers for which a statement holds (`SetInduction`), which follows
  from the well-foundedness of `<`. A name is cut at its first slash, so a
  provider without a slash that qualifies a name is what is cut off.
* `WaitIsBounded`. The wait is clamped after it was computed, whatever the
  product of the header wrapped around to; a number that fits is left alone.
* `VectorsAreOrdered`. By counting: `n` indexes in `0 .. n - 1` that are all
  different are all of them, and in rising order the `k`-th is `k - 1`. What is
  refused lacks an index, doubles one, or has two lengths.

Left to TLC: liveness (`ChatFinishes`, `RelayReturns`, `StopsWhenAsked`),
which rests on fairness and so on `ENABLED`. Every other property
of a passing run is the statement of a theorem.

## 5. Not modelled

* JSON: decoding, encoding, and the fields of a body other than the model. Whether
  a body passes is a choice; `prepareChatBody` rewrites fields for ollama
  (`provider.go` 167-182) that nothing else depends on.
* Formatting: pages of `/metrics` and `/status`, log lines, the JSON of a usage
  event, label escaping and bounding, the list of models, `/health`.
* Durations and bytes as numbers: sums of milliseconds, `bytes`, buckets of time
  other than as positions.
* The time between the steps of a request: deadlines and cooldowns pass at any
  moment.
* Redirects of providers: `http.Client` repeats a POST on 307 and 308 by itself.
  `sent` holds the calls the gateway makes, not what the client makes of each.
* Bytes that come from `Read` together with an error other than EOF. The relay
  would forward them and then cut the stream as it does when they come first.
* The benchmarks and the fake provider, and the `healthcheck` subcommand, which
  is a client and asks port 4000 whatever the address is.

## 6. Plan

Done, in this order, the request path being what the gateway is for:
`ProviderHealth`, `Gateway` with its properties, `Bulkheads` and the refinement,
`StreamRelay`, `DoneMarker`, `UsageScan`, `Embeddings`; then `Lifecycle`,
`MetricsRegistry`, `Routing`, `Config`, `RetryDelay`, `Algorithms`, and the
proofs of section 4.

Next:

1. `Gateway` composed with the verdict of `StreamRelay` and its clock, so that how
   long a slow client keeps a token shows.
2. An abstract specification of at-most-once service that `Gateway` refines.
3. Labels: what `boundedMetricLabel` merges, and series that clients create.
