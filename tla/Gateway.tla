------------------------------- MODULE Gateway -------------------------------
(***************************************************************************)
(* The request path of the gateway (internal/router/router.go, Handler,    *)
(* chat, embeddings and clientsFor, with the attempt loop of               *)
(* internal/provider/provider.go).                                         *)
(*                                                                         *)
(* Every request is one handler goroutine with a program counter.  A step  *)
(* is a stretch of the handler between two operations other goroutines can *)
(* observe: taking routeMu, the admission select, a call to a provider, a  *)
(* blocking read or write, a deferred release.  The environment            *)
(* disconnects clients, lets deadlines expire and cooldowns elapse, and    *)
(* scrapes /metrics, whose handler keeps routeMu locked while it writes to *)
(* the scraper.                                                            *)
(***************************************************************************)
EXTENDS Integers, Sequences, FiniteSets, ProviderHealth

CONSTANTS
  Requests,    \* the requests the clients send
  Kinds,       \* admission classes in use
  Models,      \* model names the clients ask for
  Route,       \* model -> its configured providers, primary first (<<>>: none)
  Keyed,       \* providers whose API key is not empty
  Limit,       \* capacity of the semaphore of each class
  Events       \* what the environment may do

ASSUME RequestsAssumption == IsFiniteSet(Requests)
ASSUME KindsAssumption  == Kinds \subseteq {"chat", "stream", "embed"}
ASSUME RouteAssumption  == Route \in [Models -> Seq(Providers)]
ASSUME KeyedAssumption  == Keyed \subseteq Providers
ASSUME LimitAssumption  == Limit \in [Kinds -> Nat \ {0}]
ASSUME EventsAssumption ==
  Events \subseteq {"cancel", "deadline", "elapse", "scrape"}

VARIABLES
  pc,          \* where each handler is
  call,        \* what each client asks for: its class and its model
  pos,         \* the next provider of the route clientsFor looks at
  clients,     \* the candidates it has chosen
  idx,         \* the candidate being tried
  attempt,     \* which attempt at that candidate
  sent,        \* the calls made upstream and what each came to (history)
  failure,     \* the error that ended the candidate loop
  open,        \* an upstream response body is open
  answer,      \* what the client was answered
  usage,       \* the usage events reported for the request
  cancelled,   \* the client of the request has gone away
  expired,     \* the request timeout has passed
  slots,       \* tokens in the semaphore of each class
  scraping,    \* the metrics handler holds routeMu
  gauge,       \* the server's active* counters
  total        \* the server's monotonic counters

chain   == <<pos, clients, idx, attempt>>
calls   == <<sent, failure, open>>
reply   == <<answer, usage>>
client  == <<call, cancelled, expired>>
metrics == <<gauge, total>>
shared  == <<slots, scraping, health>>

vars == <<pc, chain, calls, reply, client, metrics, shared>>

-----------------------------------------------------------------------------
\* What an upstream call came to: a status below 400, one that is not worth
\* repeating, one that is (429, 5xx), or no response at all.
Statuses == {"ok", "reject", "retry"}
Outcomes == Statuses \union {"pending", "lost"}

Gauges == {"active", "activeChat", "activeEmbeddings", "activeStreams"}

Counters == {"requests", "errors", "authFailures", "limitRejections",
             "cancellations", "providerErrors", "retries", "streamsTotal",
             "streamCompleted", "streamAborted"}

ErrorAnswers == {"unauthorized", "unreadable", "malformed", "unrouted",
                 "canceled", "bad_gateway", "upstream_error"}
Answers == ErrorAnswers \union {"none", "streaming", "streamed", "cut", "ok"}

\* "timeout" is the transport's own: the dialer gives up after five seconds, and
\* its error is context.DeadlineExceeded to errors.Is like that of the context.
Failures == {"none", "context", "timeout", "transport", "unkeyed"}

CallRecords == [to: Providers, out: Outcomes]

UsageEvents == [provider: Providers, attempts: 1 .. 2, fallback: BOOLEAN]

Labels == {"idle", "body", "select", "queue", "attempt", "inflight", "drain",
           "backoff", "judge", "account", "errorbody", "relay", "read",
           "write", "failed", "unwind", "release", "leave", "exit", "done"}

\* From the send on the semaphore to the deferred receive.
Admitted == {"attempt", "inflight", "drain", "backoff", "judge", "account",
             "errorbody", "relay", "read", "write", "failed", "unwind",
             "release"}

\* Between context.WithTimeout and the end of the upstream work.
Timed == Admitted \ {"failed", "unwind", "release"}

ControlOK == pc \in [Requests -> Labels]

ChainOK ==
  /\ pos \in [Requests -> Nat \ {0}]
  /\ clients \in [Requests -> Seq(Providers)]
  /\ idx \in [Requests -> Nat \ {0}]
  /\ attempt \in [Requests -> 1 .. 2]

CallsOK ==
  /\ sent \in [Requests -> Seq(CallRecords)]
  /\ failure \in [Requests -> Failures]
  /\ open \in [Requests -> BOOLEAN]

ReplyOK ==
  /\ answer \in [Requests -> Answers]
  /\ usage \in [Requests -> Seq(UsageEvents)]

ClientOK ==
  /\ call \in [Requests -> [kind: Kinds, model: Models]]
  /\ cancelled \in [Requests -> BOOLEAN]
  /\ expired \in [Requests -> BOOLEAN]

MetricsOK ==
  /\ gauge \in [Gauges -> Int]
  /\ total \in [Counters -> Nat]

SharedOK ==
  /\ slots \in [Kinds -> Int]
  /\ scraping \in BOOLEAN
  /\ HealthTypeOK

TypeOK == /\ ControlOK /\ ChainOK /\ CallsOK /\ ReplyOK
          /\ ClientOK /\ MetricsOK /\ SharedOK

Init ==
  /\ pc = [r \in Requests |-> "idle"]
  /\ call \in [Requests -> [kind: Kinds, model: Models]]
  /\ pos = [r \in Requests |-> 1]
  /\ clients = [r \in Requests |-> <<>>]
  /\ idx = [r \in Requests |-> 1]
  /\ attempt = [r \in Requests |-> 1]
  /\ sent = [r \in Requests |-> <<>>]
  /\ failure = [r \in Requests |-> "none"]
  /\ open = [r \in Requests |-> FALSE]
  /\ answer = [r \in Requests |-> "none"]
  /\ usage = [r \in Requests |-> <<>>]
  /\ cancelled = [r \in Requests |-> FALSE]
  /\ expired = [r \in Requests |-> FALSE]
  /\ slots = [k \in Kinds |-> 0]
  /\ scraping = FALSE
  /\ gauge = [g \in Gauges |-> 0]
  /\ total = [c \in Counters |-> 0]
  /\ HealthInit

-----------------------------------------------------------------------------
At(r, label)   == pc[r] = label
Goto(r, label) == pc' = [pc EXCEPT ![r] = label]
Kind(r)        == call[r].kind
Path(r)        == Route[call[r].model]
Candidate(r)   == clients[r][idx[r]]
LastCall(r)    == sent[r][Len(sent[r])]
CtxDone(r)     == cancelled[r] \/ expired[r]

Counted(names)   == total' = [c \in Counters |->
                                IF c \in names THEN total[c] + 1 ELSE total[c]]
HandlerGauge(r)  == IF Kind(r) = "embed" THEN "activeEmbeddings"
                                         ELSE "activeChat"
Reply(r, a)      == answer' = [answer EXCEPT ![r] = a] /\ UNCHANGED usage

-----------------------------------------------------------------------------
\* Admission to the handler: the wrapper's gauge, then authorization, then the
\* gauge of the endpoint.
Arrive(r) ==
  /\ At(r, "idle")
  /\ Goto(r, "body")
  /\ gauge' = [gauge EXCEPT !["active"] = @ + 1, ![HandlerGauge(r)] = @ + 1]
  /\ UNCHANGED <<chain, calls, reply, total, client, shared>>

RefuseUnauthorized(r) ==
  /\ At(r, "idle")
  /\ Goto(r, "exit")
  /\ gauge' = [gauge EXCEPT !["active"] = @ + 1]
  /\ Counted({"authFailures"})
  /\ Reply(r, "unauthorized")
  /\ UNCHANGED <<chain, calls, client, shared>>

ReadRequest(r) ==
  /\ At(r, "body")
  /\ Goto(r, "select")
  /\ UNCHANGED <<chain, calls, reply, metrics, client, shared>>

\* The body is over the limit, or the client went away while sending it.
RefuseUnreadable(r) ==
  /\ At(r, "body")
  /\ Goto(r, "leave")
  /\ Counted({"limitRejections"})
  /\ Reply(r, "unreadable")
  /\ UNCHANGED <<chain, calls, gauge, client, shared>>

RefuseMalformed(r) ==
  /\ At(r, "body")
  /\ Goto(r, "leave")
  /\ Reply(r, "malformed")
  /\ UNCHANGED <<chain, calls, metrics, client, shared>>

-----------------------------------------------------------------------------
\* clientsFor: one pass over the primary and its fallbacks, asking for each
\* provider, under its own acquisition of routeMu, whether it is available.
ConsiderProvider(r) ==
  LET p == Path(r)[pos[r]]
  IN /\ At(r, "select")
     /\ pos[r] <= Len(Path(r))
     /\ ~scraping
     /\ pos' = [pos EXCEPT ![r] = @ + 1]
     /\ clients' = [clients EXCEPT ![r] = IF ProviderAvailable(p)
                                          THEN Append(@, p) ELSE @]
     /\ UNCHANGED <<pc, idx, attempt, calls, reply, metrics, client, shared>>

\* Mutant: nothing is tried when every provider is cooling down.
FinishSelection_NoPrimary(r) ==
  /\ At(r, "select")
  /\ Path(r) # <<>>
  /\ pos[r] > Len(Path(r))
  /\ IF clients[r] = <<>>
     THEN Goto(r, "leave") /\ Reply(r, "unrouted")
     ELSE Goto(r, "queue") /\ UNCHANGED reply
  /\ UNCHANGED <<chain, calls, metrics, client, shared>>

\* With every provider cooling down the primary is tried all the same.
FinishSelection(r) ==
  /\ At(r, "select")
  /\ Path(r) # <<>>
  /\ pos[r] > Len(Path(r))
  /\ Goto(r, "queue")
  /\ clients' = [clients EXCEPT ![r] = IF @ = <<>> THEN <<Path(r)[1]>> ELSE @]
  /\ UNCHANGED <<pos, idx, attempt, calls, reply, metrics, client, shared>>

RefuseUnrouted(r) ==
  /\ At(r, "select")
  /\ Path(r) = <<>>
  /\ Goto(r, "leave")
  /\ Reply(r, "unrouted")
  /\ UNCHANGED <<chain, calls, metrics, client, shared>>

Semaphore_Shared(r) == "chat"    \* mutant: one pool for every class

\* The semaphore of the request's class.
Semaphore(r) == Kind(r)

HasRoom_OffByOne(k) == slots[k] <= Limit[k]    \* mutant

HasRoom(k) == slots[k] < Limit[k]

\* The admission select: when both cases are ready either may be chosen.
Acquire(r) ==
  /\ At(r, "queue")
  /\ HasRoom(Semaphore(r))
  /\ slots' = [slots EXCEPT ![Semaphore(r)] = @ + 1]
  /\ Goto(r, "attempt")
  /\ UNCHANGED <<chain, calls, reply, metrics, client, scraping, health>>

\* Mutant: the token is given back although it was never taken.
AbandonQueue_Releases(r) ==
  /\ At(r, "queue")
  /\ cancelled[r]
  /\ Goto(r, "release")
  /\ Counted({"cancellations", "limitRejections"})
  /\ Reply(r, "canceled")
  /\ UNCHANGED <<chain, calls, gauge, client, shared>>

AbandonQueue(r) ==
  /\ At(r, "queue")
  /\ cancelled[r]
  /\ Goto(r, "leave")
  /\ Counted({"cancellations", "limitRejections"})
  /\ Reply(r, "canceled")
  /\ UNCHANGED <<chain, calls, gauge, client, shared>>

-----------------------------------------------------------------------------
\* Client.Chat and Client.Embedding: up to two attempts at one candidate.
Call(r, out) == [to |-> Candidate(r), out |-> out]

Fail(r, why) ==
  /\ Goto(r, "failed")
  /\ failure' = [failure EXCEPT ![r] = why]
  /\ UNCHANGED <<chain, sent, open, reply, metrics, client, shared>>

RefuseUnkeyed(r) ==
  /\ At(r, "attempt")
  /\ Candidate(r) \notin Keyed
  /\ Fail(r, "unkeyed")

\* Mutant: the call does not inherit the request's context.
SendCall_Detached(r) ==
  /\ At(r, "attempt")
  /\ Candidate(r) \in Keyed
  /\ Goto(r, "inflight")
  /\ sent' = [sent EXCEPT ![r] = Append(@, Call(r, "pending"))]
  /\ UNCHANGED <<chain, failure, open, reply, metrics, client, shared>>

SendCall(r) ==
  /\ At(r, "attempt")
  /\ Candidate(r) \in Keyed
  /\ ~CtxDone(r)
  /\ Goto(r, "inflight")
  /\ sent' = [sent EXCEPT ![r] = Append(@, Call(r, "pending"))]
  /\ UNCHANGED <<chain, failure, open, reply, metrics, client, shared>>

\* The transport refuses a request whose context is already done.
SkipCall(r) ==
  /\ At(r, "attempt")
  /\ Candidate(r) \in Keyed
  /\ CtxDone(r)
  /\ Fail(r, "context")

Replays_Streams(r, status) ==    \* mutant: streams are repeated too
  /\ status = "retry"
  /\ attempt[r] = 1

\* A chat or embedding call is repeated once, at the same candidate, after an
\* explicit retryable status; a streaming call never is.
Replays(r, status) ==
  /\ status = "retry"
  /\ attempt[r] = 1
  /\ Kind(r) # "stream"

Respond(r, status) ==
  /\ At(r, "inflight")
  /\ Goto(r, IF Replays(r, status) THEN "drain" ELSE "judge")
  /\ sent' = [sent EXCEPT ![r][Len(sent[r])] = Call(r, status)]
  /\ open' = [open EXCEPT ![r] = TRUE]
  /\ UNCHANGED <<chain, failure, reply, metrics, client, shared>>

\* No response: the connection failed or was not made in time, or the context
\* ended the call.
LoseCall(r) ==
  /\ At(r, "inflight")
  /\ Goto(r, "failed")
  /\ sent' = [sent EXCEPT ![r][Len(sent[r])] = Call(r, "lost")]
  /\ \E why \in {"transport", "timeout"}
                  \union (IF CtxDone(r) THEN {"context"} ELSE {}) :
       failure' = [failure EXCEPT ![r] = why]
  /\ UNCHANGED <<chain, open, reply, metrics, client, shared>>

\* Mutant: the first body is drained but never closed.
DrainForRetry_KeepsBody(r) ==
  /\ At(r, "drain")
  /\ Goto(r, "backoff")
  /\ UNCHANGED <<chain, calls, reply, metrics, client, shared>>

DrainForRetry(r) ==
  /\ At(r, "drain")
  /\ Goto(r, "backoff")
  /\ open' = [open EXCEPT ![r] = FALSE]
  /\ UNCHANGED <<chain, sent, failure, reply, metrics, client, shared>>

\* waitForRetry: the timer against the context.
RetryAfterBackoff(r) ==
  /\ At(r, "backoff")
  /\ Goto(r, "attempt")
  /\ attempt' = [attempt EXCEPT ![r] = 2]
  /\ UNCHANGED <<pos, clients, idx, calls, reply, metrics, client, shared>>

AbandonBackoff(r) ==
  /\ At(r, "backoff")
  /\ CtxDone(r)
  /\ Fail(r, "context")

-----------------------------------------------------------------------------
\* The candidate loop: on a retryable status with a candidate left, close the
\* body, count the failure against the provider and go on to the next one.
Advances(r) ==
  /\ LastCall(r).out = "retry"
  /\ idx[r] < Len(clients[r])

FallBack(r) ==
  /\ At(r, "judge")
  /\ Advances(r)
  /\ ~scraping
  /\ Goto(r, "attempt")
  /\ open' = [open EXCEPT ![r] = FALSE]
  /\ idx' = [idx EXCEPT ![r] = @ + 1]
  /\ attempt' = [attempt EXCEPT ![r] = 1]
  /\ MarkProviderFailure(Candidate(r))
  /\ UNCHANGED <<pos, clients, sent, failure, reply, metrics, client, slots,
                 scraping>>

\* The answer that ends the loop; only a status below 400 counts as success.
Accept(r) ==
  /\ At(r, "judge")
  /\ ~Advances(r)
  /\ Goto(r, "account")
  /\ IF LastCall(r).out = "ok"
     THEN ~scraping /\ MarkProviderSuccess(Candidate(r))
     ELSE UNCHANGED health
  /\ UNCHANGED <<chain, calls, reply, metrics, client, slots, scraping>>

\* retryCount: the repetitions of the candidate that answered.
Repeated(r) == attempt[r] - 1

\* recordRouteMetric and recordRetryReason look their entries up under routeMu;
\* the entries are atomic counters and are not kept here.
CanRecord == ~scraping

\* Route metrics, the stream gauge, the retries of the last candidate, and the
\* split between an upstream error, a stream and a buffered response.
Account(r) ==
  LET served    == LastCall(r).out = "ok"
      streaming == Kind(r) = "stream"
  IN /\ At(r, "account")
     /\ CanRecord
     /\ Goto(r, IF ~served THEN "errorbody"
                ELSE IF streaming THEN "relay" ELSE "read")
     /\ answer' = [answer EXCEPT ![r] = IF served /\ streaming
                                        THEN "streaming" ELSE @]
     /\ gauge' = [gauge EXCEPT !["activeStreams"] =
                                  IF streaming THEN @ + 1 ELSE @]
     /\ total' = [total EXCEPT
                    !["streamsTotal"] = IF streaming THEN @ + 1 ELSE @,
                    !["retries"] = @ + Repeated(r),
                    !["providerErrors"] =
                        @ + Repeated(r) + (IF served THEN 0 ELSE 1)]
     /\ UNCHANGED <<chain, calls, usage, client, shared>>

\* copyUpstreamError: the provider's error is read to be copied to the client.
CopyUpstreamError(r) ==
  /\ At(r, "errorbody")
  /\ Goto(r, "write")
  /\ UNCHANGED <<chain, calls, reply, metrics, client, shared>>

\* It is too large, or cannot be read.
RefuseUpstreamError(r) ==
  /\ At(r, "errorbody")
  /\ Goto(r, "unwind")
  /\ Reply(r, "bad_gateway")
  /\ UNCHANGED <<chain, calls, metrics, client, shared>>

\* Mutant: the primary is named, whoever served.
Report_Primary(r) ==
  [provider |-> Path(r)[1], attempts |-> attempt[r],
   fallback |-> idx[r] > 1]

\* reportUsage, with selectedIndex > 0 as fallback_used.
Report(r) ==
  [provider |-> Candidate(r), attempts |-> attempt[r],
   fallback |-> idx[r] > 1]

\* The stream ended with [DONE] and EOF: what the client was sent is complete.
CompleteStream(r) ==
  /\ At(r, "relay")
  /\ Goto(r, "unwind")
  /\ answer' = [answer EXCEPT ![r] = "streamed"]
  /\ usage' = [usage EXCEPT ![r] = Append(@, Report(r))]
  /\ Counted({"streamCompleted"})
  /\ UNCHANGED <<chain, calls, gauge, client, shared>>

\* Mutant: every cut is taken for a cancellation.
CutStream_AlwaysCancelled(r) ==
  /\ At(r, "relay")
  /\ Goto(r, "unwind")
  /\ Reply(r, "cut")
  /\ Counted({"streamAborted", "cancellations"})
  /\ UNCHANGED <<chain, calls, gauge, client, shared>>

\* It ended any other way: upstream cut, idle timeout, deadline, client gone.
CutStream(r) ==
  /\ At(r, "relay")
  /\ Goto(r, "unwind")
  /\ Reply(r, "cut")
  /\ Counted({"streamAborted"} \union
             (IF cancelled[r] THEN {"cancellations"} ELSE {}))
  /\ UNCHANGED <<chain, calls, gauge, client, shared>>

\* The response is read whole and fits: its usage is reported before any of it
\* is written.
ReturnResponse(r) ==
  /\ At(r, "read")
  /\ Goto(r, "write")
  /\ usage' = [usage EXCEPT ![r] = Append(@, Report(r))]
  /\ UNCHANGED <<chain, calls, answer, metrics, client, shared>>

\* readBounded, validation or normalization failed.
RefuseResponse(r) ==
  /\ At(r, "read")
  /\ Goto(r, "unwind")
  /\ Reply(r, "bad_gateway")
  /\ UNCHANGED <<chain, calls, metrics, client, shared>>

\* Write returns: the client has taken the status and the body, or is gone; the
\* code ignores which.
FinishWrite(r) ==
  /\ At(r, "write")
  /\ Goto(r, "unwind")
  /\ Reply(r, IF LastCall(r).out = "ok" THEN "ok" ELSE "upstream_error")
  /\ UNCHANGED <<chain, calls, metrics, client, shared>>

\* An error out of the candidate loop; what errors.Is takes for an ended context
\* is counted as a cancellation.
ReportFailure(r) ==
  /\ At(r, "failed")
  /\ Goto(r, "release")
  /\ Reply(r, "bad_gateway")
  /\ Counted({"providerErrors"} \union
             (IF failure[r] \in {"context", "timeout"}
              THEN {"cancellations"} ELSE {}))
  /\ UNCHANGED <<chain, calls, gauge, client, shared>>

-----------------------------------------------------------------------------
\* The deferred calls, last registered first.
\* Mutant: the gauge is lowered for relayed streams only.
CloseUpstream_RelayedOnly(r) ==
  /\ At(r, "unwind")
  /\ Goto(r, "release")
  /\ gauge' = [gauge EXCEPT !["activeStreams"] =
                  IF answer[r] \in {"streamed", "cut"} THEN @ - 1 ELSE @]
  /\ open' = [open EXCEPT ![r] = FALSE]
  /\ UNCHANGED <<chain, sent, failure, reply, total, client, shared>>

CloseUpstream(r) ==
  /\ At(r, "unwind")
  /\ Goto(r, "release")
  /\ gauge' = [gauge EXCEPT !["activeStreams"] =
                               IF Kind(r) = "stream" THEN @ - 1 ELSE @]
  /\ open' = [open EXCEPT ![r] = FALSE]
  /\ UNCHANGED <<chain, sent, failure, reply, total, client, shared>>

Release(r) ==
  /\ At(r, "release")
  /\ Goto(r, "leave")
  /\ slots' = [slots EXCEPT ![Semaphore(r)] = @ - 1]
  /\ UNCHANGED <<chain, calls, reply, metrics, client, scraping, health>>

Leave(r) ==
  /\ At(r, "leave")
  /\ Goto(r, "exit")
  /\ gauge' = [gauge EXCEPT ![HandlerGauge(r)] = @ - 1]
  /\ UNCHANGED <<chain, calls, reply, total, client, shared>>

Exit(r) ==
  /\ At(r, "exit")
  /\ Goto(r, "done")
  /\ gauge' = [gauge EXCEPT !["active"] = @ - 1]
  /\ Counted({"requests"} \union
             (IF answer[r] \in ErrorAnswers THEN {"errors"} ELSE {}))
  /\ UNCHANGED <<chain, calls, reply, client, shared>>

-----------------------------------------------------------------------------
\* The environment.
ClientDisconnects(r) ==
  /\ "cancel" \in Events
  /\ pc[r] \notin {"idle", "done"}
  /\ ~cancelled[r]
  /\ cancelled' = [cancelled EXCEPT ![r] = TRUE]
  /\ UNCHANGED <<pc, chain, calls, reply, call, expired, metrics, shared>>

DeadlineExpires(r) ==
  /\ "deadline" \in Events
  /\ pc[r] \in Timed
  /\ ~expired[r]
  /\ expired' = [expired EXCEPT ![r] = TRUE]
  /\ UNCHANGED <<pc, chain, calls, reply, call, cancelled, metrics, shared>>

CooldownEnds(p) ==
  /\ "elapse" \in Events
  /\ CooldownElapses(p)
  /\ UNCHANGED <<pc, chain, calls, reply, client, metrics, slots, scraping>>

\* The metrics handler keeps routeMu from its first locked line until the last
\* line has been written to whoever asked for it.
BeginScrape ==
  /\ "scrape" \in Events
  /\ ~scraping
  /\ scraping' = TRUE
  /\ UNCHANGED <<pc, chain, calls, reply, client, metrics, slots, health>>

EndScrape ==
  /\ scraping
  /\ scraping' = FALSE
  /\ UNCHANGED <<pc, chain, calls, reply, client, metrics, slots, health>>

-----------------------------------------------------------------------------
\* The client sends: outside the gateway's control, never assumed to happen.
Receive(r) ==
  \/ Arrive(r) \/ RefuseUnauthorized(r)
  \/ ReadRequest(r) \/ RefuseUnreadable(r) \/ RefuseMalformed(r)

\* Steps the handler takes by itself.
Proceed(r) ==
  \/ FinishSelection(r) \/ RefuseUnrouted(r)
  \/ Acquire(r) \/ AbandonQueue(r)
  \/ RefuseUnkeyed(r) \/ SendCall(r) \/ SkipCall(r)
  \/ RetryAfterBackoff(r) \/ AbandonBackoff(r)
  \/ ReportFailure(r)
  \/ CloseUpstream(r) \/ Release(r) \/ Leave(r) \/ Exit(r)

\* Steps that need routeMu.
Locked(r) ==
  \/ ConsiderProvider(r) \/ FallBack(r) \/ Accept(r) \/ Account(r)

\* Steps that wait for the upstream, and that an ended context unblocks.
Await(r) ==
  \/ \E status \in Statuses : Respond(r, status)
  \/ LoseCall(r) \/ DrainForRetry(r)
  \/ CopyUpstreamError(r) \/ RefuseUpstreamError(r)
  \/ ReturnResponse(r) \/ RefuseResponse(r)

\* Steps that wait for the client to take what is written, a relay in turn with
\* waits for the upstream, and without a limit: there is no write timeout.
Deliver(r) == FinishWrite(r) \/ CompleteStream(r) \/ CutStream(r)

Handler(r) ==
  Receive(r) \/ Proceed(r) \/ Locked(r) \/ Await(r) \/ Deliver(r)

Environment ==
  \/ \E r \in Requests : ClientDisconnects(r) \/ DeadlineExpires(r)
  \/ \E p \in Providers : CooldownEnds(p)
  \/ BeginScrape \/ EndScrape

Finished ==
  /\ \A r \in Requests : At(r, "done")
  /\ UNCHANGED vars

Next == (\E r \in Requests : Handler(r)) \/ Environment \/ Finished

Spec == Init /\ [][Next]_vars

\* What the scheduler, the timers and the mutex of the Go runtime provide to
\* handlers of the classes in K: a handler that can go on does; a deadline
\* comes; once the context is done, a wait for the upstream ends; a goroutine
\* that keeps asking for routeMu gets it if it is free again and again
\* (sync.Mutex hands over to a waiter that starves).  Nothing is assumed of
\* clients sending or reading, of providers answering, nor of scrapers reading.
Fairness(K) ==
  \A r \in Requests :
    /\ WF_vars(Kind(r) \in K /\ Proceed(r))
    /\ SF_vars(Kind(r) \in K /\ Locked(r))
    /\ WF_vars(Kind(r) \in K /\ CtxDone(r) /\ Await(r))
    /\ WF_vars(Kind(r) \in K /\ DeadlineExpires(r))
=============================================================================
