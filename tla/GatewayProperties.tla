-------------------------- MODULE GatewayProperties --------------------------
(***************************************************************************)
(* What the request path of the gateway promises, whatever the             *)
(* interleaving of handlers, the order of provider answers and the moment  *)
(* clients leave.                                                          *)
(***************************************************************************)
EXTENDS Gateway

Occupants(k, labels) == {r \in Requests : Kind(r) = k /\ pc[r] \in labels}
WithAnswer(answers)  == {r \in Requests : answer[r] \in answers}
Past == {"release", "leave", "exit", "done"}

-----------------------------------------------------------------------------
\* Bulkheads.  On every path out of chat and embeddings the deferred receive
\* gives back exactly the token its select took: each semaphore holds one
\* token per handler between Acquire and Release, and never overflows.
SlotsMatchHolders ==
  \A k \in Kinds : /\ slots[k] = Cardinality(Occupants(k, Admitted))
                   /\ slots[k] <= Limit[k]

\* The semaphores implement the bulkheads: seen through how far each request
\* has come, every step of the gateway is a step of Bulkheads or none at all.
PhaseOf(label) ==
  CASE label \in {"idle", "body", "select"} -> "outside"
    [] label = "queue"                      -> "waiting"
    [] label \in Admitted                   -> "serving"
    [] OTHER                                -> "gone"

Bulk == INSTANCE Bulkheads WITH
          phase <- [r \in Requests |-> PhaseOf(pc[r])],
          kind  <- [r \in Requests |-> Kind(r)]

ImplementsBulkheads == Bulk!Spec

\* Connections are bounded by the bulkheads: a call in flight or a response
\* body that is still open belongs to a handler that holds its token, there is
\* at most one of either per handler, and none outlives the token, whether the
\* handler retried, fell back, failed or was interrupted.
ConnectionsHeldUnderSlots ==
  \A r \in Requests :
    LET pending == sent[r] # <<>> /\ LastCall(r).out = "pending"
    IN /\ ~(open[r] /\ pending)
       /\ open[r] \/ pending => pc[r] \in Admitted \ {"release"}

\* The active* gauges count the handlers that are at work and come back to
\* zero; the stream gauge, which is raised late and lowered early, never
\* exceeds the tokens of the stream semaphore.
GaugesMatchWork ==
  LET inside   == Labels \ {"idle", "done"}
      handling == inside \ {"exit"}
      in(k, labels) == IF k \in Kinds THEN Cardinality(Occupants(k, labels))
                                      ELSE 0
  IN /\ gauge["active"] = Cardinality({r \in Requests : pc[r] \in inside})
     /\ gauge["activeChat"] = in("chat", handling) + in("stream", handling)
     /\ gauge["activeEmbeddings"] = in("embed", handling)
     /\ gauge["activeStreams"] =
          in("stream", {"errorbody", "relay", "write", "unwind"})
     /\ "stream" \in Kinds => gauge["activeStreams"] <= slots["stream"]

\* The counters on /status reconcile with what clients were answered: every
\* stream counted is completed, aborted, still relayed, or was refused by its
\* provider; every finished request is counted once, as an error exactly when
\* its status was 400 or above; and the cancellations are requests that were
\* interrupted or whose connection to a provider was not made in time, each
\* counted at most once, however many waits the interruption ended.
CountersReconcile ==
  LET streams == {r \in Requests : Kind(r) = "stream"}
      refused == {r \in streams : \/ pc[r] \in {"errorbody", "write"}
                                  \/ /\ pc[r] \in Past \union {"unwind"}
                                     /\ failure[r] = "none"
                                     /\ sent[r] # <<>>
                                     /\ LastCall(r).out \in {"reject", "retry"}}
      done    == {r \in Requests : At(r, "done")}
  IN /\ total["streamsTotal"] =
          total["streamCompleted"] + total["streamAborted"]
          + Cardinality({r \in streams : At(r, "relay")})
          + Cardinality(refused)
     /\ total["streamCompleted"] = Cardinality(WithAnswer({"streamed"}))
     /\ total["requests"] = Cardinality(done)
     /\ total["errors"] = Cardinality(done \intersect WithAnswer(ErrorAnswers))
     /\ total["limitRejections"] =
          Cardinality(WithAnswer({"unreadable", "canceled"}))
     /\ total["cancellations"] <=
          Cardinality({r \in Requests : CtxDone(r) \/ failure[r] = "timeout"})

-----------------------------------------------------------------------------
\* The candidates are providers of the route in the order it lists them, each
\* listing used at most once, and never none: cooldowns cannot make a request
\* fail that has a route, the primary is then tried regardless.
CandidatesFollowTheRoute ==
  \A r \in Requests :
    /\ \E listing \in [DOMAIN clients[r] -> DOMAIN Path(r)] :
         \A i \in DOMAIN clients[r] :
           /\ clients[r][i] = Path(r)[listing[i]]
           /\ \A j \in 1 .. i - 1 : listing[j] < listing[i]
    /\ answer[r] = "unrouted" => Path(r) = <<>>
    /\ pc[r] \in Admitted \union {"queue"} =>
         idx[r] \in 1 .. Len(clients[r])

\* The candidate the i-th call of a request is for: one call each for a stream,
\* two otherwise.
Turn(r, i) == IF Kind(r) = "stream" THEN i ELSE (i + 1) \div 2

\* Every repetition is justified.  The calls of a request walk its candidates
\* in order, one call each when streaming and two otherwise, and each call but
\* the last was answered with 429 or 5xx: nothing is sent again after a
\* success, after another status, or after a transport error the provider may
\* have acted upon.
RepetitionsAreJustified ==
  \A r \in Requests : \A i \in DOMAIN sent[r] :
    /\ Turn(r, i) <= Len(clients[r])
    /\ sent[r][i].to = clients[r][Turn(r, i)]
    /\ i < Len(sent[r]) => sent[r][i].out = "retry"

\* A cooldown is earned.  However the failures and successes of concurrent
\* requests interleave, the failures counted for a provider, and the two that
\* a running cooldown stands for, do not exceed the times some request turned
\* away from it.
Strikes(p) ==
  UNION {{r} \X {i \in 1 .. idx[r] - 1 : clients[r][i] = p} : r \in Requests}

CooldownsAreEarned ==
  \A p \in Providers :
    providerFailures[p] + (IF p \in cooling THEN FailureThreshold ELSE 0)
      <= Cardinality(Strikes(p))

\* Usage is reported exactly once for each answer that was served or is being
\* written, naming the provider that served it and the calls made to it in its
\* turn, and never for a request that failed, was refused or was cut;
\* fallback_used is never set for an answer of a provider the route lists as
\* primary only.
Served(r) == \/ answer[r] \in {"ok", "streamed"}
             \/ At(r, "write") /\ LastCall(r).out = "ok"

UsageMatchesService ==
  \A r \in Requests :
    /\ Len(usage[r]) = (IF Served(r) THEN 1 ELSE 0)
    /\ \A i \in DOMAIN usage[r] :
         LET event == usage[r][i]
         IN /\ LastCall(r) = [to |-> event.provider, out |-> "ok"]
            /\ event.attempts = Cardinality({j \in DOMAIN sent[r] :
                                      Turn(r, j) = Turn(r, Len(sent[r]))})
            /\ event.fallback =>
                 \E n \in 2 .. Len(Path(r)) : Path(r)[n] = event.provider

\* No provider is called for a request whose client has been sent anything, or
\* has gone, or whose time is up, or whose previous answer is still open.
CallsStartClean ==
  [][\A r \in Requests :
       Len(sent'[r]) > Len(sent[r]) =>
         /\ answer[r] = "none"
         /\ ~open[r]
         /\ ~CtxDone(r)]_vars

-----------------------------------------------------------------------------
\* Progress and isolation.  A chat request that reached provider selection is
\* finished, if not by its provider then by its deadline, and its token is not
\* lost to the others, whatever embedding and streaming requests do: they may
\* hold every token of their own semaphores for good.  Two things alone can be
\* in its way for ever, because the code sets them no limit: a scraper that
\* stops reading while the metrics handler holds routeMu, and a client of the
\* same class that does not take its answer.
ChatSpec == Spec /\ Fairness({"chat"})

ScraperStops == <>[]scraping

ClientStops == \E r \in Requests : <>[](At(r, "write") /\ Kind(r) = "chat")

ChatFinishes ==
  \/ ScraperStops
  \/ ClientStops
  \/ \A r \in Requests :
       At(r, "select") /\ Kind(r) = "chat" ~> At(r, "done")

-----------------------------------------------------------------------------
\* What the documentation says and the code does not do.

\* docs/providers.md: an answer that came from another provider than the
\* primary is marked with fallback_used.
FallbackIsMarked ==
  \A r \in Requests : \A i \in DOMAIN usage[r] :
    usage[r][i].provider # Path(r)[1] => usage[r][i].fallback

\* docs/configuration.md: a provider that failed repeatedly, and never
\* succeeded, is in cooldown (read in an instance where none has elapsed).
FailuresOf(p) == {r \in Requests : /\ At(r, "done")
                                   /\ sent[r] # <<>>
                                   /\ LastCall(r) = [to |-> p, out |-> "retry"]}
RepeatedFailuresCool ==
  \A p \in Providers :
    Cardinality(FailuresOf(p)) >= FailureThreshold => p \in cooling
=============================================================================
