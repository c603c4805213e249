---------------------------- MODULE GatewayProofs ----------------------------
(***************************************************************************)
(* Theorems about the request path, for any finite set of requests, any    *)
(* routes, any capacities and any set of environment events.               *)
(*                                                                         *)
(* TypeOK is not inductive: what a handler sends, reports or marks is a    *)
(* provider only because its cursor stays inside its candidate list.  That *)
(* is Cursor, and TypeOK /\ Cursor is inductive.  The proof goes part by   *)
(* part of the state, since most steps disturb few of them.  The token     *)
(* accounting of the semaphores and the refinement of Bulkheads follow.    *)
(***************************************************************************)
EXTENDS GatewayProperties, FiniteSetTheorems, SequenceTheorems, TLAPS

\* The cursor waits at the first candidate until there is a list, and from
\* then on points into it.
Cursor ==
  \A r \in Requests :
    /\ pc[r] \in {"idle", "body", "select"} => idx[r] = 1
    /\ pc[r] \in Admitted \union {"queue"} => idx[r] \in 1 .. Len(clients[r])

IInv == TypeOK /\ Cursor

-----------------------------------------------------------------------------
LEMMA CandidateType ==
  ASSUME NEW r \in Requests, IInv, pc[r] \in Admitted
  PROVE  Candidate(r) \in Providers
BY DEF IInv, TypeOK, ChainOK, Cursor, Candidate

LEMMA CallType ==
  ASSUME NEW r \in Requests, IInv, pc[r] \in Admitted, NEW out \in Outcomes
  PROVE  Call(r, out) \in CallRecords
BY CandidateType DEF Call, CallRecords

LEMMA PathType ==
  ASSUME NEW r \in Requests, ClientOK
  PROVE  Path(r) \in Seq(Providers) /\ Kind(r) \in Kinds
BY RouteAssumption DEF ClientOK, Path, Kind

LEMMA CountedType ==
  ASSUME MetricsOK, NEW names, Counted(names)
  PROVE  total' \in [Counters -> Nat]
BY DEF MetricsOK, Counted

\* Every step leaves the handlers at known labels.
LEMMA ControlStep ==
  ASSUME ControlOK, [Next]_vars
  PROVE  ControlOK'
<1> USE DEF ControlOK, Labels, At, Goto
<1>1. ASSUME NEW r \in Requests, Receive(r) PROVE ControlOK'
  BY <1>1 DEF Receive, Arrive, RefuseUnauthorized, ReadRequest,
              RefuseUnreadable, RefuseMalformed
<1>2. ASSUME NEW r \in Requests, Proceed(r) PROVE ControlOK'
  BY <1>2 DEF Proceed, FinishSelection, RefuseUnrouted, Acquire, AbandonQueue,
              RefuseUnkeyed, SendCall, SkipCall, Fail, RetryAfterBackoff,
              AbandonBackoff, ReportFailure, CloseUpstream, Release, Leave, Exit
<1>3. ASSUME NEW r \in Requests, Locked(r) PROVE ControlOK'
  BY <1>3 DEF Locked, ConsiderProvider, FallBack, Accept, Account
<1>4. ASSUME NEW r \in Requests, Await(r) \/ Deliver(r) PROVE ControlOK'
  BY <1>4 DEF Await, Deliver, Respond, LoseCall, DrainForRetry,
              CopyUpstreamError, RefuseUpstreamError, FinishWrite,
              CompleteStream, CutStream, ReturnResponse, RefuseResponse
<1>5. CASE Environment
  BY <1>5 DEF Environment, ClientDisconnects, DeadlineExpires, CooldownEnds,
              BeginScrape, EndScrape
<1>6. CASE UNCHANGED vars
  BY <1>6 DEF vars
<1> QED
  BY <1>1, <1>2, <1>3, <1>4, <1>5, <1>6 DEF Next, Handler, Finished

\* Selection fills the candidates from the route; fallback moves the cursor.
LEMMA ChainStep ==
  ASSUME IInv, [Next]_vars
  PROVE  ChainOK'
<1> USE DEF IInv, TypeOK, ChainOK, chain
<1>2. ASSUME NEW r \in Requests, FinishSelection(r) PROVE ChainOK'
  BY <1>2, PathType DEF FinishSelection
<1>3. ASSUME NEW r \in Requests, RetryAfterBackoff(r) PROVE ChainOK'
  BY <1>3 DEF RetryAfterBackoff
<1>4. ASSUME NEW r \in Requests, Proceed(r),
             ~FinishSelection(r), ~RetryAfterBackoff(r)
      PROVE  UNCHANGED chain
  BY <1>4 DEF Proceed, RefuseUnrouted, Acquire, AbandonQueue, RefuseUnkeyed,
              SendCall, SkipCall, Fail, AbandonBackoff, ReportFailure,
              CloseUpstream, Release, Leave, Exit
<1>5. ASSUME NEW r \in Requests, ConsiderProvider(r) PROVE ChainOK'
  BY <1>5, PathType DEF ConsiderProvider
<1>6. ASSUME NEW r \in Requests, FallBack(r) PROVE ChainOK'
  BY <1>6 DEF FallBack
<1>7. ASSUME NEW r \in Requests, Accept(r) \/ Account(r)
      PROVE  UNCHANGED chain
  BY <1>7 DEF Accept, Account
<1>8. ASSUME NEW r \in Requests, Await(r) \/ Deliver(r) PROVE UNCHANGED chain
  BY <1>8 DEF Await, Deliver, Respond, LoseCall, DrainForRetry,
              CopyUpstreamError, RefuseUpstreamError, FinishWrite,
              CompleteStream, CutStream, ReturnResponse, RefuseResponse
<1>9. ASSUME NEW r \in Requests, Receive(r) PROVE UNCHANGED chain
  BY <1>9 DEF Receive, Arrive, RefuseUnauthorized, ReadRequest,
              RefuseUnreadable, RefuseMalformed
<1>10. CASE Environment
  BY <1>10 DEF Environment, ClientDisconnects, DeadlineExpires, CooldownEnds,
               BeginScrape, EndScrape
<1>11. CASE UNCHANGED vars
  BY <1>11 DEF vars
<1>12. UNCHANGED chain => ChainOK'
  OBVIOUS
<1> QED
  BY <1>2, <1>3, <1>4, <1>5, <1>6, <1>7, <1>8, <1>9, <1>10, <1>11, <1>12
  DEF Next, Handler, Finished, Locked

\* Calls go to providers, and only a call that was made can come to something.
LEMMA CallsStep ==
  ASSUME IInv, [Next]_vars
  PROVE  CallsOK'
<1> USE DEF IInv, TypeOK, CallsOK, calls, Failures
<1>1. ASSUME NEW r \in Requests, Receive(r) PROVE CallsOK'
  BY <1>1 DEF Receive, Arrive, RefuseUnauthorized, ReadRequest,
              RefuseUnreadable, RefuseMalformed
<1>2. ASSUME NEW r \in Requests, SendCall(r) PROVE CallsOK'
  <2>1. Call(r, "pending") \in CallRecords
    BY <1>2, CallType DEF SendCall, At, Admitted, Outcomes
  <2>2. Append(sent[r], Call(r, "pending")) \in Seq(CallRecords)
    BY <2>1
  <2> QED BY <1>2, <2>2 DEF SendCall
<1>3. ASSUME NEW r \in Requests, Proceed(r), ~SendCall(r) PROVE CallsOK'
  BY <1>3 DEF Proceed, FinishSelection, RefuseUnrouted, Acquire, AbandonQueue,
              RefuseUnkeyed, SkipCall, Fail, RetryAfterBackoff,
              AbandonBackoff, ReportFailure, CloseUpstream, Release, Leave, Exit
<1>4. ASSUME NEW r \in Requests, Locked(r) PROVE CallsOK'
  BY <1>4 DEF Locked, ConsiderProvider, FallBack, Accept, Account
<1>5. ASSUME NEW r \in Requests, NEW out \in Outcomes, At(r, "inflight"),
             sent' = [sent EXCEPT ![r][Len(sent[r])] = Call(r, out)]
      PROVE  sent' \in [Requests -> Seq(CallRecords)]
  <2>1. sent[r] \in Seq(CallRecords) /\ Call(r, out) \in CallRecords
    BY <1>5, CallType DEF At, Admitted
  <2>2. [sent[r] EXCEPT ![Len(sent[r])] = Call(r, out)] \in Seq(CallRecords)
    <3> DEFINE s == [sent[r] EXCEPT ![Len(sent[r])] = Call(r, out)]
    <3>1. /\ Len(sent[r]) \in Nat
          /\ sent[r] \in [1 .. Len(sent[r]) -> CallRecords]
      BY <2>1, LenProperties
    <3>2. s \in [1 .. Len(sent[r]) -> CallRecords]
      BY <2>1, <3>1
    <3> QED BY <3>1, <3>2
  <2> QED BY <1>5, <2>2
<1>6. ASSUME NEW r \in Requests, NEW status \in Statuses, Respond(r, status)
      PROVE  CallsOK'
  BY <1>5, <1>6 DEF Respond, Outcomes
<1>7. ASSUME NEW r \in Requests, LoseCall(r) PROVE CallsOK'
  BY <1>5, <1>7 DEF LoseCall, Outcomes
<1>8. ASSUME NEW r \in Requests, Await(r) \/ Deliver(r), ~LoseCall(r),
             ~ \E status \in Statuses : Respond(r, status)
      PROVE  CallsOK'
  BY <1>8 DEF Await, Deliver, DrainForRetry, CopyUpstreamError,
              RefuseUpstreamError, FinishWrite, CompleteStream, CutStream,
              ReturnResponse, RefuseResponse
<1>9. CASE Environment
  BY <1>9 DEF Environment, ClientDisconnects, DeadlineExpires, CooldownEnds,
              BeginScrape, EndScrape
<1>10. CASE UNCHANGED vars
  BY <1>10 DEF vars
<1> QED
  BY <1>1, <1>2, <1>3, <1>4, <1>6, <1>7, <1>8, <1>9, <1>10
  DEF Next, Handler, Finished

\* Answers are known ones, and events name the provider that served.
LEMMA ReplyStep ==
  ASSUME IInv, [Next]_vars
  PROVE  ReplyOK'
<1> USE DEF IInv, TypeOK, ReplyOK, reply, Reply, Answers, ErrorAnswers
<1>1. ASSUME NEW r \in Requests, Receive(r) PROVE ReplyOK'
  BY <1>1 DEF Receive, Arrive, RefuseUnauthorized, ReadRequest,
              RefuseUnreadable, RefuseMalformed
<1>2. ASSUME NEW r \in Requests, Proceed(r) PROVE ReplyOK'
  BY <1>2 DEF Proceed, FinishSelection, RefuseUnrouted, Acquire, AbandonQueue,
              RefuseUnkeyed, SendCall, SkipCall, Fail, RetryAfterBackoff,
              AbandonBackoff, ReportFailure, CloseUpstream, Release, Leave, Exit
<1>3. ASSUME NEW r \in Requests, Locked(r) PROVE ReplyOK'
  BY <1>3 DEF Locked, ConsiderProvider, FallBack, Accept, Account
<1>4. ASSUME NEW r \in Requests, CompleteStream(r) \/ ReturnResponse(r)
      PROVE  ReplyOK'
  <2>1. Report(r) \in UsageEvents
    <3>1. Candidate(r) \in Providers
      BY <1>4, CandidateType DEF CompleteStream, ReturnResponse, At, Admitted
    <3> QED BY <3>1 DEF Report, UsageEvents, ChainOK
  <2>2. Append(usage[r], Report(r)) \in Seq(UsageEvents)
    BY <2>1
  <2> QED BY <1>4, <2>2 DEF CompleteStream, ReturnResponse
<1>5. ASSUME NEW r \in Requests, Await(r) \/ Deliver(r),
             ~CompleteStream(r), ~ReturnResponse(r)
      PROVE  ReplyOK'
  BY <1>5 DEF Await, Deliver, Respond, LoseCall, DrainForRetry,
              CopyUpstreamError, RefuseUpstreamError, FinishWrite, CutStream,
              RefuseResponse
<1>6. CASE Environment
  BY <1>6 DEF Environment, ClientDisconnects, DeadlineExpires, CooldownEnds,
              BeginScrape, EndScrape
<1>7. CASE UNCHANGED vars
  BY <1>7 DEF vars
<1> QED
  BY <1>1, <1>2, <1>3, <1>4, <1>5, <1>6, <1>7 DEF Next, Handler, Finished

\* Only the environment touches what concerns the client.
LEMMA ClientStep ==
  ASSUME ClientOK, [Next]_vars
  PROVE  ClientOK'
<1> USE DEF ClientOK, client
<1>1. ASSUME NEW r \in Requests, Handler(r) PROVE UNCHANGED client
  BY <1>1 DEF Handler, Receive, Arrive, RefuseUnauthorized, ReadRequest,
              RefuseUnreadable, RefuseMalformed, Proceed, FinishSelection,
              RefuseUnrouted, Acquire, AbandonQueue, RefuseUnkeyed, SendCall,
              SkipCall, Fail, RetryAfterBackoff, AbandonBackoff, ReportFailure,
              CloseUpstream, Release, Leave, Exit, Locked, ConsiderProvider,
              FallBack, Accept, Account, Await, Deliver, Respond, LoseCall,
              DrainForRetry, CopyUpstreamError, RefuseUpstreamError,
              FinishWrite, CompleteStream, CutStream, ReturnResponse,
              RefuseResponse
<1>2. CASE Environment
  BY <1>2 DEF Environment, ClientDisconnects, DeadlineExpires, CooldownEnds,
              BeginScrape, EndScrape
<1>3. CASE UNCHANGED vars
  BY <1>3 DEF vars
<1> QED BY <1>1, <1>2, <1>3 DEF Next, Finished

\* Gauges stay integers and counters natural.
LEMMA MetricsStep ==
  ASSUME IInv, [Next]_vars
  PROVE  MetricsOK'
<1> USE DEF IInv, TypeOK, MetricsOK, metrics
<1>1. ASSUME NEW r \in Requests, Receive(r) PROVE MetricsOK'
  BY <1>1 DEF Receive, Arrive, RefuseUnauthorized, ReadRequest,
              RefuseUnreadable, RefuseMalformed, Counted
<1>2. ASSUME NEW r \in Requests, Proceed(r) PROVE MetricsOK'
  BY <1>2 DEF Proceed, FinishSelection, RefuseUnrouted, Acquire, AbandonQueue,
              RefuseUnkeyed, SendCall, SkipCall, Fail, RetryAfterBackoff,
              AbandonBackoff, ReportFailure, CloseUpstream, Release, Leave,
              Exit, Counted
<1>3. ASSUME NEW r \in Requests, Account(r) PROVE MetricsOK'
  <2>1. gauge' \in [Gauges -> Int]
    BY <1>3 DEF Account, Gauges
  <2>2. total' \in [Counters -> Nat]
    <3>1. Repeated(r) \in Nat
      BY DEF ChainOK, Repeated
    <3> QED BY <1>3, <3>1 DEF Account, Counters
  <2> QED BY <2>1, <2>2
<1>4. ASSUME NEW r \in Requests, Locked(r), ~Account(r) PROVE MetricsOK'
  BY <1>4 DEF Locked, ConsiderProvider, FallBack, Accept
<1>5. ASSUME NEW r \in Requests, Await(r) \/ Deliver(r) PROVE MetricsOK'
  BY <1>5 DEF Await, Deliver, Respond, LoseCall, DrainForRetry,
              CopyUpstreamError, RefuseUpstreamError, FinishWrite,
              CompleteStream, CutStream, ReturnResponse, RefuseResponse, Counted
<1>6. CASE Environment
  BY <1>6 DEF Environment, ClientDisconnects, DeadlineExpires, CooldownEnds,
              BeginScrape, EndScrape
<1>7. CASE UNCHANGED vars
  BY <1>7 DEF vars
<1> QED
  BY <1>1, <1>2, <1>3, <1>4, <1>5, <1>6, <1>7 DEF Next, Handler, Finished

\* Tokens, routeMu and the health of the providers.
LEMMA SharedStep ==
  ASSUME IInv, [Next]_vars
  PROVE  SharedOK'
<1> USE DEF IInv, TypeOK, SharedOK, HealthTypeOK, shared, health,
            FailureThreshold
<1>1. ASSUME NEW r \in Requests, Receive(r) PROVE UNCHANGED shared
  BY <1>1 DEF Receive, Arrive, RefuseUnauthorized, ReadRequest,
              RefuseUnreadable, RefuseMalformed
<1>2. ASSUME NEW r \in Requests, Acquire(r) \/ Release(r) PROVE SharedOK'
  <2>1. Kind(r) \in Kinds
    BY PathType
  <2> QED BY <1>2, <2>1 DEF Acquire, Release, Semaphore
<1>3. ASSUME NEW r \in Requests, Proceed(r), ~Acquire(r), ~Release(r)
      PROVE  UNCHANGED shared
  BY <1>3 DEF Proceed, FinishSelection, RefuseUnrouted, AbandonQueue,
              RefuseUnkeyed, SendCall, SkipCall, Fail, RetryAfterBackoff,
              AbandonBackoff, ReportFailure, CloseUpstream, Leave, Exit
<1>4. ASSUME NEW r \in Requests, FallBack(r) PROVE SharedOK'
  <2>1. Candidate(r) \in Providers
    BY <1>4, CandidateType DEF FallBack, At, Admitted
  <2> QED BY <1>4, <2>1 DEF FallBack, MarkProviderFailure
<1>5. ASSUME NEW r \in Requests, Accept(r) PROVE SharedOK'
  BY <1>5 DEF Accept, MarkProviderSuccess
<1>6. ASSUME NEW r \in Requests, ConsiderProvider(r) \/ Account(r)
      PROVE  UNCHANGED shared
  BY <1>6 DEF ConsiderProvider, Account
<1>7. ASSUME NEW r \in Requests, Await(r) \/ Deliver(r) PROVE UNCHANGED shared
  BY <1>7 DEF Await, Deliver, Respond, LoseCall, DrainForRetry,
              CopyUpstreamError, RefuseUpstreamError, FinishWrite,
              CompleteStream, CutStream, ReturnResponse, RefuseResponse
<1>8. CASE Environment
  BY <1>8 DEF Environment, ClientDisconnects, DeadlineExpires, CooldownEnds,
              CooldownElapses, BeginScrape, EndScrape
<1>9. CASE UNCHANGED vars
  BY <1>9 DEF vars
<1>10. UNCHANGED shared => SharedOK'
  OBVIOUS
<1> QED
  BY <1>1, <1>2, <1>3, <1>4, <1>5, <1>6, <1>7, <1>8, <1>9, <1>10
  DEF Next, Handler, Finished, Locked

\* The cursor: set by selection, advanced only while a candidate is left.
LEMMA CursorStep ==
  ASSUME IInv, [Next]_vars
  PROVE  Cursor'
<1> USE DEF IInv, TypeOK, ControlOK, Cursor, chain, At, Goto, Admitted
<1>1. ASSUME NEW r \in Requests, Receive(r) PROVE Cursor'
  BY <1>1 DEF Receive, Arrive, RefuseUnauthorized, ReadRequest,
              RefuseUnreadable, RefuseMalformed
<1>2. ASSUME NEW r \in Requests, FinishSelection(r) PROVE Cursor'
  <2>1. /\ clients'[r] # <<>> /\ clients'[r] \in Seq(Providers)
        /\ idx' = idx
    BY <1>2, PathType DEF FinishSelection, ChainOK
  <2> QED BY <1>2, <2>1 DEF FinishSelection, ChainOK
<1>3. ASSUME NEW r \in Requests, Proceed(r), ~FinishSelection(r) PROVE Cursor'
  BY <1>3 DEF Proceed, RefuseUnrouted, Acquire, AbandonQueue, RefuseUnkeyed,
              SendCall, SkipCall, Fail, RetryAfterBackoff, AbandonBackoff,
              ReportFailure, CloseUpstream, Release, Leave, Exit
<1>4. ASSUME NEW r \in Requests, FallBack(r) PROVE Cursor'
  BY <1>4 DEF FallBack, Advances, ChainOK
<1>5. ASSUME NEW r \in Requests, ConsiderProvider(r) PROVE Cursor'
  BY <1>5 DEF ConsiderProvider, ChainOK
<1>9. ASSUME NEW r \in Requests, Accept(r) \/ Account(r) PROVE Cursor'
  BY <1>9 DEF Accept, Account
<1>6. ASSUME NEW r \in Requests, Await(r) \/ Deliver(r) PROVE Cursor'
  BY <1>6 DEF Await, Deliver, Respond, LoseCall, DrainForRetry,
              CopyUpstreamError, RefuseUpstreamError, FinishWrite,
              CompleteStream, CutStream, ReturnResponse, RefuseResponse
<1>7. CASE Environment
  BY <1>7 DEF Environment, ClientDisconnects, DeadlineExpires, CooldownEnds,
              BeginScrape, EndScrape
<1>8. CASE UNCHANGED vars
  BY <1>8 DEF vars
<1> QED
  BY <1>1, <1>2, <1>3, <1>4, <1>5, <1>6, <1>7, <1>8, <1>9
  DEF Next, Handler, Finished, Locked

LEMMA InitIInv == Init => IInv
<1> SUFFICES ASSUME Init PROVE IInv
  OBVIOUS
<1> USE DEF Init
<1>1. ControlOK BY DEF ControlOK, Labels
<1>2. ChainOK BY DEF ChainOK
<1>3. CallsOK BY DEF CallsOK, Failures
<1>4. ReplyOK BY DEF ReplyOK, Answers
<1>5. ClientOK BY DEF ClientOK
<1>6. MetricsOK BY DEF MetricsOK
<1>7. SharedOK
  <2>1. HealthTypeOK BY DEF HealthInit, HealthTypeOK, FailureThreshold
  <2>2. slots \in [Kinds -> Int] OBVIOUS
  <2>3. scraping \in BOOLEAN OBVIOUS
  <2> QED BY <2>1, <2>2, <2>3, Zenon DEF SharedOK
<1>8. Cursor BY DEF Cursor, Admitted
<1> QED
  BY <1>1, <1>2, <1>3, <1>4, <1>5, <1>6, <1>7, <1>8 DEF IInv, TypeOK

\* The inductive invariant holds in every reachable state.
LEMMA InductiveInvariant == Spec => []IInv
<1>1. ASSUME IInv, [Next]_vars PROVE IInv'
  BY <1>1, ControlStep, ChainStep, CallsStep, ReplyStep, ClientStep,
     MetricsStep, SharedStep, CursorStep DEF IInv, TypeOK
<1> QED BY <1>1, InitIInv, PTL DEF Spec

\* Every variable of the request path keeps its type: in particular only
\* configured providers are called, reported or put into cooldown, and a
\* failure count never reaches the threshold without being reset.
THEOREM TypeCorrect == Spec => []TypeOK
<1>1. IInv => TypeOK BY DEF IInv
<1> QED BY <1>1, InductiveInvariant, PTL

-----------------------------------------------------------------------------
\* The tokens.  Of the forty actions only Acquire and Release move one, and only
\* they move a handler into or out of Admitted.  AdmissionShape says so once, for
\* all of them; the accounting and the refinement follow from it.
Holders(k) == Occupants(k, Admitted)

\* What a step that takes no token may do to how far a request has come.
Moves == {<<"outside", "outside">>, <<"outside", "waiting">>,
          <<"outside", "gone">>, <<"waiting", "gone">>,
          <<"serving", "serving">>, <<"gone", "gone">>}

\* A step of one handler that neither takes nor returns a token.
Keeps(r) ==
  /\ UNCHANGED <<call, slots>>
  /\ pc' = [pc EXCEPT ![r] = pc'[r]]
  /\ <<PhaseOf(pc[r]), PhaseOf(pc'[r])>> \in Moves

-----------------------------------------------------------------------------
LEMMA PhaseServing ==
  ASSUME NEW label \in Labels
  PROVE  PhaseOf(label) = "serving" <=> label \in Admitted
BY DEF PhaseOf, Labels, Admitted

LEMMA ReceiveKeeps ==
  ASSUME NEW r \in Requests, IInv, Receive(r)
  PROVE  Keeps(r)
<1>1. UNCHANGED <<call, slots>>
  BY DEF Receive, Arrive, RefuseUnauthorized, ReadRequest, RefuseUnreadable,
         RefuseMalformed, client, shared
<1>2. /\ pc[r] \in {"idle", "body"}
      /\ pc'[r] \in {"body", "select", "leave", "exit"}
      /\ pc' = [pc EXCEPT ![r] = pc'[r]]
  BY DEF IInv, TypeOK, ControlOK, At, Goto, Receive, Arrive,
         RefuseUnauthorized, ReadRequest, RefuseUnreadable, RefuseMalformed
<1>3. <<PhaseOf(pc[r]), PhaseOf(pc'[r])>> \in Moves
  BY <1>2 DEF PhaseOf, Moves, Admitted
<1> QED BY <1>1, <1>2, <1>3 DEF Keeps

LEMMA ProceedKeeps ==
  ASSUME NEW r \in Requests, IInv, Proceed(r), ~Acquire(r), ~Release(r)
  PROVE  Keeps(r)
<1>1. UNCHANGED <<call, slots>>
  BY DEF Proceed, FinishSelection, RefuseUnrouted, AbandonQueue, RefuseUnkeyed,
         SendCall, SkipCall, Fail, RetryAfterBackoff, AbandonBackoff,
         ReportFailure, CloseUpstream, Leave, Exit, client, shared
<1>2. /\ pc' = [pc EXCEPT ![r] = pc'[r]]
      /\ <<pc[r], pc'[r]>> \in
           {<<"select", "queue">>, <<"select", "leave">>, <<"queue", "leave">>,
            <<"attempt", "failed">>, <<"attempt", "inflight">>,
            <<"backoff", "attempt">>, <<"backoff", "failed">>,
            <<"failed", "release">>, <<"unwind", "release">>,
            <<"leave", "exit">>, <<"exit", "done">>}
  BY DEF IInv, TypeOK, ControlOK, At, Goto, Proceed, FinishSelection,
         RefuseUnrouted, AbandonQueue, RefuseUnkeyed, SendCall, SkipCall, Fail,
         RetryAfterBackoff, AbandonBackoff, ReportFailure, CloseUpstream,
         Leave, Exit
<1>3. <<PhaseOf(pc[r]), PhaseOf(pc'[r])>> \in Moves
  BY <1>2 DEF PhaseOf, Moves, Admitted
<1> QED BY <1>1, <1>2, <1>3 DEF Keeps

LEMMA LockedKeeps ==
  ASSUME NEW r \in Requests, IInv, Locked(r)
  PROVE  Keeps(r)
<1>1. UNCHANGED <<call, slots>>
  BY DEF Locked, ConsiderProvider, FallBack, Accept, Account, client, shared
<1>2. /\ pc' = [pc EXCEPT ![r] = pc'[r]]
      /\ <<pc[r], pc'[r]>> \in
           {<<"select", "select">>, <<"judge", "attempt">>,
            <<"judge", "account">>, <<"account", "errorbody">>,
            <<"account", "relay">>, <<"account", "read">>}
  BY DEF IInv, TypeOK, ControlOK, At, Goto, Locked, ConsiderProvider,
         FallBack, Accept, Account
<1>3. <<PhaseOf(pc[r]), PhaseOf(pc'[r])>> \in Moves
  BY <1>2 DEF PhaseOf, Moves, Admitted
<1> QED BY <1>1, <1>2, <1>3 DEF Keeps

LEMMA AwaitKeeps ==
  ASSUME NEW r \in Requests, IInv, Await(r) \/ Deliver(r)
  PROVE  Keeps(r)
<1>1. UNCHANGED <<call, slots>>
  BY DEF Await, Deliver, Respond, LoseCall, DrainForRetry, CopyUpstreamError,
         RefuseUpstreamError, FinishWrite, CompleteStream, CutStream,
         ReturnResponse, RefuseResponse, client, shared
<1>2. /\ pc' = [pc EXCEPT ![r] = pc'[r]]
      /\ pc[r] \in {"inflight", "drain", "errorbody", "relay", "read", "write"}
      /\ pc'[r] \in {"drain", "judge", "failed", "backoff", "write", "unwind"}
  BY DEF IInv, TypeOK, ControlOK, At, Goto, Await, Deliver, Respond, LoseCall,
         DrainForRetry, CopyUpstreamError, RefuseUpstreamError, FinishWrite,
         CompleteStream, CutStream, ReturnResponse, RefuseResponse
<1>3. <<PhaseOf(pc[r]), PhaseOf(pc'[r])>> \in Moves
  BY <1>2 DEF PhaseOf, Moves, Admitted
<1> QED BY <1>1, <1>2, <1>3 DEF Keeps

\* Every step takes a token, returns one, or leaves the tokens alone.
LEMMA AdmissionShape ==
  ASSUME IInv, [Next]_vars
  PROVE  \/ \E r \in Requests : Acquire(r)
         \/ \E r \in Requests : Release(r)
         \/ \E r \in Requests : Keeps(r)
         \/ UNCHANGED <<pc, call, slots>>
<1>1. CASE \E r \in Requests : Handler(r)
  BY <1>1, ReceiveKeeps, ProceedKeeps, LockedKeeps, AwaitKeeps DEF Handler
<1>2. CASE Environment
  BY <1>2 DEF Environment, ClientDisconnects, DeadlineExpires, CooldownEnds,
              BeginScrape, EndScrape, client, shared
<1>3. CASE UNCHANGED vars
  BY <1>3 DEF vars, client, shared
<1> QED BY <1>1, <1>2, <1>3 DEF Next, Finished

-----------------------------------------------------------------------------
LEMMA HoldersFinite ==
  ASSUME NEW k
  PROVE  /\ IsFiniteSet(Holders(k))
         /\ Cardinality(Holders(k)) \in Nat
<1>1. Holders(k) \subseteq Requests
  BY DEF Holders, Occupants
<1> QED BY <1>1, RequestsAssumption, FS_Subset, FS_CardinalityType

LEMMA AcquireHolders ==
  ASSUME IInv, SlotsMatchHolders, NEW r \in Requests, Acquire(r)
  PROVE  SlotsMatchHolders'
<1>1. PICK c \in Kinds : Kind(r) = c
  BY PathType DEF IInv, TypeOK
<1>2. /\ Holders(c)' = Holders(c) \union {r}
      /\ r \notin Holders(c)
      /\ \A k \in Kinds \ {c} : Holders(k)' = Holders(k)
  BY <1>1 DEF Acquire, IInv, TypeOK, ControlOK, At, Goto, Holders, Occupants,
         Kind, Admitted, client
<1>3. Cardinality(Holders(c)') = Cardinality(Holders(c)) + 1
  BY <1>2, HoldersFinite, FS_AddElement
<1>4. /\ slots'[c] = slots[c] + 1
      /\ slots[c] < Limit[c]
      /\ \A k \in Kinds \ {c} : slots'[k] = slots[k]
  BY <1>1 DEF Acquire, Semaphore, HasRoom, IInv, TypeOK, SharedOK
<1>5. ASSUME NEW k \in Kinds
      PROVE  slots'[k] = Cardinality(Holders(k)') /\ slots'[k] <= Limit[k]
  <2>1. /\ slots[k] = Cardinality(Holders(k))
        /\ slots[k] <= Limit[k]
        /\ Cardinality(Holders(k)) \in Nat
        /\ Limit[k] \in Nat
    BY HoldersFinite, LimitAssumption DEF SlotsMatchHolders, Holders
  <2>2. CASE k = c
    BY <2>1, <2>2, <1>3, <1>4
  <2>3. CASE k # c
    BY <2>1, <2>3, <1>2, <1>4
  <2> QED BY <2>2, <2>3
<1> QED BY <1>5 DEF SlotsMatchHolders, Holders

LEMMA ReleaseHolders ==
  ASSUME IInv, SlotsMatchHolders, NEW r \in Requests, Release(r)
  PROVE  SlotsMatchHolders'
<1>1. PICK c \in Kinds : Kind(r) = c
  BY PathType DEF IInv, TypeOK
<1>2. /\ Holders(c)' = Holders(c) \ {r}
      /\ r \in Holders(c)
      /\ \A k \in Kinds \ {c} : Holders(k)' = Holders(k)
  BY <1>1 DEF Release, IInv, TypeOK, ControlOK, At, Goto, Holders, Occupants,
         Kind, Admitted, client
<1>3. Cardinality(Holders(c)') = Cardinality(Holders(c)) - 1
  BY <1>2, HoldersFinite, FS_RemoveElement
<1>4. /\ slots'[c] = slots[c] - 1
      /\ \A k \in Kinds \ {c} : slots'[k] = slots[k]
  BY <1>1 DEF Release, Semaphore, IInv, TypeOK, SharedOK
<1>5. ASSUME NEW k \in Kinds
      PROVE  slots'[k] = Cardinality(Holders(k)') /\ slots'[k] <= Limit[k]
  <2>1. /\ slots[k] = Cardinality(Holders(k))
        /\ slots[k] <= Limit[k]
        /\ Cardinality(Holders(k)) \in Nat
        /\ Limit[k] \in Nat
    BY HoldersFinite, LimitAssumption DEF SlotsMatchHolders, Holders
  <2>2. CASE k = c
    BY <2>1, <2>2, <1>3, <1>4
  <2>3. CASE k # c
    BY <2>1, <2>3, <1>2, <1>4
  <2> QED BY <2>2, <2>3
<1> QED BY <1>5 DEF SlotsMatchHolders, Holders

LEMMA KeepsHolders ==
  ASSUME IInv, IInv', SlotsMatchHolders, NEW r \in Requests, Keeps(r)
  PROVE  SlotsMatchHolders'
<1>1. \A s \in Requests : pc'[s] \in Admitted <=> pc[s] \in Admitted
  <2>1. pc[r] \in Labels /\ pc'[r] \in Labels
    BY DEF IInv, TypeOK, ControlOK
  <2>2. pc'[r] \in Admitted <=> pc[r] \in Admitted
    BY <2>1, PhaseServing DEF Keeps, Moves
  <2> QED BY <2>2 DEF Keeps, IInv, TypeOK, ControlOK
<1>2. \A k \in Kinds : Holders(k)' = Holders(k)
  BY <1>1 DEF Holders, Occupants, Kind, Keeps
<1> QED BY <1>2 DEF SlotsMatchHolders, Holders, Keeps

\* Every semaphore holds exactly one token per handler that has been admitted
\* and has not left, and never more than its capacity: no path through chat,
\* embeddings, their retries, fallbacks and error returns leaks or forges one.
THEOREM SlotAccounting == Spec => []SlotsMatchHolders
<1>1. Init => SlotsMatchHolders
  <2> SUFFICES ASSUME Init, NEW k \in Kinds
               PROVE  /\ slots[k] = Cardinality(Holders(k))
                      /\ slots[k] <= Limit[k]
    BY DEF SlotsMatchHolders, Holders
  <2>1. Holders(k) = {}
    BY DEF Init, Holders, Occupants, Admitted
  <2>2. slots[k] = 0
    BY DEF Init
  <2> QED BY <2>1, <2>2, FS_EmptySet, LimitAssumption
<1>2. ASSUME IInv, IInv', SlotsMatchHolders, [Next]_vars
      PROVE  SlotsMatchHolders'
  <2>1. CASE UNCHANGED <<pc, call, slots>>
    BY <1>2, <2>1 DEF SlotsMatchHolders, Occupants, Kind
  <2> QED
    BY <1>2, <2>1, AdmissionShape, AcquireHolders, ReleaseHolders, KeepsHolders
<1> QED BY <1>1, <1>2, InductiveInvariant, PTL DEF Spec

-----------------------------------------------------------------------------
\* A step of the gateway is, seen through the phases, a step of Bulkheads.
LEMMA BulkStep ==
  ASSUME IInv, IInv', SlotsMatchHolders, [Next]_vars
  PROVE  [Bulk!Next]_(Bulk!vars)
<1> DEFINE phase == [r \in Requests |-> PhaseOf(pc[r])]
           kind  == [r \in Requests |-> Kind(r)]
<1>1. UNCHANGED call => kind' = kind
  BY DEF Kind
<1>2. ASSUME NEW r \in Requests, pc' = [pc EXCEPT ![r] = pc'[r]]
      PROVE  phase' = [phase EXCEPT ![r] = PhaseOf(pc'[r])]
  BY <1>2 DEF IInv, TypeOK, ControlOK
<1>3. ASSUME NEW r \in Requests, Acquire(r)
      PROVE  Bulk!Admit(r)
  <2>1. /\ UNCHANGED call
        /\ pc' = [pc EXCEPT ![r] = "attempt"]
        /\ pc[r] = "queue"
        /\ slots[Kind(r)] < Limit[Kind(r)]
    BY <1>3 DEF Acquire, At, Goto, HasRoom, Semaphore, client
  <2>2. phase[r] = "waiting" /\ phase' = [phase EXCEPT ![r] = "serving"]
    <3>1. PhaseOf("queue") = "waiting" /\ PhaseOf("attempt") = "serving"
      BY DEF PhaseOf, Admitted
    <3>2. pc'[r] = "attempt" /\ pc' = [pc EXCEPT ![r] = pc'[r]]
      BY <2>1 DEF IInv, TypeOK, ControlOK
    <3> QED BY <2>1, <3>1, <3>2, <1>2
  <2>3. Bulk!Serving(Kind(r)) = Holders(Kind(r))
    <3>1. \A s \in Requests : PhaseOf(pc[s]) = "serving" <=> pc[s] \in Admitted
      BY PhaseServing DEF IInv, TypeOK, ControlOK
    <3>2. \A s \in Requests : phase[s] = PhaseOf(pc[s]) /\ kind[s] = Kind(s)
      OBVIOUS
    <3>3. Bulk!Serving(Kind(r)) =
            {s \in Requests : kind[s] = Kind(r) /\ phase[s] = "serving"}
      BY DEF Bulk!Serving
    <3> HIDE DEF phase, kind
    <3> QED BY <3>1, <3>2, <3>3 DEF Holders, Occupants
  <2>4. Kind(r) \in Kinds
    BY PathType DEF IInv, TypeOK
  <2>5. Cardinality(Bulk!Serving(kind[r])) < Limit[kind[r]]
    BY <2>1, <2>3, <2>4 DEF SlotsMatchHolders, Holders
  <2>6. Bulk!Cardinality(Bulk!Serving(kind[r])) < Limit[kind[r]]
    BY <2>5 DEF Bulk!Cardinality, Cardinality
  <2>7. Bulk!Move(r, "waiting", "serving")
    BY <2>1, <2>2, <1>1 DEF Bulk!Move
  <2> QED BY <2>6, <2>7 DEF Bulk!Admit
<1>4. ASSUME NEW r \in Requests, Release(r)
      PROVE  Bulk!Finish(r)
  <2>1. /\ UNCHANGED call
        /\ pc' = [pc EXCEPT ![r] = "leave"]
        /\ pc[r] = "release"
    BY <1>4 DEF Release, At, Goto, client
  <2>2. PhaseOf("release") = "serving" /\ PhaseOf("leave") = "gone"
    BY DEF PhaseOf, Admitted
  <2>3. pc'[r] = "leave" /\ pc' = [pc EXCEPT ![r] = pc'[r]]
    BY <2>1 DEF IInv, TypeOK, ControlOK
  <2>4. phase[r] = "serving" /\ phase' = [phase EXCEPT ![r] = "gone"]
    BY <2>1, <2>2, <2>3, <1>2
  <2>5. kind' = kind
    BY <2>1, <1>1
  <2> QED BY <2>4, <2>5 DEF Bulk!Finish, Bulk!Move
<1>5. ASSUME NEW r \in Requests, Keeps(r)
      PROVE  \/ Bulk!Join(r) \/ Bulk!Refuse(r) \/ Bulk!Withdraw(r)
             \/ UNCHANGED Bulk!vars
  <2>1. kind' = kind /\ phase' = [phase EXCEPT ![r] = PhaseOf(pc'[r])]
    BY <1>1, <1>2, <1>5 DEF Keeps
  <2>2. phase[r] = PhaseOf(pc[r])
    OBVIOUS
  <2>3. CASE PhaseOf(pc'[r]) = PhaseOf(pc[r])
    BY <2>1, <2>2, <2>3 DEF Bulk!vars
  <2>4. CASE PhaseOf(pc'[r]) # PhaseOf(pc[r])
    <3>1. \/ PhaseOf(pc[r]) = "outside" /\ PhaseOf(pc'[r]) = "waiting"
          \/ PhaseOf(pc[r]) = "outside" /\ PhaseOf(pc'[r]) = "gone"
          \/ PhaseOf(pc[r]) = "waiting" /\ PhaseOf(pc'[r]) = "gone"
      BY <1>5, <2>4 DEF Keeps, Moves
    <3>2. CASE PhaseOf(pc[r]) = "outside" /\ PhaseOf(pc'[r]) = "waiting"
      BY <2>1, <2>2, <3>2 DEF Bulk!Join, Bulk!Move
    <3>3. CASE PhaseOf(pc[r]) = "outside" /\ PhaseOf(pc'[r]) = "gone"
      BY <2>1, <2>2, <3>3 DEF Bulk!Refuse, Bulk!Move
    <3>4. CASE PhaseOf(pc[r]) = "waiting" /\ PhaseOf(pc'[r]) = "gone"
      BY <2>1, <2>2, <3>4 DEF Bulk!Withdraw, Bulk!Move
    <3> QED BY <3>1, <3>2, <3>3, <3>4
  <2> QED BY <2>3, <2>4
<1>6. CASE UNCHANGED <<pc, call, slots>>
  BY <1>6, <1>1 DEF Bulk!vars
<1> QED BY <1>3, <1>4, <1>5, <1>6, AdmissionShape DEF Bulk!Next

\* The gateway implements the abstract bulkheads: each class of requests is
\* served within its own capacity, and a request is served only after waiting
\* and never again after it is gone.
THEOREM GatewayImplementsBulkheads == Spec => ImplementsBulkheads
<1>1. Init => Bulk!Init
  <2> SUFFICES ASSUME Init PROVE Bulk!Init
    OBVIOUS
  <2>1. PhaseOf("idle") = "outside"
    BY DEF PhaseOf, Admitted
  <2> QED BY <2>1 DEF Init, Bulk!Init, Kind
<1>2. ASSUME IInv, IInv', SlotsMatchHolders, [Next]_vars
      PROVE  [Bulk!Next]_(Bulk!vars)
  BY <1>2, BulkStep
<1> QED
  BY <1>1, <1>2, InductiveInvariant, SlotAccounting, PTL
  DEF Spec, ImplementsBulkheads, Bulk!Spec
=============================================================================
