-------------------------- MODULE AccountingProofs --------------------------
(***************************************************************************)
(* The books of the gateway: the active* gauges count the handlers at      *)
(* work, the usage events name the service that was given, and the         *)
(* counters are the numbers of requests they are named for.                *)
(*                                                                         *)
(* A gauge or a counter is right as long as every step of a handler        *)
(* changes it by what the step changes of the set it stands for.  SetMoves *)
(* says how a step of one handler changes the size of a set of requests,   *)
(* and the lemmas on the actions that the books change by just as much.    *)
(***************************************************************************)
EXTENDS RequestProofs

Inside    == Labels \ {"idle", "done"}
Handling  == Inside \ {"exit"}
Streaming == {"errorbody", "relay", "write", "unwind"}

\* The requests of some kinds whose handlers are at some labels.
Working(kinds, labels) == {r \in Requests : Kind(r) \in kinds /\ pc[r] \in labels}

Chats  == {"chat", "stream"}
Embeds == {"embed"}

\* What the gauges stand for, and what the stream gauge relies on: buffered
\* responses are not those of streams.
GaugeInv ==
  /\ gauge["active"] = Cardinality(Working(Kinds, Inside))
  /\ gauge["activeChat"] = Cardinality(Working(Chats, Handling))
  /\ gauge["activeEmbeddings"] = Cardinality(Working(Embeds, Handling))
  /\ gauge["activeStreams"] = Cardinality(Working({"stream"}, Streaming))
  /\ \A r \in Requests : At(r, "read") => Kind(r) # "stream"

\* The change to a set of handlers when r goes from one label to another.
Delta(r, kinds, labels) ==
  IF Kind(r) \notin kinds THEN 0
  ELSE (IF pc'[r] \in labels THEN 1 ELSE 0) - (IF pc[r] \in labels THEN 1 ELSE 0)

-----------------------------------------------------------------------------
\* Whether r is in a set, as a number.
Bit(S, r) == IF r \in S THEN 1 ELSE 0

\* How much a set grows when only r's membership may change.
LEMMA SetMoves ==
  ASSUME NEW r \in Requests, NEW S, NEW T, S \subseteq Requests, T \subseteq Requests,
         \A q \in Requests : q # r => (q \in T <=> q \in S)
  PROVE  /\ Cardinality(S) \in Nat /\ Cardinality(T) \in Nat
         /\ Cardinality(T) + Bit(S, r) = Cardinality(S) + Bit(T, r)
<1>1. /\ IsFiniteSet(S) /\ Cardinality(S) \in Nat
      /\ IsFiniteSet(T) /\ Cardinality(T) \in Nat
  BY RequestsAssumption, FS_Subset, FS_CardinalityType
<1>2. CASE r \in S <=> r \in T
  <2>1. S = T
    BY <1>2
  <2> QED BY <1>1, <2>1 DEF Bit
<1>3. CASE r \in S /\ r \notin T
  <2>1. T = S \ {r}
    BY <1>3
  <2> QED BY <1>1, <1>3, <2>1, FS_RemoveElement DEF Bit
<1>4. CASE r \notin S /\ r \in T
  <2>1. T = S \union {r}
    BY <1>4
  <2> QED BY <1>1, <1>4, <2>1, FS_AddElement DEF Bit
<1> QED BY <1>2, <1>3, <1>4

LEMMA WorkingFinite ==
  ASSUME NEW kinds, NEW labels
  PROVE  /\ IsFiniteSet(Working(kinds, labels))
         /\ Cardinality(Working(kinds, labels)) \in Nat
<1>1. Working(kinds, labels) \subseteq Requests
  BY DEF Working
<1> QED BY <1>1, RequestsAssumption, FS_Subset, FS_CardinalityType

LEMMA OneMoves ==
  ASSUME ControlOK, NEW r \in Requests, pc' = [pc EXCEPT ![r] = pc'[r]],
         call' = call, NEW kinds, NEW labels
  PROVE  Cardinality(Working(kinds, labels)') =
           Cardinality(Working(kinds, labels)) + Delta(r, kinds, labels)
<1> DEFINE S == Working(kinds, labels)
           T == Working(kinds, labels)'
<1>1. /\ \A q \in Requests : q # r => (q \in T <=> q \in S)
      /\ r \in S <=> Kind(r) \in kinds /\ pc[r] \in labels
      /\ r \in T <=> Kind(r) \in kinds /\ pc'[r] \in labels
      /\ S \subseteq Requests /\ T \subseteq Requests
  BY DEF Working, Kind, ControlOK
<1> HIDE DEF S, T
<1>2. /\ Cardinality(S) \in Nat /\ Cardinality(T) \in Nat
      /\ Cardinality(T) + Bit(S, r) = Cardinality(S) + Bit(T, r)
  BY <1>1, SetMoves
<1>3. Bit(T, r) - Bit(S, r) = Delta(r, kinds, labels)
  BY <1>1 DEF Bit, Delta
<1>4. Bit(S, r) \in Int /\ Bit(T, r) \in Int
  BY DEF Bit
<1>5. Cardinality(T) = Cardinality(S) + Delta(r, kinds, labels)
  BY <1>2, <1>3, <1>4
<1> QED BY <1>5 DEF S, T

\* A step of r that changes the gauges as it changes what they stand for.
Balances(r) ==
  /\ call' = call
  /\ pc' = [pc EXCEPT ![r] = pc'[r]]
  /\ gauge'["active"] = gauge["active"] + Delta(r, Kinds, Inside)
  /\ gauge'["activeChat"] = gauge["activeChat"] + Delta(r, Chats, Handling)
  /\ gauge'["activeEmbeddings"] =
       gauge["activeEmbeddings"] + Delta(r, Embeds, Handling)
  /\ gauge'["activeStreams"] =
       gauge["activeStreams"] + Delta(r, {"stream"}, Streaming)
  /\ pc'[r] = "read" => pc[r] = "read" \/ Kind(r) # "stream"

\* A step within the same sets that leaves the gauges alone.
LEMMA QuietBalances ==
  ASSUME IInv, NEW r \in Requests, UNCHANGED <<call, gauge>>,
         pc' = [pc EXCEPT ![r] = pc'[r]],
         pc[r] \in Handling, pc'[r] \in Handling, pc'[r] # "read",
         Kind(r) = "stream" => (pc[r] \in Streaming <=> pc'[r] \in Streaming)
  PROVE  Balances(r)
<1>1. gauge \in [Gauges -> Int]
  BY DEF IInv, TypeOK, MetricsOK
<1> QED BY <1>1 DEF Balances, Delta, Handling, Gauges

LEMMA ReceiveBalances ==
  ASSUME IInv, NEW r \in Requests, Receive(r)
  PROVE  Balances(r)
<1>1. gauge \in [Gauges -> Int] /\ pc \in [Requests -> Labels]
      /\ Kind(r) \in Kinds
  BY PathType DEF IInv, TypeOK, MetricsOK, ControlOK
<1>2. call' = call
  BY DEF Receive, Arrive, RefuseUnauthorized, ReadRequest, RefuseUnreadable,
         RefuseMalformed, client
<1>3. CASE Arrive(r)
  <2>1. /\ pc' = [pc EXCEPT ![r] = "body"] /\ pc[r] = "idle"
        /\ pc' = [pc EXCEPT ![r] = pc'[r]] /\ pc'[r] = "body"
    BY <1>1, <1>3 DEF Arrive, At, Goto
  <2>2. /\ gauge'["active"] = gauge["active"] + 1
        /\ gauge'["activeStreams"] = gauge["activeStreams"]
        /\ gauge'["activeChat"] = IF Kind(r) \in Chats
             THEN gauge["activeChat"] + 1 ELSE gauge["activeChat"]
        /\ gauge'["activeEmbeddings"] = IF Kind(r) \in Embeds
             THEN gauge["activeEmbeddings"] + 1 ELSE gauge["activeEmbeddings"]
        /\ \A g \in Gauges : gauge[g] \in Int
    BY <1>1, <1>3, KindsAssumption DEF Arrive, HandlerGauge, Gauges, Chats, Embeds
  <2> QED BY <1>1, <1>2, <2>1, <2>2
          DEF Balances, Delta, Inside, Handling, Streaming, Labels, Gauges
<1>4. CASE RefuseUnauthorized(r)
  BY <1>1, <1>2, <1>4, KindsAssumption
  DEF RefuseUnauthorized, At, Goto, Balances, Delta, Inside, Handling,
      Streaming, Labels, Gauges
<1>5. CASE ReadRequest(r) \/ RefuseUnreadable(r) \/ RefuseMalformed(r)
  <2>1. /\ gauge' = gauge /\ pc' = [pc EXCEPT ![r] = pc'[r]]
        /\ pc[r] = "body" /\ pc'[r] \in {"select", "leave"}
    BY <1>1, <1>5 DEF ReadRequest, RefuseUnreadable, RefuseMalformed, metrics,
       At, Goto
  <2> QED BY <1>2, <2>1, QuietBalances
          DEF Handling, Inside, Streaming, Labels
<1> QED BY <1>3, <1>4, <1>5 DEF Receive

LEMMA ProceedBalances ==
  ASSUME IInv, NEW r \in Requests, Proceed(r)
  PROVE  Balances(r)
<1>1. gauge \in [Gauges -> Int] /\ pc \in [Requests -> Labels]
      /\ Kind(r) \in Kinds
  BY PathType DEF IInv, TypeOK, MetricsOK, ControlOK
<1>2. call' = call
  BY DEF Proceed, FinishSelection, RefuseUnrouted, Acquire, AbandonQueue,
     RefuseUnkeyed, SendCall, SkipCall, Fail, RetryAfterBackoff, AbandonBackoff,
     ReportFailure, CloseUpstream, Release, Leave, Exit, client
<1>3. CASE CloseUpstream(r)
  BY <1>1, <1>2, <1>3, KindsAssumption
  DEF CloseUpstream, At, Goto, Balances, Delta, Inside, Handling, Streaming,
      Labels, Gauges, Chats, Embeds
<1>4. CASE Leave(r)
  <2>1. /\ pc' = [pc EXCEPT ![r] = pc'[r]] /\ pc'[r] = "exit" /\ pc[r] = "leave"
    BY <1>1, <1>4 DEF Leave, At, Goto
  <2>2. /\ gauge'["active"] = gauge["active"]
        /\ gauge'["activeStreams"] = gauge["activeStreams"]
        /\ gauge'["activeChat"] = IF Kind(r) \in Chats
             THEN gauge["activeChat"] - 1 ELSE gauge["activeChat"]
        /\ gauge'["activeEmbeddings"] = IF Kind(r) \in Embeds
             THEN gauge["activeEmbeddings"] - 1 ELSE gauge["activeEmbeddings"]
        /\ \A g \in Gauges : gauge[g] \in Int
    BY <1>1, <1>4, KindsAssumption DEF Leave, HandlerGauge, Gauges, Chats, Embeds
  <2> QED BY <1>1, <1>2, <2>1, <2>2
          DEF Balances, Delta, Inside, Handling, Streaming, Labels, Gauges
<1>5. CASE Exit(r)
  BY <1>1, <1>2, <1>5, KindsAssumption
  DEF Exit, At, Goto, Balances, Delta, Inside, Handling, Streaming, Labels,
      Gauges
<1>6. CASE ~CloseUpstream(r) /\ ~Leave(r) /\ ~Exit(r)
  <2>1. gauge' = gauge
    BY <1>6 DEF Proceed, FinishSelection, RefuseUnrouted, Acquire, AbandonQueue,
       RefuseUnkeyed, SendCall, SkipCall, Fail, RetryAfterBackoff,
       AbandonBackoff, ReportFailure, Release, metrics
  <2>2. /\ pc' = [pc EXCEPT ![r] = pc'[r]]
        /\ pc[r] \in {"select", "queue", "attempt", "backoff", "failed",
                      "release"}
        /\ pc'[r] \in {"queue", "leave", "attempt", "failed", "inflight",
                       "release"}
    BY <1>1, <1>6 DEF Proceed, FinishSelection, RefuseUnrouted, Acquire,
       AbandonQueue, RefuseUnkeyed, SendCall, SkipCall, Fail,
       RetryAfterBackoff, AbandonBackoff, ReportFailure, Release, At, Goto
  <2> QED BY <1>2, <2>1, <2>2, QuietBalances
          DEF Handling, Inside, Streaming, Labels
<1> QED BY <1>3, <1>4, <1>5, <1>6

LEMMA LockedBalances ==
  ASSUME IInv, NEW r \in Requests, Locked(r)
  PROVE  Balances(r)
<1>1. gauge \in [Gauges -> Int] /\ pc \in [Requests -> Labels]
      /\ Kind(r) \in Kinds
  BY PathType DEF IInv, TypeOK, MetricsOK, ControlOK
<1>2. call' = call
  BY DEF Locked, ConsiderProvider, FallBack, Accept, Account, client
<1>3. CASE Account(r)
  BY <1>1, <1>2, <1>3, KindsAssumption
  DEF Account, At, Goto, Balances, Delta, Inside, Handling, Streaming, Labels,
      Gauges, Chats, Embeds
<1>4. CASE ~Account(r)
  <2>1. gauge' = gauge
    BY <1>4 DEF Locked, ConsiderProvider, FallBack, Accept, metrics
  <2>2. /\ pc' = [pc EXCEPT ![r] = pc'[r]]
        /\ pc[r] \in {"select", "judge"}
        /\ pc'[r] \in {"select", "attempt", "account"}
    BY <1>1, <1>4 DEF Locked, ConsiderProvider, FallBack, Accept, At, Goto
  <2> QED BY <1>2, <2>1, <2>2, QuietBalances
          DEF Handling, Inside, Streaming, Labels
<1> QED BY <1>3, <1>4

LEMMA AwaitBalances ==
  ASSUME IInv, NEW r \in Requests, Await(r) \/ Deliver(r),
         At(r, "read") => Kind(r) # "stream"
  PROVE  Balances(r)
<1>1. pc \in [Requests -> Labels]
  BY DEF IInv, TypeOK, ControlOK
<1>2. call' = call /\ gauge' = gauge
  BY DEF Await, Deliver, Respond, LoseCall, DrainForRetry, CopyUpstreamError,
     RefuseUpstreamError, FinishWrite, CompleteStream, CutStream,
     ReturnResponse, RefuseResponse, client, metrics
<1>3. /\ pc' = [pc EXCEPT ![r] = pc'[r]]
      /\ \/ /\ pc[r] \in {"inflight", "drain"}
            /\ pc'[r] \in {"drain", "judge", "failed", "backoff"}
         \/ /\ pc[r] \in {"errorbody", "relay", "write"}
            /\ pc'[r] \in {"write", "unwind"}
         \/ pc[r] = "read" /\ pc'[r] \in {"write", "unwind"}
  BY <1>1 DEF Await, Deliver, Respond, LoseCall, DrainForRetry,
     CopyUpstreamError, RefuseUpstreamError, FinishWrite, CompleteStream,
     CutStream, ReturnResponse, RefuseResponse, At, Goto
<1> QED BY <1>2, <1>3, QuietBalances DEF Handling, Inside, Streaming, Labels, At

LEMMA GaugeStep ==
  ASSUME IInv, GaugeInv, [Next]_vars
  PROVE  GaugeInv'
<1>1. ASSUME NEW r \in Requests, Handler(r) PROVE GaugeInv'
  <2>1. Balances(r)
    BY <1>1, ReceiveBalances, ProceedBalances, LockedBalances, AwaitBalances
    DEF Handler, GaugeInv
  <2>2. \A kinds, labels :
          Cardinality(Working(kinds, labels)') =
            Cardinality(Working(kinds, labels)) + Delta(r, kinds, labels)
    BY <1>1, <2>1, OneMoves DEF Balances, IInv, TypeOK
  <2>3. \A q \in Requests : (At(q, "read") => Kind(q) # "stream")'
    BY <1>1, <2>1 DEF Balances, GaugeInv, At, Kind, IInv, TypeOK, ControlOK
  <2> QED BY <2>1, <2>2, <2>3 DEF Balances, GaugeInv
<1>2. UNCHANGED <<pc, call, gauge>> => GaugeInv'
  BY DEF GaugeInv, Working, Kind, At
<1>3. Environment \/ UNCHANGED vars => UNCHANGED <<pc, call, gauge>>
  BY DEF Environment, ClientDisconnects, DeadlineExpires, CooldownEnds,
     BeginScrape, EndScrape, vars, client, metrics
<1> QED BY <1>1, <1>2, <1>3 DEF Next, Finished

LEMMA GaugeInit == Init => GaugeInv
<1> SUFFICES ASSUME Init PROVE GaugeInv
  OBVIOUS
<1>1. /\ Working(Kinds, Inside) = {} /\ Working(Chats, Handling) = {}
      /\ Working(Embeds, Handling) = {} /\ Working({"stream"}, Streaming) = {}
  BY DEF Init, Working, Inside, Handling, Streaming
<1> QED BY <1>1, FS_EmptySet DEF Init, GaugeInv, Gauges, At

-----------------------------------------------------------------------------
\* From the sets of GaugeInv to those of the property.
LEMMA GaugesRead ==
  ASSUME IInv, GaugeInv, SlotsMatchHolders
  PROVE  GaugesMatchWork
<1>1. \A r \in Requests : Kind(r) \in Kinds
  BY PathType DEF IInv, TypeOK
<1>2. Working(Kinds, Inside) = {r \in Requests : pc[r] \in Inside}
  BY <1>1 DEF Working
<1>3. \A k, labels : /\ Working({k}, labels) = Occupants(k, labels)
                     /\ IsFiniteSet(Occupants(k, labels))
                     /\ Cardinality(Occupants(k, labels)) =
                          IF k \in Kinds THEN Cardinality(Occupants(k, labels))
                                         ELSE 0
  <2> SUFFICES ASSUME NEW k, NEW labels
               PROVE  /\ Working({k}, labels) = Occupants(k, labels)
                      /\ IsFiniteSet(Occupants(k, labels))
                      /\ k \notin Kinds => Cardinality(Occupants(k, labels)) = 0
    OBVIOUS
  <2>1. Working({k}, labels) = Occupants(k, labels)
    BY DEF Working, Occupants
  <2>2. k \notin Kinds => Occupants(k, labels) = {}
    BY <1>1 DEF Occupants
  <2> QED BY <2>1, <2>2, WorkingFinite, FS_EmptySet
<1>4. Cardinality(Working(Chats, Handling)) =
        Cardinality(Occupants("chat", Handling))
        + Cardinality(Occupants("stream", Handling))
  <2> DEFINE A == Occupants("chat", Handling)
             B == Occupants("stream", Handling)
  <2>1. IsFiniteSet(A) /\ IsFiniteSet(B)
    BY <1>3
  <2>2. Working(Chats, Handling) = A \union B /\ A \intersect B = {}
    BY DEF Working, Occupants, Chats
  <2> HIDE DEF A, B
  <2>3. Cardinality(A \union B) = Cardinality(A) + Cardinality(B)
    <3>1. Cardinality(A \intersect B) = 0
      BY <2>2, FS_EmptySet
    <3>2. Cardinality(A) \in Nat /\ Cardinality(B) \in Nat
      BY <2>1, FS_CardinalityType
    <3>3. Cardinality(A \union B) =
            Cardinality(A) + Cardinality(B) - Cardinality(A \intersect B)
      BY <2>1, FS_Union
    <3> QED BY ONLY <3>1, <3>2, <3>3
  <2> QED BY <2>2, <2>3 DEF A, B
<1>5. "stream" \in Kinds => gauge["activeStreams"] <= slots["stream"]
  <2>1. Occupants("stream", Streaming) \subseteq Occupants("stream", Admitted)
    BY DEF Occupants, Streaming, Admitted
  <2>2. Cardinality(Occupants("stream", Streaming))
          <= Cardinality(Occupants("stream", Admitted))
    BY <1>3, <2>1, FS_Subset
  <2> QED BY <1>3, <2>2 DEF GaugeInv, SlotsMatchHolders
<1> DEFINE in(k, labels) == IF k \in Kinds THEN Cardinality(Occupants(k, labels))
                                           ELSE 0
<1>6. /\ gauge["active"] = Cardinality({r \in Requests : pc[r] \in Inside})
      /\ gauge["activeChat"] = in("chat", Handling) + in("stream", Handling)
      /\ gauge["activeEmbeddings"] = in("embed", Handling)
      /\ gauge["activeStreams"] = in("stream", Streaming)
  <2>1. \A k, labels : in(k, labels) = Cardinality(Occupants(k, labels))
    BY <1>3, Zenon
  <2>2. /\ Working(Embeds, Handling) = Occupants("embed", Handling)
        /\ Working({"stream"}, Streaming) = Occupants("stream", Streaming)
    BY <1>3, Zenon DEF Embeds
  <2> HIDE DEF in
  <2> QED BY <1>2, <1>4, <2>1, <2>2, Zenon DEF GaugeInv
<1> QED
  BY <1>5, <1>6, Zenon DEF GaugesMatchWork, Inside, Handling, Streaming

\* However requests end, every gauge equals the number of handlers at work
\* for it, and the stream gauge never exceeds the tokens taken for streams.
THEOREM GaugesAreRight == Spec => []GaugesMatchWork
BY GaugeInit, GaugeStep, GaugesRead, InductiveInvariant, SlotAccounting, PTL
DEF Spec

-----------------------------------------------------------------------------
\* Service.  What the last call came to decides how the handler goes on, an
\* error remembers that no provider served, and the usage event is reported
\* with the answer.
Serving  == {"account", "errorbody", "relay", "read", "write"}
Finals   == Past \union {"unwind"}
Reported == {"ok", "streamed"}

Answered(r) ==
  /\ pc[r] \in {"judge", "account", "write"} => LastCall(r).out \in Statuses
  /\ pc[r] = "errorbody" => LastCall(r).out \in {"reject", "retry"}
  /\ pc[r] \in {"relay", "read"} => LastCall(r).out = "ok"
  /\ pc[r] \in Serving => Len(sent[r]) = Preceding(r) + 1
  /\ pc[r] = "relay" => Kind(r) = "stream" /\ answer[r] = "streaming"
  /\ pc[r] = "read" => Kind(r) # "stream"
  /\ pc[r] = "write" /\ Kind(r) = "stream" => LastCall(r).out # "ok"
  /\ pc[r] \in {"errorbody", "read", "write"} => answer[r] = "none"

Failed(r) ==
  /\ failure[r] # "none" => pc[r] \in {"failed"} \union Past
  /\ pc[r] = "failed" => failure[r] # "none"
  /\ failure[r] = "context" => CtxDone(r)

Billed(r) ==
  /\ answer[r] \in Reported => pc[r] \in Finals
  /\ Served(r) =>
       /\ sent[r] # <<>> /\ LastCall(r).out = "ok"
       /\ Len(sent[r]) = Preceding(r) + 1
       /\ usage[r] = <<Report(r)>>
  /\ ~Served(r) => usage[r] = <<>>

ServiceOK(r) == Answered(r) /\ Failed(r) /\ Billed(r)

ServiceInv == \A r \in Requests : ServiceOK(r)

\* A step that ServiceOK(q) does not notice.
Unnoticed(q) ==
  /\ Same(q) /\ failure'[q] = failure[q] /\ usage'[q] = usage[q]
  /\ CtxDone(q) => CtxDone(q)'

LEMMA UnnoticedKeeps ==
  ASSUME NEW q \in Requests, Unnoticed(q), ServiceOK(q)
  PROVE  ServiceOK(q)'
BY DEF Unnoticed, Same, ServiceOK, Answered, Failed, Billed, Served, At,
       Preceding, LastCall, Kind, Report, Candidate

LEMMA OthersUnnoticed ==
  ASSUME IInv, NEW r \in Requests, Handler(r), NEW q \in Requests, q # r
  PROVE  Unnoticed(q)
<1> USE DEF IInv, TypeOK, CallsOK, ReplyOK, calls, reply, Reply, Fail
<1>1. Same(q) /\ (CtxDone(q) => CtxDone(q)')
  BY OthersSame, ClientsKept DEF client, CtxDone
<1>2. CASE Receive(r)
  BY <1>1, <1>2 DEF Unnoticed, Receive, Arrive, RefuseUnauthorized, ReadRequest,
     RefuseUnreadable, RefuseMalformed
<1>3. CASE Proceed(r)
  BY <1>1, <1>3 DEF Unnoticed, Proceed, FinishSelection, RefuseUnrouted, Acquire,
     AbandonQueue, RefuseUnkeyed, SendCall, SkipCall, RetryAfterBackoff,
     AbandonBackoff, ReportFailure, CloseUpstream, Release, Leave, Exit
<1>4. CASE Locked(r)
  BY <1>1, <1>4 DEF Unnoticed, Locked, ConsiderProvider, FallBack, Accept, Account
<1>5. CASE Await(r) \/ Deliver(r)
  BY <1>1, <1>5 DEF Unnoticed, Await, Deliver, Respond, LoseCall, DrainForRetry,
     CopyUpstreamError, RefuseUpstreamError, FinishWrite, CompleteStream,
     CutStream, ReturnResponse, RefuseResponse
<1> QED BY <1>2, <1>3, <1>4, <1>5 DEF Handler

\* Up to the answer that ends the candidate loop.
LEMMA SeekingService ==
  ASSUME RequestInv, NEW r \in Requests, ServiceOK(r),
         \/ Receive(r) \/ ConsiderProvider(r) \/ FinishSelection(r)
         \/ RefuseUnrouted(r) \/ AbandonQueue(r) \/ Acquire(r) \/ SendCall(r)
         \/ DrainForRetry(r) \/ RetryAfterBackoff(r) \/ FallBack(r)
  PROVE  ServiceOK(r)'
<1> USE DEF RequestInv, RequestOK, IInv, TypeOK, ControlOK, CallsOK, ReplyOK
<1>1. /\ failure' = failure /\ usage' = usage
      /\ pc[r] \in {"idle", "body", "select", "queue", "attempt", "drain",
                    "backoff", "judge"}
      /\ pc'[r] \in {"body", "select", "queue", "attempt", "inflight", "backoff",
                     "leave", "exit"}
  BY DEF Receive, Arrive, RefuseUnauthorized, ReadRequest, RefuseUnreadable,
     RefuseMalformed, ConsiderProvider, FinishSelection, RefuseUnrouted,
     AbandonQueue, Acquire, SendCall, DrainForRetry, RetryAfterBackoff, FallBack,
     calls, reply, Reply, At, Goto
<1>2. answer'[r] \notin Reported
  BY <1>1 DEF SendsNothing, Reported, Receive, Arrive, RefuseUnauthorized,
     ReadRequest, RefuseUnreadable, RefuseMalformed, ConsiderProvider,
     FinishSelection, RefuseUnrouted, AbandonQueue, Acquire, SendCall,
     DrainForRetry, RetryAfterBackoff, FallBack, reply, Reply
<1>3. failure[r] = "none" /\ usage[r] = <<>>
  BY <1>1 DEF ServiceOK, Failed, Billed, Served, At, SendsNothing, Past
<1> QED BY <1>1, <1>2, <1>3 DEF ServiceOK, Answered, Failed, Billed, Served, At,
           Serving, Reported

\* An error out of the loop.
LEMMA FailingService ==
  ASSUME RequestInv, NEW r \in Requests, ServiceOK(r),
         \/ RefuseUnkeyed(r) \/ SkipCall(r) \/ AbandonBackoff(r) \/ LoseCall(r)
  PROVE  ServiceOK(r)'
<1> USE DEF RequestInv, RequestOK, IInv, TypeOK, ControlOK, CallsOK, ReplyOK
<1>1. /\ usage' = usage /\ answer' = answer
      /\ pc[r] \in {"attempt", "inflight", "backoff"} /\ pc'[r] = "failed"
      /\ failure'[r] \in {"unkeyed", "transport", "timeout", "context"}
      /\ failure'[r] = "context" => CtxDone(r)
  BY DEF RefuseUnkeyed, SkipCall, AbandonBackoff, LoseCall, Fail, reply, At, Goto
<1>2. CtxDone(r)' = CtxDone(r)
  BY ClientsKept DEF Handler, Proceed, Await, client, CtxDone
<1>3. answer[r] = "none" /\ usage[r] = <<>>
  BY <1>1 DEF ServiceOK, Billed, Served, At, SendsNothing
<1> QED BY <1>1, <1>2, <1>3
        DEF ServiceOK, Answered, Failed, Billed, Served, At, Serving, Reported

\* The answer that ends it, and what the handler makes of it.
LEMMA ReceivingService ==
  ASSUME RequestInv, NEW r \in Requests, ServiceOK(r),
         \/ \E status \in Statuses : Respond(r, status)
         \/ Accept(r) \/ Account(r)
  PROVE  ServiceOK(r)'
<1> USE DEF RequestInv, RequestOK, IInv, TypeOK, ControlOK, CallsOK, ReplyOK
<1>1. /\ usage' = usage /\ failure' = failure /\ UNCHANGED chain
      /\ pc[r] \in {"inflight", "judge", "account"}
      /\ answer[r] = "none" /\ usage[r] = <<>> /\ failure[r] = "none"
  <2>1. /\ usage' = usage /\ failure' = failure /\ UNCHANGED chain
        /\ pc[r] \in {"inflight", "judge", "account"}
    BY DEF Respond, Accept, Account, calls, reply, At
  <2> QED BY <2>1 DEF ServiceOK, Failed, Billed, Served, At, SendsNothing, Past
<1>2. UNCHANGED client
  BY ClientsKept DEF Handler, Locked, Await
<1>3. Kind(r)' = Kind(r) /\ Preceding(r)' = Preceding(r)
  BY <1>1, <1>2 DEF chain, client, Kind, Preceding
<1>4. ASSUME NEW status \in Statuses, Respond(r, status) PROVE ServiceOK(r)'
  <2>1. /\ pc[r] = "inflight" /\ status \in Outcomes
        /\ sent' = [sent EXCEPT ![r][Len(sent[r])] = Call(r, status)]
        /\ pc'[r] \in {"drain", "judge"} /\ answer' = answer
    BY <1>4 DEF Respond, At, Goto, reply, Outcomes
  <2>2. LastCall(r)'.out = status
    BY ONLY <1>1, <1>2, <2>1, Settling, RequestInv, r \in Requests
  <2> QED BY <1>1, <2>1, <2>2
          DEF ServiceOK, Answered, Failed, Billed, Served, At, Serving, Reported
<1>5. CASE Accept(r)
  <2>1. /\ pc[r] = "judge" /\ pc'[r] = "account" /\ sent' = sent
        /\ answer' = answer
    BY <1>5 DEF Accept, At, Goto, calls, reply
  <2>2. Len(sent[r]) = Preceding(r) + 1 /\ LastCall(r)' = LastCall(r)
    BY <2>1 DEF WalksCandidates, LastCall
  <2> QED BY <1>1, <1>3, <2>1, <2>2
          DEF ServiceOK, Answered, Failed, Billed, Served, At, Serving, Reported
<1>6. CASE Account(r)
  <2>1. /\ pc[r] = "account" /\ sent' = sent
        /\ pc'[r] = IF LastCall(r).out # "ok" THEN "errorbody"
                    ELSE IF Kind(r) = "stream" THEN "relay" ELSE "read"
        /\ answer'[r] = IF LastCall(r).out = "ok" /\ Kind(r) = "stream"
                        THEN "streaming" ELSE "none"
    BY <1>1, <1>6 DEF Account, At, Goto, calls
  <2>2. /\ Len(sent[r]) = Preceding(r) + 1 /\ LastCall(r)' = LastCall(r)
        /\ LastCall(r).out \in Statuses
    BY <2>1 DEF ServiceOK, Answered, Serving, LastCall
  <2> QED BY <1>1, <1>3, <2>1, <2>2
          DEF ServiceOK, Answered, Failed, Billed, Served, At, Serving, Reported,
              Statuses
<1> QED BY <1>4, <1>5, <1>6

\* The end of the answer, and the way out.
LEMMA EndingService ==
  ASSUME RequestInv, NEW r \in Requests, ServiceOK(r),
         \/ CopyUpstreamError(r) \/ RefuseUpstreamError(r) \/ FinishWrite(r)
         \/ CompleteStream(r) \/ CutStream(r)
         \/ ReturnResponse(r) \/ RefuseResponse(r) \/ ReportFailure(r)
         \/ CloseUpstream(r) \/ Release(r) \/ Leave(r) \/ Exit(r)
  PROVE  ServiceOK(r)'
<1> USE DEF RequestInv, RequestOK, IInv, TypeOK, ControlOK, CallsOK, ReplyOK
<1>1. /\ sent' = sent /\ failure' = failure /\ UNCHANGED chain
  BY DEF CopyUpstreamError, RefuseUpstreamError, FinishWrite, CompleteStream,
     CutStream, ReturnResponse, RefuseResponse, ReportFailure, CloseUpstream,
     Release, Leave, Exit, calls
<1>2. UNCHANGED client
  BY ClientsKept DEF Handler, Proceed, Await, Deliver
<1>3. /\ Preceding(r)' = Preceding(r) /\ LastCall(r)' = LastCall(r)
      /\ Report(r)' = Report(r) /\ CtxDone(r)' = CtxDone(r)
      /\ Kind(r)' = Kind(r)
  BY <1>1, <1>2 DEF chain, client, Kind, Preceding, LastCall, Report, Candidate,
     CtxDone
<1>4. CASE CompleteStream(r) \/ ReturnResponse(r)
  <2>1. /\ \/ pc[r] = "relay" /\ pc'[r] = "unwind" /\ answer'[r] \in Reported
           \/ pc[r] = "read" /\ pc'[r] = "write" /\ answer' = answer
        /\ usage'[r] = Append(usage[r], Report(r))
    BY <1>4 DEF CompleteStream, ReturnResponse, At, Goto, Reported
  <2>2. /\ sent[r] # <<>> /\ LastCall(r).out = "ok" /\ usage[r] = <<>>
        /\ Len(sent[r]) = Preceding(r) + 1 /\ failure[r] = "none"
        /\ pc[r] = "read" => answer[r] = "none" /\ Kind(r) # "stream"
    BY <2>1 DEF ServiceOK, Answered, Failed, Billed, Served, At, Serving,
       HoldsConnection, WithBody, Past
  <2>3. usage'[r] = <<Report(r)>>
    BY <2>1, <2>2
  <2>4. Served(r)'
    BY <1>3, <2>1, <2>2 DEF Served, At, Reported
  <2> QED BY <1>1, <1>3, <2>1, <2>2, <2>3, <2>4
          DEF ServiceOK, Answered, Failed, Billed, Serving, Finals, Statuses,
              Reported
<1>5. CASE \/ RefuseUpstreamError(r) \/ CutStream(r) \/ RefuseResponse(r)
           \/ ReportFailure(r)
  <2>1. /\ pc[r] \in {"errorbody", "relay", "read", "failed"}
        /\ pc'[r] = IF pc[r] = "failed" THEN "release" ELSE "unwind"
        /\ answer'[r] \notin Reported /\ usage' = usage
    BY <1>5 DEF RefuseUpstreamError, CutStream, RefuseResponse, ReportFailure,
       At, Goto, Reply, Reported
  <2>2. usage[r] = <<>> /\ (pc[r] # "failed" => failure[r] = "none")
    BY <2>1 DEF ServiceOK, Answered, Failed, Billed, Served, At, SendsNothing,
       Past
  <2> QED BY <1>1, <1>3, <2>1, <2>2
          DEF ServiceOK, Answered, Failed, Billed, Served, At, Serving, Past,
              Reported
<1>6. CASE CopyUpstreamError(r)
  <2>1. /\ pc[r] = "errorbody" /\ pc'[r] = "write"
        /\ answer' = answer /\ usage' = usage
    BY <1>6 DEF CopyUpstreamError, At, Goto, reply
  <2>2. /\ usage[r] = <<>> /\ failure[r] = "none" /\ answer[r] = "none"
        /\ LastCall(r).out \in {"reject", "retry"}
    BY <2>1 DEF ServiceOK, Answered, Failed, Billed, Served, At, Past
  <2>3. Len(sent[r]) = Preceding(r) + 1
    BY <2>1 DEF ServiceOK, Answered, Serving
  <2> QED BY <1>1, <1>3, <2>1, <2>2, <2>3
          DEF ServiceOK, Answered, Failed, Billed, Served, At, Serving, Reported,
              Statuses
<1>7. CASE FinishWrite(r)
  <2>1. /\ pc[r] = "write" /\ pc'[r] = "unwind" /\ usage' = usage
        /\ answer'[r] = IF LastCall(r).out = "ok" THEN "ok" ELSE "upstream_error"
    BY <1>7 DEF FinishWrite, At, Goto, Reply
  <2>2. answer[r] = "none" /\ failure[r] = "none" /\ Served(r)' = Served(r)
    BY <1>3, <2>1 DEF ServiceOK, Answered, Failed, Served, At, Past
  <2> QED BY <1>1, <1>3, <2>1, <2>2
          DEF ServiceOK, Answered, Failed, Billed, Serving, Finals
<1>8. CASE CloseUpstream(r) \/ Release(r) \/ Leave(r) \/ Exit(r)
  <2>1. /\ pc[r] \in Finals /\ pc'[r] \in Past
        /\ answer' = answer /\ usage' = usage
    BY <1>8 DEF CloseUpstream, Release, Leave, Exit, At, Goto, reply, Finals, Past
  <2>2. Served(r)' = Served(r)
    BY <2>1 DEF Served, At, Finals, Past
  <2> QED BY <1>1, <1>3, <2>1, <2>2
          DEF ServiceOK, Answered, Failed, Billed, Serving, Finals, Past
<1> QED BY <1>4, <1>5, <1>6, <1>7, <1>8

LEMMA ServiceStep ==
  ASSUME RequestInv, ServiceInv, [Next]_vars
  PROVE  ServiceInv'
<1> SUFFICES ASSUME NEW q \in Requests PROVE ServiceOK(q)'
  BY DEF ServiceInv
<1>1. ServiceOK(q)
  BY DEF ServiceInv
<1>2. ASSUME NEW r \in Requests, Handler(r) PROVE ServiceOK(q)'
  <2>1. CASE q = r
    BY <1>1, <1>2, <2>1, SeekingService, FailingService, ReceivingService,
       EndingService DEF Handler, Receive, Proceed, Locked, Await, Deliver
  <2>2. CASE q # r
    BY <1>1, <1>2, <2>2, OthersUnnoticed, UnnoticedKeeps DEF RequestInv
  <2> QED BY <2>1, <2>2
<1>3. Environment \/ UNCHANGED vars => Unnoticed(q)
  BY DEF Environment, ClientDisconnects, DeadlineExpires, CooldownEnds,
     BeginScrape, EndScrape, vars, chain, calls, reply, client, Same, Unnoticed,
     CtxDone, RequestInv, IInv, TypeOK, ClientOK
<1> QED BY <1>1, <1>2, <1>3, UnnoticedKeeps DEF Next, Finished

LEMMA ServiceInit == Init => ServiceInv
BY DEF Init, ServiceInv, ServiceOK, Answered, Failed, Billed, Served, At, Serving,
       Reported

LEMMA ServiceInvariant == Spec => [](RequestInv /\ ServiceInv)
BY RequestInvariant, ServiceInit, ServiceStep, PTL DEF Spec

\* As many calls in the last turn as the attempt counts.
LEMMA CallsOfTurn ==
  ASSUME RequestInv, NEW r \in Requests, Len(sent[r]) = Preceding(r) + 1
  PROVE  Cardinality({j \in DOMAIN sent[r] :
                        Turn(r, j) = Turn(r, Len(sent[r]))}) = attempt[r]
<1> DEFINE n == Len(sent[r])
           S == {j \in DOMAIN sent[r] : Turn(r, j) = Turn(r, n)}
<1>0. Kind(r) = "stream" => attempt[r] = 1
  BY DEF RequestInv, RequestOK, WalksCandidates
<1>1. /\ DOMAIN sent[r] = 1 .. n /\ n \in Nat
      /\ idx[r] \in Nat \ {0} /\ attempt[r] \in 1 .. 2
      /\ Kind(r) = "stream" => attempt[r] = 1
  BY <1>0, SentType DEF RequestInv
<1>2. Turn(r, n) = idx[r]
  <2>1. n = Preceding(r) + 1 /\ IInv
    BY DEF RequestInv
  <2> HIDE DEF n
  <2> QED BY <1>1, <2>1, TurnOfAttempt
<1>3. CASE attempt[r] = 1
  <2>1. S = {n}
    <3>1. CASE Kind(r) = "stream"
      BY <1>1, <1>2, <3>1 DEF Turn
    <3>2. CASE Kind(r) # "stream"
      <4>1. n = 2 * idx[r] - 1
        BY <1>1, <1>3, <3>2 DEF Preceding
      <4>2. \A j \in 1 .. n : (j + 1) \div 2 = idx[r] <=> j = n
        BY <1>1, <4>1
      <4>3. S = {j \in 1 .. n : (j + 1) \div 2 = idx[r]}
        BY <1>2, <3>2 DEF Turn
      <4> QED BY <1>1, <4>1, <4>2, <4>3
    <3> QED BY <3>1, <3>2
  <2> QED BY <1>3, <2>1, FS_Singleton
<1>4. CASE attempt[r] = 2
  <2>1. Kind(r) # "stream" /\ n = 2 * idx[r]
    BY <1>1, <1>4 DEF Preceding
  <2>2. \A j \in 1 .. n : (j + 1) \div 2 = idx[r] <=> j = n - 1 \/ j = n
    BY <1>1, <2>1
  <2>3. n - 1 \in 1 .. n /\ n \in 1 .. n /\ n # n - 1
    BY <1>1, <2>1
  <2>4. \A j : j \in S <=> j = n - 1 \/ j = n
    <3>1. \A j : j \in S <=> j \in 1 .. n /\ (j + 1) \div 2 = idx[r]
      BY <1>1, <1>2, <2>1 DEF Turn
    <3> HIDE DEF S, n
    <3> QED BY <2>2, <2>3, <3>1
  <2>5. Cardinality(S) = 2
    <3> HIDE DEF S, n
    <3>1. S = {n - 1} \union {n} /\ n \notin {n - 1}
      BY <2>3, <2>4
    <3>2. IsFiniteSet({n - 1}) /\ Cardinality({n - 1}) = 1
      BY FS_Singleton
    <3>3. Cardinality({n - 1} \union {n}) = Cardinality({n - 1}) + 1
      BY <3>1, <3>2, FS_AddElement
    <3> QED BY <3>1, <3>2, <3>3
  <2> QED BY <1>4, <2>5
<1> QED BY <1>1, <1>3, <1>4

\* Each answer served, or being written, is reported once, with the provider that gave it and the
\* calls it took there; nothing else is reported; and the fallback mark is only
\* on a provider the route lists after its primary.
THEOREM ServiceIsReported == Spec => []UsageMatchesService
<1>1. ASSUME RequestInv, ServiceInv, SelectionInv PROVE UsageMatchesService
  <2> SUFFICES ASSUME NEW r \in Requests
               PROVE  /\ Len(usage[r]) = (IF Served(r) THEN 1 ELSE 0)
                      /\ \A i \in DOMAIN usage[r] :
                           /\ LastCall(r) = [to |-> usage[r][i].provider,
                                             out |-> "ok"]
                           /\ usage[r][i].attempts =
                                Cardinality({j \in DOMAIN sent[r] :
                                   Turn(r, j) = Turn(r, Len(sent[r]))})
                           /\ usage[r][i].fallback =>
                                \E n \in 2 .. Len(Path(r)) :
                                  Path(r)[n] = usage[r][i].provider
    BY DEF UsageMatchesService
  <2>1. CASE ~Served(r)
    BY <1>1, <2>1 DEF ServiceInv, ServiceOK, Billed
  <2>2. CASE Served(r)
    <3>1. /\ sent[r] # <<>> /\ LastCall(r).out = "ok"
          /\ Len(sent[r]) = Preceding(r) + 1 /\ usage[r] = <<Report(r)>>
      BY <1>1, <2>2 DEF ServiceInv, ServiceOK, Billed
    <3>2. /\ sent[r] \in Seq(CallRecords) /\ Len(sent[r]) \in Nat \ {0}
          /\ idx[r] \in Nat \ {0} /\ clients[r] \in Seq(Providers)
      BY <1>1, <3>1, SentType DEF RequestInv
    <3>3. /\ LastCall(r) \in CallRecords
          /\ Turn(r, Len(sent[r])) = idx[r] /\ idx[r] <= Len(clients[r])
          /\ LastCall(r).to = Candidate(r)
      <4>1. /\ IInv /\ Walked(r) /\ (Kind(r) = "stream" => attempt[r] = 1)
        BY <1>1 DEF RequestInv, RequestOK, WalksCandidates
      <4>2. Turn(r, Len(sent[r])) = idx[r]
        BY <3>1, <3>2, <4>1, TurnOfAttempt
      <4>3. LastCall(r) \in CallRecords /\ Len(sent[r]) \in 1 .. Len(sent[r])
        BY <3>1, <3>2 DEF LastCall
      <4> QED BY <4>1, <4>2, <4>3 DEF Walked, LastCall, Candidate
    <3>4. LastCall(r) = [to |-> Candidate(r), out |-> "ok"]
      BY <3>1, <3>3 DEF CallRecords
    <3>5. ASSUME idx[r] > 1
          PROVE  \E n \in 2 .. Len(Path(r)) : Path(r)[n] = Candidate(r)
      <4>1. PICK listing : Lists(listing, r)
        BY <1>1 DEF SelectionInv, Selected
      <4>2. /\ 1 \in 1 .. Len(clients[r]) /\ idx[r] \in 1 .. Len(clients[r])
            /\ Len(Path(r)) \in Nat /\ 1 \in 1 .. idx[r] - 1
        BY <1>1, <3>2, <3>3, <3>5, PathType DEF RequestInv, IInv, TypeOK
      <4>3. /\ listing[1] \in 1 .. Len(Path(r))
            /\ listing[idx[r]] \in 1 .. Len(Path(r))
            /\ listing[1] < listing[idx[r]]
            /\ clients[r][idx[r]] = Path(r)[listing[idx[r]]]
        BY <4>1, <4>2 DEF Lists
      <4>4. listing[idx[r]] \in 2 .. Len(Path(r))
        BY <4>2, <4>3
      <4> QED BY <4>3, <4>4 DEF Candidate
    <3>6. /\ Len(usage[r]) = 1 /\ DOMAIN usage[r] = {1}
          /\ usage[r][1] = Report(r)
      BY <3>1
    <3>7. Cardinality({j \in DOMAIN sent[r] :
                         Turn(r, j) = Turn(r, Len(sent[r]))}) = attempt[r]
      BY <1>1, <3>1, CallsOfTurn
    <3>8. /\ Report(r).provider = Candidate(r) /\ Report(r).attempts = attempt[r]
          /\ Report(r).fallback => idx[r] > 1
      BY Zenon DEF Report
    <3> QED BY <2>2, <3>4, <3>5, <3>6, <3>7, <3>8
  <2> QED BY <2>1, <2>2
<1> QED BY <1>1, ServiceInvariant, SelectionInvariant, PTL

-----------------------------------------------------------------------------
\* Counters.  Each stands for a set of requests, which a step of one handler
\* changes by that handler at most.
Done        == {r \in Requests : At(r, "done")}
Faulty      == Done \intersect WithAnswer(ErrorAnswers)
TurnedAway  == WithAnswer({"unreadable", "canceled"})
Completed   == WithAnswer({"streamed"})
Aborted     == WithAnswer({"cut"})
Relayed     == {r \in Requests : Kind(r) = "stream" /\ At(r, "relay")}
Refused     == {r \in Requests :
                  /\ Kind(r) = "stream"
                  /\ \/ pc[r] \in {"errorbody", "write"}
                     \/ /\ pc[r] \in Finals
                        /\ failure[r] = "none" /\ sent[r] # <<>>
                        /\ LastCall(r).out \in {"reject", "retry"}}
Excused(r)  == CtxDone(r) \/ failure[r] = "timeout"
Interrupted == {r \in Requests : Excused(r) /\ pc[r] \in Finals}

CounterInv ==
  /\ total["requests"] = Cardinality(Done)
  /\ total["errors"] = Cardinality(Faulty)
  /\ total["limitRejections"] = Cardinality(TurnedAway)
  /\ total["streamCompleted"] = Cardinality(Completed)
  /\ total["streamAborted"] = Cardinality(Aborted)
  /\ total["streamsTotal"] = total["streamCompleted"] + total["streamAborted"]
                               + Cardinality(Relayed) + Cardinality(Refused)
  /\ total["cancellations"] <= Cardinality(Interrupted)

\* A step that changes the counters as it changes what they stand for.
Reconciles(r) ==
  /\ total'["requests"] + Bit(Done, r) = total["requests"] + Bit(Done, r)'
  /\ total'["errors"] + Bit(Faulty, r) = total["errors"] + Bit(Faulty, r)'
  /\ total'["limitRejections"] + Bit(TurnedAway, r)
       = total["limitRejections"] + Bit(TurnedAway, r)'
  /\ total'["streamCompleted"] + Bit(Completed, r)
       = total["streamCompleted"] + Bit(Completed, r)'
  /\ total'["streamAborted"] + Bit(Aborted, r)
       = total["streamAborted"] + Bit(Aborted, r)'
  /\ total'["streamsTotal"] + Bit(Completed, r) + Bit(Aborted, r)
         + Bit(Relayed, r) + Bit(Refused, r)
       = total["streamsTotal"] + Bit(Completed, r)' + Bit(Aborted, r)'
           + Bit(Relayed, r)' + Bit(Refused, r)'
  /\ total'["cancellations"] + Bit(Interrupted, r)
       <= total["cancellations"] + Bit(Interrupted, r)'

\* The step of one handler through its sets, once those of the others are
\* seen to be as they were.
LEMMA CountersFollow ==
  ASSUME RequestInv, CounterInv, NEW r \in Requests, Reconciles(r), TypeOK',
         \A q \in Requests : q # r => Unnoticed(q) /\ CtxDone(q)' = CtxDone(q)
  PROVE  CounterInv'
<1>1. \A q \in Requests : q # r =>
        /\ q \in Done' <=> q \in Done
        /\ q \in Faulty' <=> q \in Faulty
        /\ q \in TurnedAway' <=> q \in TurnedAway
        /\ q \in Completed' <=> q \in Completed
        /\ q \in Aborted' <=> q \in Aborted
        /\ q \in Relayed' <=> q \in Relayed
        /\ q \in Refused' <=> q \in Refused
        /\ q \in Interrupted' <=> q \in Interrupted
  BY DEF Unnoticed, Same, Done, Faulty, TurnedAway, Completed, Aborted, Relayed,
     Refused, Interrupted, Excused, WithAnswer, At, Kind, LastCall
<1>2. /\ Done \subseteq Requests /\ Done' \subseteq Requests
      /\ Faulty \subseteq Requests /\ Faulty' \subseteq Requests
      /\ TurnedAway \subseteq Requests /\ TurnedAway' \subseteq Requests
      /\ Completed \subseteq Requests /\ Completed' \subseteq Requests
      /\ Aborted \subseteq Requests /\ Aborted' \subseteq Requests
      /\ Relayed \subseteq Requests /\ Relayed' \subseteq Requests
      /\ Refused \subseteq Requests /\ Refused' \subseteq Requests
      /\ Interrupted \subseteq Requests /\ Interrupted' \subseteq Requests
  BY DEF Done, Faulty, TurnedAway, Completed, Aborted, Relayed, Refused,
     Interrupted, WithAnswer
<1> DEFINE Grows(S, T) ==
             /\ Cardinality(S) \in Nat /\ Cardinality(T) \in Nat
             /\ Cardinality(T) + Bit(S, r) = Cardinality(S) + Bit(T, r)
<1>3. Grows(Done, Done') /\ Grows(Faulty, Faulty')
  BY <1>1, <1>2, SetMoves
<1>4. Grows(TurnedAway, TurnedAway') /\ Grows(Completed, Completed')
  BY <1>1, <1>2, SetMoves
<1>5. Grows(Aborted, Aborted') /\ Grows(Relayed, Relayed')
  BY <1>1, <1>2, SetMoves
<1>6. Grows(Refused, Refused') /\ Grows(Interrupted, Interrupted')
  BY <1>1, <1>2, SetMoves
<1>7. \A S : Bit(S, r) \in Int
  BY DEF Bit
<1>8. /\ total["requests"] \in Nat /\ total'["requests"] \in Nat
      /\ total["errors"] \in Nat /\ total'["errors"] \in Nat
      /\ total["limitRejections"] \in Nat /\ total'["limitRejections"] \in Nat
      /\ total["streamCompleted"] \in Nat /\ total'["streamCompleted"] \in Nat
      /\ total["streamAborted"] \in Nat /\ total'["streamAborted"] \in Nat
      /\ total["streamsTotal"] \in Nat /\ total'["streamsTotal"] \in Nat
      /\ total["cancellations"] \in Nat /\ total'["cancellations"] \in Nat
  BY DEF RequestInv, IInv, TypeOK, MetricsOK, Counters
<1> HIDE DEF Grows
<1>9. /\ total'["requests"] = Cardinality(Done')
      /\ total'["errors"] = Cardinality(Faulty')
      /\ total'["limitRejections"] = Cardinality(TurnedAway')
  <2>1. /\ total'["requests"] + Bit(Done, r) = total["requests"] + Bit(Done', r)
        /\ total'["errors"] + Bit(Faulty, r) = total["errors"] + Bit(Faulty', r)
        /\ total'["limitRejections"] + Bit(TurnedAway, r)
             = total["limitRejections"] + Bit(TurnedAway', r)
    BY DEF Reconciles, Bit
  <2>2. /\ total["requests"] = Cardinality(Done)
        /\ total["errors"] = Cardinality(Faulty)
        /\ total["limitRejections"] = Cardinality(TurnedAway)
    BY DEF CounterInv
  <2> QED BY ONLY <1>3, <1>4, <1>7, <1>8, <2>1, <2>2 DEF Grows
<1>10. /\ total'["streamCompleted"] = Cardinality(Completed')
       /\ total'["streamAborted"] = Cardinality(Aborted')
  <2>1. /\ total'["streamCompleted"] + Bit(Completed, r)
             = total["streamCompleted"] + Bit(Completed', r)
        /\ total'["streamAborted"] + Bit(Aborted, r)
             = total["streamAborted"] + Bit(Aborted', r)
    BY DEF Reconciles, Bit
  <2>2. /\ total["streamCompleted"] = Cardinality(Completed)
        /\ total["streamAborted"] = Cardinality(Aborted)
    BY DEF CounterInv
  <2> QED BY ONLY <1>4, <1>5, <1>7, <1>8, <2>1, <2>2 DEF Grows
<1>11. total'["streamsTotal"] = total'["streamCompleted"] + total'["streamAborted"]
                               + Cardinality(Relayed') + Cardinality(Refused')
  <2>1. total'["streamsTotal"] + Bit(Completed, r) + Bit(Aborted, r)
           + Bit(Relayed, r) + Bit(Refused, r)
         = total["streamsTotal"] + Bit(Completed', r) + Bit(Aborted', r)
             + Bit(Relayed', r) + Bit(Refused', r)
    BY DEF Reconciles, Bit
  <2>2. total["streamsTotal"] = Cardinality(Completed) + Cardinality(Aborted)
             + Cardinality(Relayed) + Cardinality(Refused)
    BY DEF CounterInv
  <2> QED BY ONLY <1>4, <1>5, <1>6, <1>7, <1>8, <1>10, <2>1, <2>2 DEF Grows
<1>12. total'["cancellations"] <= Cardinality(Interrupted')
  <2>1. total'["cancellations"] + Bit(Interrupted, r)
          <= total["cancellations"] + Bit(Interrupted', r)
    BY DEF Reconciles, Bit
  <2>2. total["cancellations"] <= Cardinality(Interrupted)
    BY DEF CounterInv
  <2> QED BY ONLY <1>6, <1>7, <1>8, <2>1, <2>2 DEF Grows
<1> QED BY <1>9, <1>10, <1>11, <1>12 DEF CounterInv

\* What puts r into each of the sets.
Memberships(r) ==
  /\ r \in Done <=> pc[r] = "done"
  /\ r \in Faulty <=> pc[r] = "done" /\ answer[r] \in ErrorAnswers
  /\ r \in TurnedAway <=> answer[r] \in {"unreadable", "canceled"}
  /\ r \in Completed <=> answer[r] = "streamed"
  /\ r \in Aborted <=> answer[r] = "cut"
  /\ r \in Relayed <=> Kind(r) = "stream" /\ pc[r] = "relay"
  /\ r \in Refused <=>
       /\ Kind(r) = "stream"
       /\ \/ pc[r] \in {"errorbody", "write"}
          \/ /\ pc[r] \in Finals /\ failure[r] = "none" /\ sent[r] # <<>>
             /\ LastCall(r).out \in {"reject", "retry"}
  /\ r \in Interrupted <=> Excused(r) /\ pc[r] \in Finals

LEMMA Members ==
  ASSUME NEW r \in Requests
  PROVE  Memberships(r) /\ Memberships(r)'
BY DEF Memberships, Done, Faulty, TurnedAway, Completed, Aborted, Relayed,
       Refused, Interrupted, WithAnswer, At

Uncounted(r) ==
  /\ Bit(Done, r) = 0 /\ Bit(Faulty, r) = 0 /\ Bit(TurnedAway, r) = 0
  /\ Bit(Completed, r) = 0 /\ Bit(Aborted, r) = 0 /\ Bit(Relayed, r) = 0
  /\ Bit(Refused, r) = 0 /\ Bit(Interrupted, r) = 0

\* Before the end of its candidate loop a request is in none of them.
LEMMA NothingCounted ==
  ASSUME NEW r \in Requests
  PROVE  /\ /\ pc[r] \notin Finals \union {"errorbody", "relay", "write"}
            /\ answer[r] \in {"none", "streaming"}
            => Uncounted(r)
         /\ /\ pc'[r] \notin Finals \union {"errorbody", "relay", "write"}
            /\ answer'[r] \in {"none", "streaming"}
            => Uncounted(r)'
BY Members DEF Memberships, Uncounted, Bit, Finals, Past

LEMMA CounterTypes ==
  ASSUME RequestInv
  PROVE  \A c \in Counters : total[c] \in Nat
BY DEF RequestInv, IInv, TypeOK, MetricsOK

\* A step that neither begins nor ends with r counted.
LEMMA QuietReconciles ==
  ASSUME RequestInv, NEW r \in Requests, total' = total,
         {pc[r], pc'[r]} \intersect
           (Finals \union {"errorbody", "relay", "write"}) = {},
         {answer[r], answer'[r]} \subseteq {"none", "streaming"}
  PROVE  Reconciles(r)
<1>1. Uncounted(r) /\ Uncounted(r)'
  BY NothingCounted
<1> QED BY <1>1, CounterTypes DEF Uncounted, Reconciles, Counters

\* What was read is passed on to the client: a stream refused stays refused.
LEMMA CopyingReconciles ==
  ASSUME RequestInv, NEW r \in Requests, ServiceOK(r), total' = total,
         CopyUpstreamError(r) \/ ReturnResponse(r)
  PROVE  Reconciles(r)
<1>1. /\ pc[r] \in {"errorbody", "read"} /\ pc'[r] = "write"
      /\ answer' = answer /\ UNCHANGED client
  BY DEF CopyUpstreamError, ReturnResponse, At, Goto, reply, RequestInv, IInv,
     TypeOK, ControlOK
<1>2. /\ answer[r] = "none" /\ Kind(r)' = Kind(r)
      /\ pc[r] = "read" => Kind(r) # "stream"
  BY <1>1 DEF ServiceOK, Answered, Kind, client
<1>3. /\ Bit(Done, r) = 0 /\ Bit(Done, r)' = 0
      /\ Bit(Faulty, r) = 0 /\ Bit(Faulty, r)' = 0
      /\ Bit(TurnedAway, r) = 0 /\ Bit(TurnedAway, r)' = 0
      /\ Bit(Completed, r) = 0 /\ Bit(Completed, r)' = 0
      /\ Bit(Aborted, r) = 0 /\ Bit(Aborted, r)' = 0
      /\ Bit(Relayed, r) = 0 /\ Bit(Relayed, r)' = 0
      /\ Bit(Interrupted, r) = 0 /\ Bit(Interrupted, r)' = 0
  BY <1>1, <1>2, Members DEF Memberships, Bit, Finals, Past
<1>4. Bit(Refused, r)' = Bit(Refused, r) /\ Bit(Refused, r) \in Int
  BY <1>1, <1>2, Members DEF Memberships, Bit, Finals, Past
<1> QED BY <1>3, <1>4, CounterTypes DEF Reconciles, Counters

\* A refusal before any call: counted, if at all, as turned away.
LEMMA RefusalReconciles ==
  ASSUME RequestInv, NEW r \in Requests, NEW names, Counted(names),
         names \subseteq {"authFailures", "limitRejections", "cancellations"},
         "limitRejections" \in names <=> answer'[r] \in {"unreadable", "canceled"},
         "cancellations" \in names => CtxDone(r)',
         answer[r] = "none", answer'[r] \notin {"streamed", "cut"},
         sent'[r] = <<>>, pc'[r] \in {"leave", "exit"},
         pc[r] \in {"idle", "body", "select", "queue"}
  PROVE  Reconciles(r)
<1>1. Uncounted(r)
  BY NothingCounted DEF Finals, Past
<1>2. /\ Bit(Done, r)' = 0 /\ Bit(Faulty, r)' = 0
      /\ Bit(TurnedAway, r)' = IF "limitRejections" \in names THEN 1 ELSE 0
      /\ Bit(Completed, r)' = 0 /\ Bit(Aborted, r)' = 0 /\ Bit(Relayed, r)' = 0
      /\ Bit(Refused, r)' = 0
      /\ Bit(Interrupted, r)' = IF Excused(r)' THEN 1 ELSE 0
  BY Members DEF Memberships, Bit, Finals, Past
<1>3. /\ \A c \in Counters : total[c] \in Nat
      /\ total' = [c \in Counters |-> IF c \in names THEN total[c] + 1 ELSE total[c]]
  BY CounterTypes DEF Counted
<1>4. /\ total'["requests"] = total["requests"]
      /\ total'["errors"] = total["errors"]
      /\ total'["limitRejections"] = total["limitRejections"]
           + (IF "limitRejections" \in names THEN 1 ELSE 0)
      /\ total'["streamCompleted"] = total["streamCompleted"]
      /\ total'["streamAborted"] = total["streamAborted"]
      /\ total'["streamsTotal"] = total["streamsTotal"]
      /\ total'["cancellations"] = total["cancellations"]
           + (IF "cancellations" \in names THEN 1 ELSE 0)
  <2>1. \A c \in Counters : /\ c \in names => total'[c] = total[c] + 1
                            /\ c \notin names => total'[c] = total[c]
    BY <1>3
  <2>2. \A c \in {"requests", "errors", "streamCompleted", "streamAborted",
                  "streamsTotal"} : c \in Counters \ names
    BY DEF Counters
  <2>3. \A c \in {"limitRejections", "cancellations"} : c \in Counters
    BY DEF Counters
  <2>4. \A c \in Counters : total[c] \in Nat
    BY <1>3
  <2> QED BY ONLY <2>1, <2>2, <2>3, <2>4
<1>5. /\ total["requests"] \in Nat /\ total["errors"] \in Nat
      /\ total["limitRejections"] \in Nat /\ total["streamCompleted"] \in Nat
      /\ total["streamAborted"] \in Nat /\ total["streamsTotal"] \in Nat
      /\ total["cancellations"] \in Nat
  BY <1>3 DEF Counters
<1>6. (IF "cancellations" \in names THEN 1 ELSE 0)
        <= (IF Excused(r)' THEN 1 ELSE 0)
  BY DEF Excused
<1> QED BY ONLY <1>1, <1>2, <1>4, <1>5, <1>6 DEF Uncounted, Reconciles

LEMMA ReceiveReconciles ==
  ASSUME RequestInv, NEW r \in Requests, Receive(r)
  PROVE  Reconciles(r)
<1> USE DEF RequestInv, RequestOK, IInv, TypeOK, ControlOK, ReplyOK, MetricsOK,
            At, Goto, Reply
<1>1. /\ pc[r] \in {"idle", "body"} /\ answer[r] = "none"
      /\ sent' = sent /\ sent[r] = <<>>
  BY DEF Receive, Arrive, RefuseUnauthorized, ReadRequest, RefuseUnreadable,
     RefuseMalformed, SendsNothing, HoldsConnection, calls
<1>2. CASE Arrive(r) \/ ReadRequest(r)
  <2>1. total' = total /\ pc'[r] \in {"body", "select"} /\ answer' = answer
    BY <1>2 DEF Arrive, ReadRequest, metrics, reply
  <2> QED BY <1>1, <2>1, QuietReconciles DEF Finals, Past
<1>3. CASE RefuseUnauthorized(r)
  <2>1. /\ Counted({"authFailures"}) /\ pc'[r] = "exit"
        /\ answer'[r] = "unauthorized"
    BY <1>3 DEF RefuseUnauthorized
  <2> QED BY <1>1, <2>1, RefusalReconciles
<1>4. CASE RefuseUnreadable(r)
  <2>1. /\ Counted({"limitRejections"}) /\ pc'[r] = "leave"
        /\ answer'[r] = "unreadable"
    BY <1>4 DEF RefuseUnreadable
  <2> QED BY <1>1, <2>1, RefusalReconciles
<1>5. CASE RefuseMalformed(r)
  <2>1. total' = total /\ pc'[r] = "leave" /\ answer'[r] = "malformed"
    BY <1>5 DEF RefuseMalformed, metrics
  <2>2. Counted({})
    BY <2>1 DEF Counted
  <2> QED BY <1>1, <2>1, <2>2, RefusalReconciles
<1> QED BY <1>2, <1>3, <1>4, <1>5 DEF Receive

\* The end of an answer: a relayed stream becomes complete or cut, a refused one
\* stays refused, and the interrupted are counted once.
LEMMA EndingReconciles ==
  ASSUME RequestInv, NEW r \in Requests, ServiceOK(r), NEW names, Counted(names),
         names \subseteq {"streamCompleted", "streamAborted", "cancellations",
                          "providerErrors"},
         pc[r] \in {"failed", "errorbody", "relay", "read", "write"},
         pc'[r] \in {"release", "unwind"},
         UNCHANGED <<client, sent, failure>>,
         answer'[r] \in {"streamed", "cut", "upstream_error", "bad_gateway", "ok"},
         "streamCompleted" \in names <=> answer'[r] = "streamed",
         "streamAborted" \in names <=> answer'[r] = "cut",
         pc[r] = "relay" <=> answer'[r] \in {"streamed", "cut"},
         "cancellations" \in names => Excused(r)
  PROVE  Reconciles(r)
<1> DEFINE b(x) == IF x THEN 1 ELSE 0
<1>1. /\ Kind(r)' = Kind(r) /\ LastCall(r)' = LastCall(r)
      /\ Excused(r)' = Excused(r)
  BY DEF client, Kind, LastCall, CtxDone, Excused
<1>2. /\ pc[r] = "relay" => Kind(r) = "stream" /\ LastCall(r).out = "ok"
      /\ pc[r] = "read" => Kind(r) # "stream"
      /\ pc[r] \in {"errorbody", "write"} /\ Kind(r) = "stream" =>
           LastCall(r).out \in {"reject", "retry"} /\ sent[r] # <<>>
      /\ pc[r] = "failed" <=> failure[r] # "none"
      /\ answer[r] \in {"none", "streaming"}
  BY DEF ServiceOK, Answered, Failed, RequestInv, RequestOK, HoldsConnection,
     WithBody, SendsNothing, Past, Statuses
<1>3. /\ Bit(Done, r) = 0 /\ Bit(Faulty, r) = 0 /\ Bit(TurnedAway, r) = 0
      /\ Bit(Completed, r) = 0 /\ Bit(Aborted, r) = 0
      /\ Bit(Relayed, r) = b(pc[r] = "relay")
      /\ Bit(Refused, r) = b(pc[r] \in {"errorbody", "write"} /\ Kind(r) = "stream")
      /\ Bit(Interrupted, r) = 0
  BY <1>2, Members DEF Memberships, Bit, Finals, Past
<1>4. /\ Bit(Done, r)' = 0 /\ Bit(Faulty, r)' = 0 /\ Bit(TurnedAway, r)' = 0
      /\ Bit(Completed, r)' = b("streamCompleted" \in names)
      /\ Bit(Aborted, r)' = b("streamAborted" \in names)
      /\ Bit(Relayed, r)' = 0
      /\ Bit(Refused, r)' = b(pc[r] \in {"errorbody", "write"} /\ Kind(r) = "stream")
      /\ Bit(Interrupted, r)' = b(Excused(r))
  <2>1. /\ Bit(Done, r)' = 0 /\ Bit(Faulty, r)' = 0 /\ Bit(TurnedAway, r)' = 0
        /\ Bit(Completed, r)' = b("streamCompleted" \in names)
        /\ Bit(Aborted, r)' = b("streamAborted" \in names)
        /\ Bit(Relayed, r)' = 0
        /\ Bit(Interrupted, r)' = b(Excused(r))
    BY <1>1, Members DEF Memberships, Bit, Finals, Past
  <2>2. r \in Refused' <=> pc[r] \in {"errorbody", "write"} /\ Kind(r) = "stream"
    BY <1>1, <1>2, Members DEF Memberships, Finals, Past
  <2> QED BY <2>1, <2>2 DEF Bit
<1>5. /\ \A c \in Counters : total[c] \in Nat
      /\ total' = [c \in Counters |-> IF c \in names THEN total[c] + 1 ELSE total[c]]
  BY CounterTypes DEF Counted
<1>6. /\ total'["requests"] = total["requests"]
      /\ total'["errors"] = total["errors"]
      /\ total'["limitRejections"] = total["limitRejections"]
      /\ total'["streamCompleted"] = total["streamCompleted"]
                                       + b("streamCompleted" \in names)
      /\ total'["streamAborted"] = total["streamAborted"]
                                     + b("streamAborted" \in names)
      /\ total'["streamsTotal"] = total["streamsTotal"]
      /\ total'["cancellations"] = total["cancellations"]
                                     + b("cancellations" \in names)
  BY <1>5 DEF Counters
<1>7. b(pc[r] = "relay") = b("streamCompleted" \in names)
                             + b("streamAborted" \in names)
  OBVIOUS
<1>8. b("cancellations" \in names) <= b(Excused(r))
  OBVIOUS
<1> QED BY <1>3, <1>4, <1>5, <1>6, <1>7, <1>8 DEF Reconciles, Counters

\* The deferred calls.
LEMMA UnwindingReconciles ==
  ASSUME RequestInv, NEW r \in Requests, pc[r] \in Finals, pc[r] # "done",
         pc'[r] \in Past, UNCHANGED <<client, sent, failure>>,
         answer'[r] = answer[r],
         Counted(IF pc'[r] # "done" THEN {}
                 ELSE {"requests"} \union
                      (IF answer[r] \in ErrorAnswers THEN {"errors"} ELSE {}))
  PROVE  Reconciles(r)
<1> DEFINE b(x) == IF x THEN 1 ELSE 0
<1>1. /\ Kind(r)' = Kind(r) /\ LastCall(r)' = LastCall(r)
      /\ Excused(r)' = Excused(r)
  BY DEF client, Kind, LastCall, CtxDone, Excused
<1>2. /\ Bit(TurnedAway, r)' = Bit(TurnedAway, r)
      /\ Bit(Completed, r)' = Bit(Completed, r)
      /\ Bit(Aborted, r)' = Bit(Aborted, r)
      /\ Bit(Relayed, r)' = Bit(Relayed, r)
      /\ Bit(Refused, r)' = Bit(Refused, r)
      /\ Bit(Interrupted, r)' = Bit(Interrupted, r)
  BY <1>1, Members DEF Memberships, Bit, Finals, Past
<1>3. /\ Bit(Done, r) = 0 /\ Bit(Faulty, r) = 0
      /\ Bit(Done, r)' = b(pc'[r] = "done")
      /\ Bit(Faulty, r)' = b(pc'[r] = "done" /\ answer[r] \in ErrorAnswers)
  BY Members DEF Memberships, Bit
<1>4. /\ \A c \in Counters : total[c] \in Nat
      /\ total'["requests"] = total["requests"] + b(pc'[r] = "done")
      /\ total'["errors"] = total["errors"]
           + b(pc'[r] = "done" /\ answer[r] \in ErrorAnswers)
      /\ \A c \in Counters \ {"requests", "errors"} : total'[c] = total[c]
  BY CounterTypes DEF Counted, Counters
<1>5. \A S : Bit(S, r) \in Int
  BY DEF Bit
<1>6. /\ Bit(TurnedAway, r) \in Int /\ Bit(Completed, r) \in Int
      /\ Bit(Aborted, r) \in Int /\ Bit(Relayed, r) \in Int
      /\ Bit(Refused, r) \in Int /\ Bit(Interrupted, r) \in Int
  BY <1>5
<1> QED BY <1>2, <1>3, <1>4, <1>6 DEF Reconciles, Counters

LEMMA ProceedReconciles ==
  ASSUME RequestInv, NEW r \in Requests, ServiceOK(r), Proceed(r)
  PROVE  Reconciles(r)
<1> USE DEF RequestInv, RequestOK, IInv, TypeOK, ControlOK, ReplyOK, CallsOK,
            At, Goto, Reply
<1>1. UNCHANGED client
  BY ClientsKept DEF Handler
<1>2. total' = total => Counted({})
  BY DEF Counted, MetricsOK
<1>3. CASE \/ FinishSelection(r) \/ Acquire(r) \/ RefuseUnkeyed(r) \/ SendCall(r)
           \/ SkipCall(r) \/ RetryAfterBackoff(r) \/ AbandonBackoff(r)
  <2>1. /\ total' = total /\ answer' = answer
        /\ pc[r] \in {"select", "queue", "attempt", "backoff"}
        /\ pc'[r] \in {"queue", "attempt", "failed", "inflight"}
    BY <1>3 DEF FinishSelection, Acquire, RefuseUnkeyed, SendCall, SkipCall,
       RetryAfterBackoff, AbandonBackoff, Fail, metrics, reply
  <2>2. answer[r] = "none"
    BY <2>1 DEF SendsNothing
  <2> QED BY <2>1, <2>2, QuietReconciles DEF Finals, Past
<1>4. CASE RefuseUnrouted(r) \/ AbandonQueue(r)
  <2>1. /\ sent' = sent /\ pc[r] \in {"select", "queue"} /\ pc'[r] = "leave"
    BY <1>4 DEF RefuseUnrouted, AbandonQueue, calls
  <2>2. answer[r] = "none" /\ sent[r] = <<>>
    BY <2>1 DEF SendsNothing, HoldsConnection
  <2>3. CASE RefuseUnrouted(r)
    <3>1. Counted({}) /\ answer'[r] = "unrouted"
      BY <2>3, <1>2 DEF RefuseUnrouted, metrics
    <3> QED BY <2>1, <2>2, <3>1, RefusalReconciles
  <2>4. CASE AbandonQueue(r)
    <3>1. /\ Counted({"cancellations", "limitRejections"})
          /\ answer'[r] = "canceled" /\ CtxDone(r)'
      BY <2>4, <1>1 DEF AbandonQueue, client, CtxDone
    <3> QED BY <2>1, <2>2, <3>1, RefusalReconciles
  <2> QED BY <1>4, <2>3, <2>4
<1>5. CASE ReportFailure(r)
  <2> DEFINE names == {"providerErrors"} \union
                (IF failure[r] \in {"context", "timeout"}
                 THEN {"cancellations"} ELSE {})
  <2>1. /\ pc[r] = "failed" /\ pc'[r] = "release" /\ answer'[r] = "bad_gateway"
        /\ UNCHANGED <<sent, failure>> /\ Counted(names)
    BY <1>5 DEF ReportFailure, calls
  <2>2. "cancellations" \in names => Excused(r)
    BY DEF ServiceOK, Failed, Excused
  <2>3. names \subseteq {"cancellations", "providerErrors"}
    OBVIOUS
  <2> HIDE DEF names
  <2> QED BY <1>1, <2>1, <2>2, <2>3, EndingReconciles
<1>6. CASE CloseUpstream(r) \/ Release(r) \/ Leave(r) \/ Exit(r)
  <2>1. /\ pc[r] \in Finals /\ pc[r] # "done" /\ pc'[r] \in Past
        /\ UNCHANGED <<sent, failure>> /\ answer' = answer
    BY <1>6 DEF CloseUpstream, Release, Leave, Exit, calls, reply, Finals, Past
  <2>2. Counted(IF pc'[r] # "done" THEN {}
                ELSE {"requests"} \union
                     (IF answer[r] \in ErrorAnswers THEN {"errors"} ELSE {}))
    BY <1>2, <1>6 DEF CloseUpstream, Release, Leave, Exit, metrics
  <2> QED BY <1>1, <2>1, <2>2, UnwindingReconciles
<1> QED BY <1>3, <1>4, <1>5, <1>6 DEF Proceed

LEMMA LockedReconciles ==
  ASSUME RequestInv, NEW r \in Requests, ServiceOK(r), Locked(r)
  PROVE  Reconciles(r)
<1> USE DEF RequestInv, RequestOK, IInv, TypeOK, ControlOK, ReplyOK, CallsOK,
            At, Goto, Reply
<1>1. CASE ConsiderProvider(r) \/ FallBack(r) \/ Accept(r)
  <2>1. /\ total' = total /\ answer' = answer
        /\ pc[r] \in {"select", "judge"}
        /\ pc'[r] \in {"select", "attempt", "account"}
    BY <1>1 DEF ConsiderProvider, FallBack, Accept, metrics, reply
  <2>2. answer[r] = "none"
    BY <2>1 DEF SendsNothing
  <2> QED BY <2>1, <2>2, QuietReconciles DEF Finals, Past
<1>2. CASE Account(r)
  <2>1. /\ pc[r] = "account" /\ answer[r] = "none" /\ UNCHANGED <<sent, call>>
        /\ LastCall(r).out \in Statuses /\ sent[r] # <<>>
    BY <1>2, ClientsKept DEF Account, calls, SendsNothing, ServiceOK, Answered,
       HoldsConnection, WithBody, Handler, Locked, client
  <2>2. /\ pc'[r] = IF LastCall(r).out # "ok" THEN "errorbody"
                    ELSE IF Kind(r) = "stream" THEN "relay" ELSE "read"
        /\ answer'[r] \in {"none", "streaming"}
    BY <1>2, <2>1 DEF Account
  <2>3. /\ \A c \in Counters : total[c] \in Nat
        /\ total'["streamsTotal"] = total["streamsTotal"]
             + (IF Kind(r) = "stream" THEN 1 ELSE 0)
        /\ \A c \in Counters \ {"streamsTotal", "retries", "providerErrors"} :
              total'[c] = total[c]
    BY <1>2, CounterTypes DEF Account, Counters, MetricsOK
  <2>4. Uncounted(r)
    BY <2>1, NothingCounted DEF Finals, Past
  <2>5. /\ Bit(Done, r)' = 0 /\ Bit(Faulty, r)' = 0 /\ Bit(TurnedAway, r)' = 0
        /\ Bit(Completed, r)' = 0 /\ Bit(Aborted, r)' = 0
        /\ Bit(Interrupted, r)' = 0
    BY <2>2, Members DEF Memberships, Bit, Finals, Past
  <2>6. Bit(Relayed, r)' + Bit(Refused, r)' = IF Kind(r) = "stream" THEN 1 ELSE 0
    <3>1. r \in Relayed' <=> Kind(r) = "stream" /\ pc'[r] = "relay"
      BY <2>1, Members DEF Memberships, Kind
    <3>2. r \in Refused' <=> Kind(r) = "stream" /\ pc'[r] = "errorbody"
      BY <2>1, <2>2, Members DEF Memberships, Kind, Finals, Past
    <3> QED BY <2>2, <3>1, <3>2 DEF Bit
  <2>7. Bit(Relayed, r)' \in Int /\ Bit(Refused, r)' \in Int
    BY DEF Bit
  <2>8. /\ total["requests"] \in Nat /\ total'["requests"] = total["requests"]
        /\ total["errors"] \in Nat /\ total'["errors"] = total["errors"]
        /\ total["limitRejections"] \in Nat
        /\ total'["limitRejections"] = total["limitRejections"]
        /\ total["streamCompleted"] \in Nat
        /\ total'["streamCompleted"] = total["streamCompleted"]
        /\ total["streamAborted"] \in Nat
        /\ total'["streamAborted"] = total["streamAborted"]
        /\ total["cancellations"] \in Nat
        /\ total'["cancellations"] = total["cancellations"]
    BY <2>3 DEF Counters
  <2>9. /\ total["streamsTotal"] \in Nat
        /\ total'["streamsTotal"] = total["streamsTotal"]
             + (Bit(Relayed, r)' + Bit(Refused, r)')
    BY ONLY <2>3, <2>6 DEF Counters
  <2> QED BY ONLY <2>4, <2>5, <2>7, <2>8, <2>9 DEF Uncounted, Reconciles
<1> QED BY <1>1, <1>2 DEF Locked

LEMMA AwaitReconciles ==
  ASSUME RequestInv, NEW r \in Requests, ServiceOK(r), Await(r) \/ Deliver(r)
  PROVE  Reconciles(r)
<1> USE DEF RequestInv, RequestOK, IInv, TypeOK, ControlOK, ReplyOK, CallsOK,
            At, Goto, Reply
<1>1. UNCHANGED client
  BY ClientsKept DEF Handler
<1>2. CASE \/ LoseCall(r) \/ DrainForRetry(r)
           \/ \E status \in Statuses : Respond(r, status)
  <2>1. /\ total' = total /\ answer' = answer
        /\ pc[r] \in {"inflight", "drain"}
        /\ pc'[r] \in {"failed", "backoff", "drain", "judge"}
    BY <1>2 DEF LoseCall, DrainForRetry, Respond, metrics, reply
  <2>2. answer[r] = "none"
    BY <2>1 DEF SendsNothing
  <2> QED BY <2>1, <2>2, QuietReconciles DEF Finals, Past
<1>3. CASE RefuseUpstreamError(r) \/ RefuseResponse(r) \/ FinishWrite(r)
  <2>1. /\ pc[r] \in {"errorbody", "read", "write"} /\ pc'[r] = "unwind"
        /\ answer'[r] \in {"upstream_error", "bad_gateway", "ok"}
        /\ UNCHANGED <<sent, failure>> /\ Counted({})
    BY <1>3 DEF RefuseUpstreamError, RefuseResponse, FinishWrite, calls, metrics,
       Counted, MetricsOK
  <2> QED BY <1>1, <2>1, EndingReconciles
<1>4. CASE CompleteStream(r)
  <2>1. /\ pc[r] = "relay" /\ pc'[r] = "unwind" /\ answer'[r] = "streamed"
        /\ UNCHANGED <<sent, failure>> /\ Counted({"streamCompleted"})
    BY <1>4 DEF CompleteStream, calls
  <2> QED BY <1>1, <2>1, EndingReconciles
<1>5. CASE CutStream(r)
  <2> DEFINE names == {"streamAborted"} \union
                (IF cancelled[r] THEN {"cancellations"} ELSE {})
  <2>1. /\ pc[r] = "relay" /\ pc'[r] = "unwind" /\ answer'[r] = "cut"
        /\ UNCHANGED <<sent, failure>> /\ Counted(names)
    BY <1>5 DEF CutStream, calls
  <2>2. /\ "cancellations" \in names => Excused(r)
        /\ "streamAborted" \in names
        /\ names \subseteq {"streamAborted", "cancellations"}
    BY DEF CtxDone, Excused
  <2> HIDE DEF names
  <2> QED BY <1>1, <2>1, <2>2, EndingReconciles
<1>6. CASE CopyUpstreamError(r) \/ ReturnResponse(r)
  <2>1. total' = total
    BY <1>6 DEF CopyUpstreamError, ReturnResponse, metrics
  <2> QED BY <1>6, <2>1, CopyingReconciles
<1> QED BY <1>2, <1>3, <1>4, <1>5, <1>6 DEF Await, Deliver

LEMMA CounterStep ==
  ASSUME RequestInv, ServiceInv, CounterInv, [Next]_vars, TypeOK'
  PROVE  CounterInv'
<1>1. ASSUME NEW r \in Requests, Handler(r) PROVE CounterInv'
  <2>1. Reconciles(r)
    BY <1>1, ReceiveReconciles, ProceedReconciles, LockedReconciles,
       AwaitReconciles DEF Handler, ServiceInv
  <2>2. \A q \in Requests : q # r => Unnoticed(q) /\ CtxDone(q)' = CtxDone(q)
    BY <1>1, OthersUnnoticed, ClientsKept DEF client, CtxDone, RequestInv
  <2> QED BY <2>1, <2>2, CountersFollow
<1>2. ASSUME UNCHANGED <<pc, call, sent, failure, answer, total>>,
             \A r \in Requests : CtxDone(r) => CtxDone(r)'
      PROVE  CounterInv'
  <2>1. /\ Done' = Done /\ Faulty' = Faulty /\ TurnedAway' = TurnedAway
        /\ Completed' = Completed /\ Aborted' = Aborted /\ Relayed' = Relayed
        /\ Refused' = Refused
    BY <1>2 DEF Done, Faulty, TurnedAway, Completed, Aborted, Relayed, Refused,
       WithAnswer, At, Kind, LastCall
  <2>2. Cardinality(Interrupted) <= Cardinality(Interrupted')
    <3>1. Interrupted \subseteq Interrupted' /\ IsFiniteSet(Interrupted')
      BY <1>2, RequestsAssumption, FS_Subset DEF Interrupted, Excused
    <3> QED BY <3>1, FS_Subset
  <2>3. /\ Cardinality(Interrupted) \in Nat /\ Cardinality(Interrupted') \in Nat
        /\ total["cancellations"] \in Nat
    <3>1. IsFiniteSet(Interrupted) /\ IsFiniteSet(Interrupted')
      BY RequestsAssumption, FS_Subset DEF Interrupted
    <3> QED BY <3>1, FS_CardinalityType, CounterTypes DEF Counters
  <2> QED BY <1>2, <2>1, <2>2, <2>3 DEF CounterInv
<1>3. Environment \/ UNCHANGED vars =>
        /\ UNCHANGED <<pc, call, sent, failure, answer, total>>
        /\ \A r \in Requests : CtxDone(r) => CtxDone(r)'
  BY DEF Environment, ClientDisconnects, DeadlineExpires, CooldownEnds,
     BeginScrape, EndScrape, vars, calls, reply, client, metrics, CtxDone,
     RequestInv, IInv, TypeOK, ClientOK
<1> QED BY <1>1, <1>2, <1>3 DEF Next, Finished

LEMMA CounterInit == Init => CounterInv
<1> SUFFICES ASSUME Init PROVE CounterInv
  OBVIOUS
<1>1. /\ Done = {} /\ Faulty = {} /\ TurnedAway = {} /\ Completed = {}
      /\ Aborted = {} /\ Relayed = {} /\ Refused = {} /\ Interrupted = {}
  BY DEF Init, Done, Faulty, TurnedAway, Completed, Aborted, Relayed, Refused,
     Interrupted, WithAnswer, At, Finals, Past
<1> QED BY <1>1, FS_EmptySet DEF Init, CounterInv, Counters

\* Whatever the interleaving and however requests end, the counters of /status
\* are the numbers of requests they are named for, and no interruption or late
\* connection is counted twice.
THEOREM CountersAreRight == Spec => []CountersReconcile
<1>1. ASSUME RequestInv, CounterInv PROVE CountersReconcile
  <2> DEFINE streams  == {r \in Requests : Kind(r) = "stream"}
             relaying == {r \in streams : At(r, "relay")}
             refused  == {r \in streams :
                            \/ pc[r] \in {"errorbody", "write"}
                            \/ /\ pc[r] \in Past \union {"unwind"}
                               /\ failure[r] = "none"
                               /\ sent[r] # <<>>
                               /\ LastCall(r).out \in {"reject", "retry"}}
             done     == {r \in Requests : At(r, "done")}
  <2>1. Done = done /\ Relayed = relaying /\ Refused = refused
    BY DEF Done, Relayed, Refused, Finals
  <2>2. total["cancellations"] <=
          Cardinality({r \in Requests : CtxDone(r) \/ failure[r] = "timeout"})
    <3> DEFINE S == {r \in Requests : CtxDone(r) \/ failure[r] = "timeout"}
    <3>1. Interrupted \subseteq S /\ S \subseteq Requests
      BY DEF Interrupted, Excused
    <3> HIDE DEF S
    <3>2. IsFiniteSet(S) /\ IsFiniteSet(Interrupted)
      BY <3>1, RequestsAssumption, FS_Subset
    <3>3. Cardinality(Interrupted) <= Cardinality(S)
      BY <3>1, <3>2, FS_Subset
    <3>4. /\ Cardinality(Interrupted) \in Nat /\ Cardinality(S) \in Nat
          /\ total["cancellations"] \in Nat
      BY <1>1, <3>2, FS_CardinalityType, CounterTypes DEF Counters
    <3>5. total["cancellations"] <= Cardinality(Interrupted)
      BY <1>1 DEF CounterInv
    <3>6. total["cancellations"] <= Cardinality(S)
      BY ONLY <3>3, <3>4, <3>5
    <3> QED BY <3>6 DEF S
  <2>3. /\ total["streamsTotal"] = total["streamCompleted"]
             + total["streamAborted"] + Cardinality(relaying) + Cardinality(refused)
        /\ total["streamCompleted"] = Cardinality(WithAnswer({"streamed"}))
        /\ total["requests"] = Cardinality(done)
        /\ total["errors"] = Cardinality(done \intersect WithAnswer(ErrorAnswers))
        /\ total["limitRejections"] =
             Cardinality(WithAnswer({"unreadable", "canceled"}))
    <3> HIDE DEF streams, relaying, refused, done
    <3> QED BY <1>1, <2>1 DEF CounterInv, Faulty, TurnedAway, Completed
  <2> QED BY <2>2, <2>3, Zenon DEF CountersReconcile
<1> QED BY <1>1, CounterInit, CounterStep, ServiceInvariant, RequestInvariant,
        InductiveInvariant, PTL DEF Spec, RequestInv, IInv
=============================================================================
