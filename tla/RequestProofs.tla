---------------------------- MODULE RequestProofs ----------------------------
(***************************************************************************)
(* What one request does upstream, for any number of requests around it:   *)
(* which connections it holds, which calls it repeats, and what its        *)
(* failures count for.                                                     *)
(*                                                                         *)
(* None of these properties is inductive by itself: that a repetition is   *)
(* justified depends on how many calls precede the attempt the handler is  *)
(* at, and on what the last of them came to.  RequestOK says so label by   *)
(* label; handlers do not touch each other's part of it.                   *)
(***************************************************************************)
EXTENDS GatewayProofs

\* A handler holds a response body from the answer to its call until it has
\* drained it, gone on to another candidate, or unwound.
WithBody == {"drain", "judge", "account", "errorbody", "relay", "read",
             "write", "unwind"}

Pending(r) == sent[r] # <<>> /\ LastCall(r).out = "pending"

\* Nothing is sent before admission; a call is pending exactly while the
\* handler waits for it; a body is held only where the handler closes it.
HoldsConnection(r) ==
  /\ pc[r] \in {"idle", "body", "select", "queue"} => sent[r] = <<>>
  /\ pc[r] \in WithBody => sent[r] # <<>>
  /\ pc[r] = "inflight" => sent[r] # <<>>
  /\ Pending(r) => pc[r] = "inflight"
  /\ open[r] => pc[r] \in WithBody

\* The calls that precede the attempt the handler is at.
Preceding(r) == IF Kind(r) = "stream" THEN idx[r] - 1
                                      ELSE 2 * (idx[r] - 1) + attempt[r] - 1

Walked(r) ==
  \A i \in 1 .. Len(sent[r]) :
    /\ Turn(r, i) <= Len(clients[r])
    /\ sent[r][i].to = clients[r][Turn(r, i)]
    /\ i < Len(sent[r]) => sent[r][i].out = "retry"

\* The number of calls made follows from where the handler is, and the last of
\* them allows the next one.
WalksCandidates(r) ==
  /\ Kind(r) = "stream" => attempt[r] = 1
  /\ pc[r] \in {"idle", "body", "select", "queue"} =>
       idx[r] = 1 /\ attempt[r] = 1
  /\ pc[r] = "attempt" => Len(sent[r]) = Preceding(r)
  /\ pc[r] \in {"inflight", "drain", "backoff", "judge"} =>
       Len(sent[r]) = Preceding(r) + 1
  /\ pc[r] = "attempt" /\ sent[r] # <<>> => LastCall(r).out = "retry"
  /\ pc[r] \in {"drain", "backoff"} =>
       /\ sent[r] # <<>>
       /\ LastCall(r).out = "retry" /\ attempt[r] = 1 /\ Kind(r) # "stream"
  /\ pc[r] = "judge" /\ LastCall(r).out = "retry" =>
       attempt[r] = 2 \/ Kind(r) = "stream"
  /\ Walked(r)

\* The client has been sent nothing before the first byte of a response.
SendsNothing(r) ==
  pc[r] \in {"idle", "body", "select", "queue", "attempt", "inflight", "drain",
             "backoff", "judge", "account", "failed"} => answer[r] = "none"

RequestOK(r) == HoldsConnection(r) /\ WalksCandidates(r) /\ SendsNothing(r)

RequestInv == IInv /\ \A r \in Requests : RequestOK(r)

-----------------------------------------------------------------------------
LEMMA ClientsKept ==
  ASSUME NEW r \in Requests, Handler(r)
  PROVE  UNCHANGED client
BY DEF Handler, Receive, Arrive, RefuseUnauthorized, ReadRequest,
       RefuseUnreadable, RefuseMalformed, Proceed, FinishSelection,
       RefuseUnrouted, Acquire, AbandonQueue, RefuseUnkeyed, SendCall, SkipCall,
       Fail, RetryAfterBackoff, AbandonBackoff, ReportFailure, CloseUpstream,
       Release, Leave, Exit, Locked, ConsiderProvider, FallBack, Accept,
       Account, Await, Deliver, Respond, LoseCall, DrainForRetry,
       CopyUpstreamError, RefuseUpstreamError, FinishWrite, CompleteStream,
       CutStream, ReturnResponse, RefuseResponse

\* The part of the state RequestOK(q) is about.
Same(q) ==
  /\ pc'[q] = pc[q] /\ clients'[q] = clients[q] /\ idx'[q] = idx[q]
  /\ attempt'[q] = attempt[q] /\ sent'[q] = sent[q] /\ open'[q] = open[q]
  /\ answer'[q] = answer[q] /\ call'[q] = call[q]

LEMMA SameKeeps ==
  ASSUME NEW q \in Requests, Same(q), RequestOK(q)
  PROVE  RequestOK(q)'
BY DEF Same, RequestOK, HoldsConnection, WalksCandidates, SendsNothing, Walked,
       Turn, Preceding, Pending, LastCall, Kind

\* A handler leaves the other requests alone.
LEMMA OthersSame ==
  ASSUME IInv, NEW r \in Requests, Handler(r), NEW q \in Requests, q # r
  PROVE  Same(q)
<1> USE DEF IInv, TypeOK, ControlOK, ChainOK, CallsOK, ReplyOK, chain, calls,
            reply, Goto, Reply, Fail
<1>1. call'[q] = call[q]
  BY ClientsKept DEF client
<1>2. CASE Receive(r)
  BY <1>1, <1>2 DEF Same, Receive, Arrive, RefuseUnauthorized, ReadRequest,
     RefuseUnreadable, RefuseMalformed
<1>3. CASE Proceed(r)
  BY <1>1, <1>3 DEF Same, Proceed, FinishSelection, RefuseUnrouted, Acquire,
     AbandonQueue, RefuseUnkeyed, SendCall, SkipCall, RetryAfterBackoff,
     AbandonBackoff, ReportFailure, CloseUpstream, Release, Leave, Exit
<1>4. CASE Locked(r)
  BY <1>1, <1>4 DEF Same, Locked, ConsiderProvider, FallBack, Accept, Account
<1>5. CASE Await(r) \/ Deliver(r)
  BY <1>1, <1>5 DEF Same, Await, Deliver, Respond, LoseCall, DrainForRetry,
     CopyUpstreamError, RefuseUpstreamError, FinishWrite, CompleteStream,
     CutStream, ReturnResponse, RefuseResponse
<1> QED BY <1>2, <1>3, <1>4, <1>5 DEF Handler

\* Steps that leave calls and candidates alone keep the walk.
LEMMA WalkKept ==
  ASSUME NEW r \in Requests, Walked(r), sent'[r] = sent[r],
         clients'[r] = clients[r], call'[r] = call[r]
  PROVE  Walked(r)'
BY DEF Walked, Turn, Kind

LEMMA SentType ==
  ASSUME IInv, NEW r \in Requests
  PROVE  /\ sent[r] \in Seq(CallRecords) /\ Len(sent[r]) \in Nat
         /\ idx[r] \in Nat \ {0} /\ attempt[r] \in 1 .. 2
         /\ clients[r] \in Seq(Providers)
BY DEF IInv, TypeOK, CallsOK, ChainOK

\* The call after those that precede an attempt is one at the candidate tried.
LEMMA TurnOfAttempt ==
  ASSUME IInv, NEW r \in Requests, NEW n \in Nat, n = Preceding(r) + 1,
         Kind(r) = "stream" => attempt[r] = 1
  PROVE  Turn(r, n) = idx[r]
<1>1. idx[r] \in Nat \ {0} /\ attempt[r] \in 1 .. 2
  BY SentType
<1>2. CASE Kind(r) = "stream"
  BY <1>1, <1>2 DEF Turn, Preceding
<1>3. CASE Kind(r) # "stream"
  <2>1. Turn(r, n) = (2 * idx[r] + attempt[r] - 1) \div 2
    BY <1>1, <1>3 DEF Turn, Preceding
  <2> QED BY <1>1, <2>1
<1> QED BY <1>2, <1>3

\* Up to the queue nothing is sent, so whatever selection chooses is walked.
LEMMA BeforeAdmission ==
  ASSUME RequestInv, NEW r \in Requests,
         \/ Receive(r) \/ ConsiderProvider(r) \/ FinishSelection(r)
         \/ RefuseUnrouted(r) \/ AbandonQueue(r) \/ Acquire(r)
  PROVE  RequestOK(r)'
<1> USE DEF RequestInv, RequestOK, IInv, TypeOK, ControlOK, ReplyOK, chain,
            calls, reply, At, Goto, Reply
<1>1. /\ pc[r] \in {"idle", "body", "select", "queue"}
      /\ sent[r] = <<>> /\ sent' = sent /\ open' = open
      /\ idx' = idx /\ attempt' = attempt /\ call' = call
  BY ClientsKept DEF Receive, Arrive, RefuseUnauthorized, ReadRequest,
     RefuseUnreadable, RefuseMalformed, ConsiderProvider, FinishSelection,
     RefuseUnrouted, AbandonQueue, Acquire, HoldsConnection, Handler, Proceed,
     Locked, client
<1>2. /\ pc'[r] \in {"body", "select", "queue", "attempt", "leave", "exit"}
      /\ answer[r] = "none"
      /\ pc'[r] \in {"body", "select", "queue", "attempt"} => answer'[r] = "none"
  BY DEF Receive, Arrive, RefuseUnauthorized, ReadRequest,
     RefuseUnreadable, RefuseMalformed, ConsiderProvider, FinishSelection,
     RefuseUnrouted, AbandonQueue, Acquire, SendsNothing
<1>3. idx[r] = 1 /\ attempt[r] = 1 /\ ~open[r]
  BY <1>1 DEF WalksCandidates, HoldsConnection, WithBody
<1>4. HoldsConnection(r)' /\ SendsNothing(r)'
  BY <1>1, <1>2, <1>3 DEF HoldsConnection, SendsNothing, Pending, WithBody
<1>5. WalksCandidates(r)'
  BY <1>1, <1>2, <1>3 DEF WalksCandidates, Walked, Preceding, Kind
<1> QED BY <1>4, <1>5

\* What appending leaves and adds.
LEMMA Appended ==
  ASSUME NEW S, NEW s \in Seq(S), NEW e \in S
  PROVE  /\ Len(Append(s, e)) = Len(s) + 1
         /\ Append(s, e)[Len(s) + 1] = e
         /\ \A i \in 1 .. Len(s) : Append(s, e)[i] = s[i]
         /\ Append(s, e) # <<>>
OBVIOUS

\* A call is made at the candidate under the cursor, after as many calls as the
\* cursor and the attempt stand for.
LEMMA Sending ==
  ASSUME RequestInv, NEW r \in Requests, SendCall(r)
  PROVE  RequestOK(r)'
<1> USE DEF RequestInv, RequestOK, At, Goto
<1> DEFINE e == Call(r, "pending")
           s == sent[r]
           t == sent'[r]
<1>1. /\ pc[r] = "attempt" /\ pc'[r] = "inflight"
      /\ t = Append(s, e) /\ open' = open /\ answer' = answer
      /\ idx' = idx /\ attempt' = attempt /\ clients' = clients /\ call' = call
  BY ClientsKept DEF SendCall, IInv, TypeOK, ControlOK, CallsOK, chain, reply,
     Handler, Proceed, client
<1>2. e \in CallRecords /\ e.to = Candidate(r) /\ e.out = "pending"
  BY <1>1, CallType DEF Admitted, Outcomes, Call
<1>3. /\ Len(t) = Len(s) + 1 /\ t[Len(t)] = e
      /\ \A i \in 1 .. Len(s) : t[i] = s[i]
      /\ t # <<>>
  <2>1. s \in Seq(CallRecords) /\ e \in CallRecords /\ t = Append(s, e)
    BY <1>1, <1>2, SentType
  <2> HIDE DEF e, s, t
  <2> QED BY ONLY <2>1, Appended
<1>4. Len(s) = Preceding(r) /\ (s # <<>> => s[Len(s)].out = "retry")
  BY <1>1 DEF WalksCandidates, LastCall
<1>5. Turn(r, Len(t)) = idx[r] /\ idx[r] \in 1 .. Len(clients[r])
  BY <1>1, <1>3, <1>4, SentType, TurnOfAttempt DEF WalksCandidates, IInv,
     Cursor, Admitted
<1>6. Walked(r)'
  <2> SUFFICES ASSUME NEW i \in 1 .. Len(t)
               PROVE  /\ Turn(r, i) <= Len(clients[r])
                      /\ t[i].to = clients[r][Turn(r, i)]
                      /\ i < Len(t) => t[i].out = "retry"
    BY <1>1 DEF Walked, Turn, Kind
  <2>1. CASE i = Len(t)
    BY <2>1, <1>2, <1>3, <1>5, SentType DEF Candidate
  <2>2. CASE i \in 1 .. Len(s)
    <3>1. /\ Turn(r, i) <= Len(clients[r])
          /\ s[i].to = clients[r][Turn(r, i)]
          /\ i < Len(s) => s[i].out = "retry"
      BY <2>2 DEF WalksCandidates, Walked
    <3>2. i = Len(s) => s[i].out = "retry"
      BY <1>4, <2>2, SentType
    <3> QED BY <2>2, <3>1, <3>2, <1>3, SentType
  <2> QED BY <2>1, <2>2, <1>3, SentType
<1>7. HoldsConnection(r)' /\ SendsNothing(r)'
  BY <1>1, <1>3 DEF HoldsConnection, SendsNothing, WithBody
<1>8. WalksCandidates(r)'
  BY <1>1, <1>3, <1>4, <1>6 DEF WalksCandidates, Preceding, Kind
<1> QED BY <1>7, <1>8

\* An answer, or the loss of one, only settles what the last call came to.
LEMMA Settling ==
  ASSUME RequestInv, NEW r \in Requests, NEW out \in Outcomes,
         pc[r] = "inflight", sent' = [sent EXCEPT ![r][Len(sent[r])] = Call(r, out)],
         UNCHANGED <<chain, client>>
  PROVE  /\ Walked(r)' /\ LastCall(r)'.out = out
         /\ Len(sent'[r]) = Len(sent[r]) /\ sent'[r] # <<>>
<1> USE DEF RequestInv, RequestOK
<1> DEFINE e == Call(r, out)
           s == sent[r]
           t == sent'[r]
<1>1. s \in Seq(CallRecords) /\ s # <<>> /\ Len(s) \in Nat \ {0}
  BY SentType DEF HoldsConnection
<1>2. e \in CallRecords /\ e.to = Candidate(r) /\ e.out = out
  BY CallType DEF Admitted, Call
<1>3. t = [s EXCEPT ![Len(s)] = e]
  BY DEF IInv, TypeOK, CallsOK
<1>4. /\ Len(t) = Len(s) /\ t # <<>> /\ t[Len(t)] = e
      /\ \A i \in 1 .. Len(s) : i # Len(s) => t[i] = s[i]
  BY <1>1, <1>2, <1>3
<1>5. Turn(r, Len(s)) = idx[r] /\ idx[r] \in 1 .. Len(clients[r])
  BY <1>1, TurnOfAttempt DEF WalksCandidates, IInv, Cursor, Admitted
<1>6. Walked(r)'
  <2> SUFFICES ASSUME NEW i \in 1 .. Len(s)
               PROVE  /\ Turn(r, i) <= Len(clients[r])
                      /\ t[i].to = clients[r][Turn(r, i)]
                      /\ i < Len(s) => t[i].out = "retry"
    BY <1>4 DEF Walked, Turn, Kind, chain, client
  <2>1. CASE i = Len(s)
    BY <2>1, <1>1, <1>2, <1>4, <1>5 DEF Candidate
  <2>2. CASE i # Len(s)
    BY <2>2, <1>1, <1>4 DEF WalksCandidates, Walked
  <2> QED BY <2>1, <2>2
<1> QED BY <1>2, <1>4, <1>6 DEF LastCall

LEMMA Answering ==
  ASSUME RequestInv, NEW r \in Requests,
         LoseCall(r) \/ \E status \in Statuses : Respond(r, status)
  PROVE  RequestOK(r)'
<1> USE DEF RequestInv, RequestOK, At, Goto
<1>1. PICK out \in Statuses \union {"lost"} :
        /\ pc[r] = "inflight"
        /\ sent' = [sent EXCEPT ![r][Len(sent[r])] = Call(r, out)]
        /\ UNCHANGED <<chain, answer>>
        /\ pc' = [pc EXCEPT ![r] = IF out = "lost" THEN "failed"
                                   ELSE IF Replays(r, out) THEN "drain"
                                   ELSE "judge"]
        /\ open' = IF out = "lost" THEN open ELSE [open EXCEPT ![r] = TRUE]
  BY DEF LoseCall, Respond, Statuses, reply
<1>2. UNCHANGED client
  BY ClientsKept DEF Handler, Await, Deliver
<1>3. out \in Outcomes /\ out # "pending"
  BY DEF Outcomes, Statuses
<1>4. /\ Walked(r)' /\ LastCall(r)'.out = out
      /\ Len(sent'[r]) = Len(sent[r]) /\ sent'[r] # <<>>
  BY ONLY <1>1, <1>2, <1>3, Settling, RequestInv, r \in Requests
<1>5. pc'[r] = IF out = "lost" THEN "failed"
               ELSE IF Replays(r, out) THEN "drain" ELSE "judge"
  BY <1>1 DEF IInv, TypeOK, ControlOK
<1>6. HoldsConnection(r)'
  <2>1. ~Pending(r)'
    BY <1>3, <1>4 DEF Pending
  <2>2. open'[r] => pc'[r] \in WithBody
    BY <1>1, <1>5 DEF WithBody, Statuses, HoldsConnection
  <2> QED BY <1>4, <1>5, <2>1, <2>2 DEF HoldsConnection
<1>7. SendsNothing(r)'
  BY <1>1, <1>5 DEF SendsNothing
<1>8. WalksCandidates(r)'
  <2>1. /\ Kind(r)' = Kind(r) /\ idx' = idx /\ attempt' = attempt
        /\ Preceding(r)' = Preceding(r)
    BY <1>1, <1>2 DEF chain, client, Kind, Preceding
  <2>2. attempt[r] \in 1 .. 2
    BY SentType
  <2>3. /\ Kind(r) = "stream" => attempt[r] = 1
        /\ Len(sent[r]) = Preceding(r) + 1
    BY <1>1 DEF WalksCandidates
  <2> QED BY <1>4, <1>5, <2>1, <2>2, <2>3 DEF WalksCandidates, Replays
<1> QED BY <1>6, <1>7, <1>8

\* Giving up, draining and waiting keep the walk, and the next attempt starts
\* with nothing open.
LEMMA Repeating ==
  ASSUME RequestInv, NEW r \in Requests,
         \/ RefuseUnkeyed(r) \/ SkipCall(r) \/ AbandonBackoff(r)
         \/ DrainForRetry(r) \/ RetryAfterBackoff(r)
  PROVE  RequestOK(r)'
<1> USE DEF RequestInv, RequestOK, At, Goto
<1>1. /\ sent' = sent /\ clients' = clients /\ idx' = idx /\ answer' = answer
      /\ call' = call
  BY ClientsKept DEF RefuseUnkeyed, SkipCall, AbandonBackoff, Fail,
     DrainForRetry, RetryAfterBackoff, calls, chain, reply, client, Handler,
     Proceed, Await, Deliver
<1>2. Walked(r)'
  BY <1>1, WalkKept DEF WalksCandidates
<1>3. CASE RefuseUnkeyed(r) \/ SkipCall(r) \/ AbandonBackoff(r)
  <2>1. /\ pc[r] \in {"attempt", "backoff"} /\ pc'[r] = "failed"
        /\ open' = open /\ attempt' = attempt
    BY <1>3 DEF RefuseUnkeyed, SkipCall, AbandonBackoff, Fail, chain, IInv,
       TypeOK, ControlOK
  <2> QED
    BY <1>1, <1>2, <2>1 DEF HoldsConnection, WalksCandidates, SendsNothing,
       Pending, LastCall, WithBody, Kind
<1>4. CASE DrainForRetry(r)
  <2>1. /\ pc[r] = "drain" /\ pc'[r] = "backoff"
        /\ ~open'[r] /\ attempt' = attempt
    BY <1>4 DEF DrainForRetry, chain, IInv, TypeOK, ControlOK, CallsOK
  <2> QED
    BY <1>1, <1>2, <2>1 DEF HoldsConnection, WalksCandidates, SendsNothing,
       Pending, LastCall, WithBody, Kind, Preceding
<1>5. CASE RetryAfterBackoff(r)
  <2>1. /\ pc[r] = "backoff" /\ pc'[r] = "attempt" /\ attempt'[r] = 2
        /\ open' = open
    BY <1>5 DEF RetryAfterBackoff, calls, IInv, TypeOK, ControlOK, ChainOK
  <2>2. /\ Len(sent[r]) = Preceding(r) + 1 /\ attempt[r] = 1
        /\ Kind(r) # "stream" /\ LastCall(r).out = "retry" /\ ~open[r]
    BY <2>1 DEF WalksCandidates, HoldsConnection, WithBody
  <2>3. Preceding(r)' = Preceding(r) + 1
    BY <1>1, <2>1, <2>2, SentType DEF Preceding, Kind
  <2> QED
    BY <1>1, <1>2, <2>1, <2>2, <2>3 DEF HoldsConnection, WalksCandidates,
       SendsNothing, Pending, LastCall, WithBody, Kind
<1> QED BY <1>3, <1>4, <1>5

\* Only the last attempt at a candidate makes way for the next one.
LEMMA FallingBack ==
  ASSUME RequestInv, NEW r \in Requests, FallBack(r)
  PROVE  RequestOK(r)'
<1> USE DEF RequestInv, RequestOK, At, Goto
<1>1. /\ sent' = sent /\ clients' = clients /\ answer' = answer /\ call' = call
      /\ pc[r] = "judge" /\ pc'[r] = "attempt" /\ ~open'[r]
      /\ idx'[r] = idx[r] + 1 /\ attempt'[r] = 1
      /\ LastCall(r).out = "retry"
  BY ClientsKept DEF FallBack, reply, client, Handler, Locked, Advances, IInv,
     TypeOK, ControlOK, ChainOK, CallsOK
<1>2. Walked(r)'
  BY <1>1, WalkKept DEF WalksCandidates
<1>3. /\ Len(sent[r]) = Preceding(r) + 1
      /\ attempt[r] = 2 \/ Kind(r) = "stream"
  BY <1>1 DEF WalksCandidates
<1>4. Preceding(r)' = Preceding(r) + 1
  BY <1>1, <1>3, SentType DEF Preceding, Kind
<1> QED
  BY <1>1, <1>2, <1>3, <1>4 DEF HoldsConnection, WalksCandidates, SendsNothing,
     Pending, LastCall, WithBody, Kind

\* From the answer that ends the loop on, calls are history.
LEMMA Finishing ==
  ASSUME RequestInv, NEW r \in Requests,
         \/ Accept(r) \/ Account(r) \/ CopyUpstreamError(r)
         \/ RefuseUpstreamError(r) \/ FinishWrite(r)
         \/ CompleteStream(r) \/ CutStream(r) \/ ReturnResponse(r)
         \/ RefuseResponse(r) \/ ReportFailure(r) \/ CloseUpstream(r)
         \/ Release(r) \/ Leave(r) \/ Exit(r)
  PROVE  RequestOK(r)'
<1> USE DEF RequestInv, RequestOK, At, Goto
<1>1. /\ sent' = sent /\ clients' = clients /\ idx' = idx
      /\ attempt' = attempt /\ call' = call
  BY ClientsKept DEF Accept, Account, CopyUpstreamError, RefuseUpstreamError,
     FinishWrite, CompleteStream, CutStream, ReturnResponse, RefuseResponse,
     ReportFailure, CloseUpstream, Release, Leave, Exit, calls, chain, client,
     Handler, Proceed, Await, Deliver, Locked
<1>2. Walked(r)'
  BY <1>1, WalkKept DEF WalksCandidates
<1>3. /\ pc'[r] \in {"account", "errorbody", "relay", "read", "write", "unwind",
                     "release", "leave", "exit", "done"}
      /\ pc[r] \in (WithBody \ {"drain"}) \union {"failed", "release", "leave", "exit"}
      /\ pc'[r] \in WithBody => pc[r] \in WithBody
      /\ pc'[r] = "account" => pc[r] = "judge" /\ answer' = answer
  BY DEF Accept, Account, CopyUpstreamError, RefuseUpstreamError, FinishWrite,
     CompleteStream, CutStream, ReturnResponse, RefuseResponse, ReportFailure,
     CloseUpstream, Release, Leave, Exit, reply, WithBody, IInv, TypeOK,
     ControlOK
<1>4. open'[r] => open[r] /\ pc'[r] \in WithBody
  BY DEF Accept, Account, CopyUpstreamError, RefuseUpstreamError, FinishWrite,
     CompleteStream, CutStream, ReturnResponse, RefuseResponse, ReportFailure,
     CloseUpstream, Release, Leave, Exit, calls, WithBody, IInv, TypeOK,
     ControlOK, CallsOK, HoldsConnection
<1>5. HoldsConnection(r)'
  BY <1>1, <1>3, <1>4 DEF HoldsConnection, Pending, LastCall, WithBody
<1>6. WalksCandidates(r)' /\ SendsNothing(r)'
  BY <1>1, <1>2, <1>3 DEF WalksCandidates, SendsNothing, Kind
<1> QED BY <1>5, <1>6

-----------------------------------------------------------------------------
LEMMA OwnStep ==
  ASSUME RequestInv, NEW r \in Requests, Handler(r)
  PROVE  RequestOK(r)'
BY BeforeAdmission, Sending, Answering, Repeating, FallingBack, Finishing
   DEF Handler, Receive, Proceed, Locked, Await, Deliver

LEMMA RequestInit == Init => \A r \in Requests : RequestOK(r)
BY DEF Init, RequestOK, HoldsConnection, WalksCandidates, SendsNothing, Walked,
       Pending, WithBody

LEMMA RequestStep ==
  ASSUME RequestInv, [Next]_vars, NEW q \in Requests
  PROVE  RequestOK(q)'
<1>1. ASSUME NEW r \in Requests, Handler(r) PROVE RequestOK(q)'
  BY <1>1, OwnStep, OthersSame, SameKeeps DEF RequestInv
<1>2. Environment \/ UNCHANGED vars => Same(q)
  BY DEF Environment, ClientDisconnects, DeadlineExpires, CooldownEnds,
     BeginScrape, EndScrape, vars, chain, calls, reply, client, Same
<1> QED BY <1>1, <1>2, SameKeeps DEF Next, Finished, RequestInv

LEMMA RequestInvariant == Spec => []RequestInv
<1>1. ASSUME RequestInv, [Next]_vars
      PROVE  (\A r \in Requests : RequestOK(r))'
  BY <1>1, RequestStep
<1>2. (\A r \in Requests : RequestOK(r)) /\ IInv <=> RequestInv
  BY DEF RequestInv
<1> QED BY <1>1, <1>2, RequestInit, InductiveInvariant, PTL DEF Spec

\* At most one call or body per handler, and none without its token: the
\* bulkheads bound the upstream connections, whatever was retried or interrupted.
THEOREM ConnectionsAreBounded == Spec => []ConnectionsHeldUnderSlots
<1>1. RequestInv => ConnectionsHeldUnderSlots
  BY DEF RequestInv, RequestOK, HoldsConnection, Pending, WithBody,
     ConnectionsHeldUnderSlots, Admitted
<1> QED BY <1>1, RequestInvariant, PTL

\* Nothing is sent again unless the provider answered 429 or 5xx, and then in
\* the order of the candidates, once more each at most, streams never.
THEOREM OnlyJustifiedRepetitions == Spec => []RepetitionsAreJustified
<1>1. ASSUME RequestInv PROVE RepetitionsAreJustified
  <2>1. \A r \in Requests : DOMAIN sent[r] = 1 .. Len(sent[r])
    BY <1>1, SentType DEF RequestInv
  <2> QED
    BY <1>1, <2>1 DEF RequestInv, RequestOK, WalksCandidates, Walked, Turn,
       RepetitionsAreJustified
<1> QED BY <1>1, RequestInvariant, PTL

\* No call starts once the client was sent something, has gone or has run out
\* of time, or while an earlier response is still open.
THEOREM CallsAreClean == Spec => CallsStartClean
<1>1. ASSUME RequestInv, [Next]_vars, NEW q \in Requests,
             Len(sent'[q]) > Len(sent[q])
      PROVE  answer[q] = "none" /\ ~open[q] /\ ~CtxDone(q)
  <2>1. ASSUME NEW r \in Requests, Handler(r), r # q PROVE FALSE
    BY <1>1, <2>1, OthersSame, SentType DEF RequestInv, Same
  <2>2. ~(Environment \/ UNCHANGED vars)
    BY <1>1, SentType DEF Environment, ClientDisconnects, DeadlineExpires,
       CooldownEnds, BeginScrape, EndScrape, vars, calls, RequestInv
  <2>3. Handler(q)
    BY <1>1, <2>1, <2>2 DEF Next, Finished
  <2>4. CASE SendCall(q)
    BY <1>1, <2>4 DEF SendCall, At, RequestInv, RequestOK, SendsNothing,
       HoldsConnection, WithBody
  <2>5. CASE LoseCall(q) \/ \E status \in Statuses : Respond(q, status)
    <3>1. PICK out \in Outcomes :
            /\ pc[q] = "inflight"
            /\ sent' = [sent EXCEPT ![q][Len(sent[q])] = Call(q, out)]
            /\ UNCHANGED <<chain, client>>
      BY <2>5 DEF LoseCall, Respond, Outcomes, At
    <3>2. Len(sent'[q]) = Len(sent[q])
      BY ONLY <1>1, <3>1, Settling, q \in Requests
    <3> QED BY <1>1, <3>2, SentType DEF RequestInv
  <2>6. CASE ~SendCall(q) /\ ~LoseCall(q)
             /\ ~ \E status \in Statuses : Respond(q, status)
    <3>1. sent' = sent
      BY <2>3, <2>6 DEF Handler, Receive, Arrive, RefuseUnauthorized,
         ReadRequest, RefuseUnreadable, RefuseMalformed, Proceed,
         FinishSelection, RefuseUnrouted, Acquire, AbandonQueue, RefuseUnkeyed,
         SkipCall, Fail, RetryAfterBackoff, AbandonBackoff, ReportFailure,
         CloseUpstream, Release, Leave, Exit, Locked, ConsiderProvider,
         FallBack, Accept, Account, Await, Deliver, DrainForRetry,
         CopyUpstreamError, RefuseUpstreamError, FinishWrite, CompleteStream,
         CutStream, ReturnResponse, RefuseResponse, calls
    <3> QED BY <1>1, <3>1, SentType DEF RequestInv
  <2> QED BY <2>4, <2>5, <2>6
<1>2. RequestInv /\ [Next]_vars => [\A r \in Requests :
         Len(sent'[r]) > Len(sent[r]) =>
           /\ answer[r] = "none"
           /\ ~open[r]
           /\ ~CtxDone(r)]_vars
  BY <1>1
<1> QED BY <1>2, RequestInvariant, PTL DEF Spec, CallsStartClean

-----------------------------------------------------------------------------
\* Failures and cooldowns.  The strikes against a provider grow by one with
\* each failure that is counted and never shrink.
StrikeInv ==
  \A p \in Providers :
    /\ IsFiniteSet(Strikes(p))
    /\ providerFailures[p] + (IF p \in cooling THEN FailureThreshold ELSE 0)
         <= Cardinality(Strikes(p))

LEMMA OneMore ==
  ASSUME NEW S, NEW T, NEW e, IsFiniteSet(S), e \notin S, T = S \union {e}
  PROVE  /\ IsFiniteSet(T)
         /\ Cardinality(T) = Cardinality(S) + 1
         /\ Cardinality(S) \in Nat
BY FS_AddElement, FS_CardinalityType

LEMMA StrikeMembers ==
  ASSUME NEW p
  PROVE  /\ \A x : x \in Strikes(p) <=>
              \E r \in Requests : \E i \in 1 .. idx[r] - 1 :
                 x = <<r, i>> /\ clients[r][i] = p
         /\ \A x : x \in Strikes(p)' <=>
              \E r \in Requests : \E i \in 1 .. idx'[r] - 1 :
                 x = <<r, i>> /\ clients'[r][i] = p
BY DEF Strikes

\* A list may change only while its cursor is at its first candidate.
LEMMA StrikesKept ==
  ASSUME IInv, NEW p, idx' = idx,
         \A r \in Requests : idx[r] = 1 \/ clients'[r] = clients[r]
  PROVE  Strikes(p)' = Strikes(p)
<1>1. \A r \in Requests : \A i \in 1 .. idx[r] - 1 : clients'[r] = clients[r]
  BY DEF IInv, TypeOK, ChainOK
<1>2. \A q \in Requests :
        {i \in 1 .. idx'[q] - 1 : clients'[q][i] = p}
          = {i \in 1 .. idx[q] - 1 : clients[q][i] = p}
  BY <1>1
<1> QED BY <1>2 DEF Strikes

LEMMA StrikeAdded ==
  ASSUME IInv, NEW r \in Requests, FallBack(r), NEW p
  PROVE  /\ <<r, idx[r]>> \notin Strikes(p)
         /\ Strikes(p)' = IF p = Candidate(r) THEN Strikes(p) \union {<<r, idx[r]>>}
                                              ELSE Strikes(p)
<1>1. /\ clients' = clients
      /\ idx' = [idx EXCEPT ![r] = idx[r] + 1]
      /\ idx \in [Requests -> Nat \ {0}]
  BY DEF FallBack, IInv, TypeOK, ChainOK
<1>2. <<r, idx[r]>> \notin Strikes(p)
  BY <1>1, StrikeMembers
<1>3. \A q \in Requests, i \in Nat :
        i \in 1 .. idx'[q] - 1 <=> i \in 1 .. idx[q] - 1 \/ (q = r /\ i = idx[r])
  BY <1>1
<1>4. \A x : x \in Strikes(p)' <=>
        x \in Strikes(p) \/ (x = <<r, idx[r]>> /\ Candidate(r) = p)
  BY <1>1, <1>3, StrikeMembers DEF Candidate
<1> QED BY <1>2, <1>4

LEMMA StrikeStep ==
  ASSUME IInv, StrikeInv, [Next]_vars
  PROVE  StrikeInv'
<1> USE DEF IInv, TypeOK, SharedOK, HealthTypeOK, StrikeInv, FailureThreshold
<1>1. ASSUME UNCHANGED health, idx' = idx,
             \A r \in Requests : idx[r] = 1 \/ clients'[r] = clients[r]
      PROVE  StrikeInv'
  BY <1>1, StrikesKept DEF health
<1>2. ASSUME NEW r \in Requests, FallBack(r) PROVE StrikeInv'
  <2> SUFFICES ASSUME NEW p \in Providers
               PROVE  /\ IsFiniteSet(Strikes(p)')
                      /\ providerFailures'[p] + (IF p \in cooling' THEN 2 ELSE 0)
                           <= Cardinality(Strikes(p)')
    OBVIOUS
  <2>1. MarkProviderFailure(Candidate(r))
    BY <1>2 DEF FallBack
  <2>2. CASE p = Candidate(r)
    <3>1. /\ IsFiniteSet(Strikes(p)')
          /\ Cardinality(Strikes(p)') = Cardinality(Strikes(p)) + 1
          /\ Cardinality(Strikes(p)) \in Nat
      <4>1. IsFiniteSet(Strikes(p))
        OBVIOUS
      <4>2. /\ Strikes(p)' = Strikes(p) \union {<<r, idx[r]>>}
            /\ <<r, idx[r]>> \notin Strikes(p)
        BY <1>2, <2>2, StrikeAdded
      <4> QED BY <4>1, <4>2, OneMore
    <3>2. providerFailures'[p] + (IF p \in cooling' THEN 2 ELSE 0) <=
            providerFailures[p] + (IF p \in cooling THEN 2 ELSE 0) + 1
      BY <2>1, <2>2 DEF MarkProviderFailure
    <3>3. /\ providerFailures[p] \in Nat
          /\ providerFailures[p] + (IF p \in cooling THEN 2 ELSE 0)
               <= Cardinality(Strikes(p))
      OBVIOUS
    <3>4. providerFailures'[p] \in Nat
      BY <2>1, <2>2 DEF MarkProviderFailure
    <3> QED BY <3>1, <3>2, <3>3, <3>4
  <2>3. CASE p # Candidate(r)
    BY <1>2, <2>1, <2>3, StrikeAdded DEF MarkProviderFailure
  <2> QED BY <2>2, <2>3
<1>3. ASSUME cooling' \subseteq cooling, idx' = idx, clients' = clients,
             \A p \in Providers : providerFailures'[p] \in {0, providerFailures[p]}
      PROVE  StrikeInv'
  <2> SUFFICES ASSUME NEW p \in Providers
               PROVE  /\ IsFiniteSet(Strikes(p)')
                      /\ providerFailures'[p] + (IF p \in cooling' THEN 2 ELSE 0)
                           <= Cardinality(Strikes(p)')
    OBVIOUS
  <2>1. Strikes(p)' = Strikes(p)
    BY <1>3, StrikesKept
  <2>2. /\ IsFiniteSet(Strikes(p)) /\ Cardinality(Strikes(p)) \in Nat
        /\ providerFailures[p] + (IF p \in cooling THEN 2 ELSE 0)
             <= Cardinality(Strikes(p))
        /\ providerFailures[p] \in Nat
    BY FS_CardinalityType
  <2> QED BY <1>3, <2>1, <2>2
<1>4. ASSUME NEW r \in Requests, Accept(r) PROVE StrikeInv'
  <2>1. idx' = idx /\ clients' = clients
    BY <1>4 DEF Accept, chain
  <2>2. Candidate(r) \in Providers
    BY <1>4, CandidateType DEF Accept, At, Admitted
  <2>3. /\ cooling' \subseteq cooling
        /\ \A p \in Providers : providerFailures'[p] \in {0, providerFailures[p]}
    BY <1>4, <2>2 DEF Accept, MarkProviderSuccess, health
  <2> QED BY <1>3, <2>1, <2>3
<1>5. ASSUME NEW r \in Requests, ConsiderProvider(r) \/ FinishSelection(r)
      PROVE  StrikeInv'
  <2>1. /\ UNCHANGED <<health, idx>> /\ pc[r] = "select"
        /\ \A q \in Requests : q # r => clients'[q] = clients[q]
    BY <1>5 DEF ConsiderProvider, FinishSelection, shared, At, ChainOK
  <2>2. idx[r] = 1
    BY <2>1 DEF Cursor
  <2> QED BY <1>1, <2>1, <2>2
<1>6. ASSUME NEW r \in Requests, Handler(r), ~FallBack(r), ~Accept(r),
             ~ConsiderProvider(r), ~FinishSelection(r)
      PROVE  UNCHANGED <<health, idx, clients>>
  BY <1>6 DEF Handler, Receive, Arrive, RefuseUnauthorized, ReadRequest,
     RefuseUnreadable, RefuseMalformed, Proceed, RefuseUnrouted, Acquire,
     AbandonQueue, RefuseUnkeyed, SendCall, SkipCall, Fail, RetryAfterBackoff,
     AbandonBackoff, ReportFailure, CloseUpstream, Release, Leave, Exit, Locked,
     Account, Await, Deliver, Respond, LoseCall, DrainForRetry,
     CopyUpstreamError, RefuseUpstreamError, FinishWrite, CompleteStream,
     CutStream, ReturnResponse, RefuseResponse, chain, shared
<1>7. ASSUME NEW p \in Providers, CooldownEnds(p) PROVE StrikeInv'
  <2>1. /\ cooling' \subseteq cooling /\ idx' = idx /\ clients' = clients
        /\ providerFailures' = providerFailures
    BY <1>7 DEF CooldownEnds, CooldownElapses, chain
  <2> QED BY <1>3, <2>1
<1>8. ASSUME Environment, ~ \E p \in Providers : CooldownEnds(p)
      PROVE  UNCHANGED <<health, idx, clients>>
  BY <1>8 DEF Environment, ClientDisconnects, DeadlineExpires, BeginScrape,
     EndScrape, chain, shared
<1>9. UNCHANGED vars => UNCHANGED <<health, idx, clients>>
  BY DEF vars, chain, shared
<1> QED
  BY <1>1, <1>2, <1>4, <1>5, <1>6, <1>7, <1>8, <1>9 DEF Next, Finished

\* Every failure on a provider's count, and the two behind its cooldown, are
\* occasions on which some request turned away from it.
THEOREM CooldownsEarned == Spec => []CooldownsAreEarned
<1>1. Init => StrikeInv
  <2> SUFFICES ASSUME Init, NEW p \in Providers
               PROVE  /\ IsFiniteSet(Strikes(p))
                      /\ providerFailures[p]
                           + (IF p \in cooling THEN FailureThreshold ELSE 0)
                           <= Cardinality(Strikes(p))
    BY DEF StrikeInv
  <2>1. Strikes(p) = {}
    BY StrikeMembers DEF Init
  <2> QED BY <2>1, FS_EmptySet DEF Init, HealthInit
<1>2. StrikeInv => CooldownsAreEarned
  BY DEF StrikeInv, CooldownsAreEarned
<1> QED BY <1>1, <1>2, StrikeStep, InductiveInvariant, PTL DEF Spec

-----------------------------------------------------------------------------
\* Selection.  The candidates are listings of the route before the one that is
\* looked at next, in their order.
Lists(listing, r) ==
  /\ listing \in [1 .. Len(clients[r]) -> 1 .. Len(Path(r))]
  /\ \A i \in 1 .. Len(clients[r]) :
       /\ clients[r][i] = Path(r)[listing[i]]
       /\ listing[i] < pos[r]
       /\ \A j \in 1 .. i - 1 : listing[j] < listing[i]

Selected(r) ==
  /\ \E listing : Lists(listing, r)
  /\ answer[r] = "unrouted" => Path(r) = <<>>

SelectionInv == \A r \in Requests : Selected(r)

LEMMA SelectedKept ==
  ASSUME NEW r \in Requests, Selected(r), clients'[r] = clients[r],
         pos'[r] = pos[r], call'[r] = call[r],
         answer'[r] = answer[r] \/ answer'[r] # "unrouted"
  PROVE  Selected(r)'
BY DEF Selected, Lists, Path

\* A provider that is available joins the candidates at the end, listed where
\* selection has got to.
LEMMA Considering ==
  ASSUME IInv, NEW r \in Requests, Selected(r), ConsiderProvider(r)
  PROVE  Selected(r)'
<1> DEFINE s == clients[r]
           t == clients'[r]
           p == Path(r)[pos[r]]
<1>1. /\ pos[r] \in 1 .. Len(Path(r)) /\ pos'[r] = pos[r] + 1
      /\ t = IF ProviderAvailable(p) THEN Append(s, p) ELSE s
      /\ answer' = answer /\ call' = call
  BY DEF ConsiderProvider, IInv, TypeOK, ChainOK, reply, client
<1>2. /\ Path(r) \in Seq(Providers) /\ s \in Seq(Providers) /\ p \in Providers
      /\ Len(s) \in Nat /\ Path(r)' = Path(r)
  BY <1>1, PathType, SentType DEF IInv, TypeOK, Path
<1>3. PICK f : Lists(f, r)
  BY DEF Selected
<1>4. CASE ~ProviderAvailable(p)
  <2>1. Lists(f, r)'
    BY <1>1, <1>2, <1>3, <1>4 DEF Lists
  <2> QED BY <1>1, <1>2, <2>1 DEF Selected
<1>5. CASE ProviderAvailable(p)
  <2> DEFINE n == Len(s) + 1
  <2> PICK g : g = [i \in 1 .. n |-> IF i = n THEN pos[r] ELSE f[i]]
    OBVIOUS
  <2>1. /\ Len(t) = n /\ t[n] = p
        /\ \A i \in 1 .. Len(s) : t[i] = s[i]
    <3>1. t = Append(s, p)
      BY <1>1, <1>5
    <3> HIDE DEF t, s, p
    <3> QED BY ONLY <3>1, <1>2, Appended DEF n
  <2>2. \A i \in 1 .. n : i = n \/ i \in 1 .. Len(s)
    BY <1>2
  <2>3. /\ f \in [1 .. Len(s) -> 1 .. Len(Path(r))]
        /\ \A i \in 1 .. Len(s) : /\ s[i] = Path(r)[f[i]] /\ f[i] < pos[r]
                                  /\ \A j \in 1 .. i - 1 : f[j] < f[i]
    BY <1>3 DEF Lists
  <2>4. /\ g \in [1 .. n -> 1 .. Len(Path(r))]
        /\ g[n] = pos[r]
        /\ \A i \in 1 .. Len(s) : g[i] = f[i]
    BY <1>1, <1>2, <2>2, <2>3
  <2>5. \A i \in 1 .. n : /\ t[i] = Path(r)[g[i]] /\ g[i] < pos'[r]
                          /\ \A j \in 1 .. i - 1 : g[j] < g[i]
    <3> SUFFICES ASSUME NEW i \in 1 .. n
                 PROVE  /\ t[i] = Path(r)[g[i]] /\ g[i] < pos'[r]
                        /\ \A j \in 1 .. i - 1 : g[j] < g[i]
      OBVIOUS
    <3>1. CASE i = n
      <4>1. \A j \in 1 .. i - 1 : j \in 1 .. Len(s)
        BY <3>1, <1>2
      <4> HIDE DEF t, s
      <4> QED BY <3>1, <4>1, <1>1, <2>1, <2>3, <2>4
    <3>2. CASE i \in 1 .. Len(s)
      <4>1. \A j \in 1 .. i - 1 : j \in 1 .. Len(s)
        BY <3>2, <1>2
      <4> HIDE DEF t, s
      <4>2. t[i] = s[i] /\ s[i] = Path(r)[f[i]] /\ g[i] = f[i] /\ f[i] < pos[r]
        BY ONLY <3>2, <2>1, <2>3, <2>4
      <4>3. \A j \in 1 .. i - 1 : g[j] = f[j] /\ f[j] < f[i]
        BY ONLY <3>2, <4>1, <2>3, <2>4
      <4>4. f[i] \in 1 .. Len(Path(r))
        BY ONLY <3>2, <2>3
      <4>5. pos[r] \in Nat /\ pos'[r] = pos[r] + 1
        BY <1>1, <1>2
      <4> QED BY ONLY <4>2, <4>3, <4>4, <4>5
    <3> QED BY <2>2, <3>1, <3>2
  <2>6. Lists(g, r)'
    BY <1>2, <2>1, <2>4, <2>5 DEF Lists
  <2> QED BY <1>1, <1>2, <2>6 DEF Selected
<1> QED BY <1>4, <1>5

\* The primary alone is the route's first listing.
LEMMA Selecting ==
  ASSUME IInv, NEW r \in Requests, Selected(r), FinishSelection(r)
  PROVE  Selected(r)'
<1>1. /\ Path(r) # <<>> /\ pos[r] > Len(Path(r)) /\ pos' = pos
      /\ clients'[r] = IF clients[r] = <<>> THEN <<Path(r)[1]>> ELSE clients[r]
      /\ answer' = answer /\ call' = call
  BY DEF FinishSelection, IInv, TypeOK, ChainOK, reply, client
<1>2. /\ Path(r) \in Seq(Providers) /\ Len(Path(r)) \in Nat \ {0}
      /\ Path(r)' = Path(r) /\ pos[r] \in Nat
  BY <1>1, PathType DEF IInv, TypeOK, Path, ChainOK
<1>3. CASE clients[r] = <<>>
  <2> PICK g : g = [i \in 1 .. 1 |-> 1]
    OBVIOUS
  <2>1. Len(clients'[r]) = 1 /\ clients'[r][1] = Path(r)[1]
    BY <1>1, <1>3
  <2>2. /\ g \in [1 .. 1 -> 1 .. Len(Path(r))]
        /\ \A i \in 1 .. 1 : i = 1 /\ g[i] = 1 /\ 1 .. i - 1 = {}
    BY <1>2
  <2>3. 1 < pos'[r]
    BY <1>1, <1>2
  <2>4. \A i \in 1 .. 1 : /\ clients'[r][i] = Path(r)[g[i]] /\ g[i] < pos'[r]
                          /\ \A j \in 1 .. i - 1 : g[j] < g[i]
    BY <2>1, <2>2, <2>3
  <2>5. Lists(g, r)'
    BY <1>2, <2>1, <2>2, <2>4 DEF Lists
  <2> QED BY <1>1, <1>2, <2>5 DEF Selected
<1>4. CASE clients[r] # <<>>
  BY <1>1, <1>4, SelectedKept
<1> QED BY <1>3, <1>4

LEMMA SelectionStep ==
  ASSUME IInv, SelectionInv, [Next]_vars
  PROVE  SelectionInv'
<1> SUFFICES ASSUME NEW q \in Requests PROVE Selected(q)'
  BY DEF SelectionInv
<1>1. Selected(q)
  BY DEF SelectionInv
<1>2. ASSUME NEW r \in Requests, ConsiderProvider(r) \/ FinishSelection(r)
      PROVE  Selected(q)'
  <2>1. CASE q = r
    BY <1>1, <1>2, <2>1, Considering, Selecting
  <2>2. CASE q # r
    BY <1>1, <1>2, <2>2, SelectedKept
    DEF ConsiderProvider, FinishSelection, reply, client, IInv, TypeOK, ChainOK
  <2> QED BY <2>1, <2>2
<1>3. ASSUME NEW r \in Requests, Handler(r), ~ConsiderProvider(r),
             ~FinishSelection(r)
      PROVE  Selected(q)'
  <2>1. UNCHANGED <<clients, pos, call>>
    <3>1. UNCHANGED <<clients, pos>>
      BY <1>3 DEF Handler, Receive, Arrive, RefuseUnauthorized, ReadRequest,
         RefuseUnreadable, RefuseMalformed, Proceed, RefuseUnrouted, Acquire,
         AbandonQueue, RefuseUnkeyed, SendCall, SkipCall, Fail,
         RetryAfterBackoff, AbandonBackoff, ReportFailure, CloseUpstream,
         Release, Leave, Exit, Locked, FallBack, Accept, Account, Await,
         Deliver, Respond, LoseCall, DrainForRetry, CopyUpstreamError,
         RefuseUpstreamError, FinishWrite, CompleteStream, CutStream,
         ReturnResponse, RefuseResponse, chain
    <3> QED BY <1>3, <3>1, ClientsKept DEF client
  <2>2. CASE RefuseUnrouted(r)
    <3>1. Path(r) = <<>> /\ answer' = [answer EXCEPT ![r] = "unrouted"]
      BY <2>2 DEF RefuseUnrouted, Reply
    <3>2. CASE q = r
      BY <1>1, <2>1, <3>1, <3>2 DEF Selected, Lists, Path
    <3>3. CASE q # r
      BY <1>1, <2>1, <3>1, <3>3, SelectedKept DEF IInv, TypeOK, ReplyOK
    <3> QED BY <3>2, <3>3
  <2>3. CASE ~RefuseUnrouted(r)
    <3>1. answer'[q] = answer[q] \/ answer'[q] # "unrouted"
      <4>1. CASE Receive(r) \/ Proceed(r)
        BY <1>3, <2>3, <4>1 DEF Receive, Arrive, RefuseUnauthorized, ReadRequest,
           RefuseUnreadable, RefuseMalformed, Proceed, Acquire,
           AbandonQueue, RefuseUnkeyed, SendCall, SkipCall, Fail,
           RetryAfterBackoff, AbandonBackoff, ReportFailure, CloseUpstream,
           Release, Leave, Exit, reply, Reply, IInv, TypeOK, ReplyOK
      <4>2. CASE Locked(r) \/ Await(r) \/ Deliver(r)
        BY <1>3, <4>2 DEF Locked, FallBack, Accept, Account, Await, Deliver,
           Respond, LoseCall, DrainForRetry, CopyUpstreamError,
           RefuseUpstreamError, FinishWrite, CompleteStream, CutStream,
           ReturnResponse, RefuseResponse, reply, Reply, IInv, TypeOK, ReplyOK
      <4> QED BY <1>3, <4>1, <4>2 DEF Handler
    <3> QED BY <1>1, <2>1, <3>1, SelectedKept
  <2> QED BY <2>2, <2>3
<1>4. Environment \/ UNCHANGED vars => UNCHANGED <<clients, pos, call, answer>>
  BY DEF Environment, ClientDisconnects, DeadlineExpires, CooldownEnds,
     BeginScrape, EndScrape, vars, chain, client, reply
<1> QED BY <1>1, <1>2, <1>3, <1>4, SelectedKept DEF Next, Finished

LEMMA SelectionInit == Init => SelectionInv
<1> SUFFICES ASSUME Init, NEW r \in Requests PROVE Selected(r)
  BY DEF SelectionInv
<1>1. clients[r] = <<>> /\ answer[r] = "none"
  BY DEF Init
<1>2. Lists(<<>>, r)
  BY <1>1 DEF Lists
<1> QED BY <1>1, <1>2 DEF Selected

LEMMA SelectionInvariant == Spec => []SelectionInv
BY SelectionInit, SelectionStep, InductiveInvariant, PTL DEF Spec

\* The candidates are listings of the route in their order, whatever routes
\* repeat and whoever else starts or ends cooldowns meanwhile, and a request
\* that has a route has one.
THEOREM CandidatesAreListed == Spec => []CandidatesFollowTheRoute
<1>1. ASSUME IInv, SelectionInv, NEW r \in Requests
      PROVE  \E listing \in [DOMAIN clients[r] -> DOMAIN Path(r)] :
               \A i \in DOMAIN clients[r] :
                 /\ clients[r][i] = Path(r)[listing[i]]
                 /\ \A j \in 1 .. i - 1 : listing[j] < listing[i]
  <2>1. /\ DOMAIN clients[r] = 1 .. Len(clients[r])
        /\ DOMAIN Path(r) = 1 .. Len(Path(r))
    BY <1>1, SentType, PathType DEF IInv, TypeOK
  <2>2. PICK f : Lists(f, r)
    BY <1>1 DEF SelectionInv, Selected
  <2> QED BY <2>1, <2>2 DEF Lists
<1>2. IInv /\ SelectionInv => CandidatesFollowTheRoute
  BY <1>1 DEF CandidatesFollowTheRoute, SelectionInv, Selected, IInv, Cursor
<1> QED BY <1>2, SelectionInvariant, InductiveInvariant, PTL
=============================================================================
