---------------------------- MODULE StreamRelay ----------------------------
(***************************************************************************)
(* Relaying one stream (internal/router/router.go: streamResponseWithUsage *)
(* and streamWatchdog).                                                    *)
(*                                                                         *)
(* Two goroutines share the upstream body.  The relay reads a chunk, looks *)
(* at the watchdog's flag, writes the chunk to the client, resets the      *)
(* watchdog and flushes.  The watchdog waits for a reset, for its timer or *)
(* for the stop, and closes the body under the relay when the timer fires. *)
(* Around them, the provider sends chunks or ends the stream, the request  *)
(* context may end, and the client takes what is written or stalls.        *)
(*                                                                         *)
(* Time is discrete and passes (Tick) only when both goroutines are        *)
(* waiting: what they compute takes no time next to the idle timeout.      *)
(* Everything that can happen at the same instant interleaves freely.      *)
(***************************************************************************)
EXTENDS Integers, Sequences

CONSTANTS
  IdleTimeout,     \* the stream idle timeout, in ticks
  MaxChunks        \* bound: chunks the provider sends at most

ASSUME IdleTimeoutAssumption == IdleTimeout \in Nat \ {0}
ASSUME MaxChunksAssumption   == MaxChunks \in Nat

VARIABLES
  relay,       \* where the relaying handler is
  chunk,       \* the chunk read last, or "none"
  err,         \* what that Read said
  done,        \* the [DONE] marker has been seen
  verdict,     \* what the relay returned
  watchdog,    \* where the watchdog goroutine is
  reset,       \* a token in the watchdog's reset channel
  stop,        \* the stop channel is closed
  timer,       \* ticks until the timer fires (0: it has)
  expired,     \* the watchdog's flag
  closed,      \* the watchdog has closed the body
  produced,    \* chunks the provider has sent (history)
  taken,       \* how many of them were read
  ended,       \* how the provider ended the stream, if it did
  delivered,   \* chunks written to the client's connection (history)
  context,     \* the request context: "live" or "ended"
  gone,        \* the client's connection is broken
  stalls,      \* the client may leave what is written to it untaken
  quiet,       \* ticks since the provider last sent anything
  fresh        \* it sent something in the current tick

handler  == <<relay, chunk, err, done, verdict>>
guard    == <<watchdog, stop, timer, expired, closed>>
upstream == <<produced, ended, quiet, fresh>>
peer     == <<context, gone, stalls>>

vars == <<handler, guard, reset, upstream, taken, delivered, peer>>

Chunks  == {"text", "done"}
Errors  == {"nil", "eof", "expired", "broken"}

HandlerOK ==
  /\ relay \in {"read", "check", "write", "scan", "flush", "judge", "stop",
                "join", "returned"}
  /\ chunk \in Chunks \union {"none"}
  /\ err \in Errors
  /\ done \in BOOLEAN
  /\ verdict \in {"none", "completed", "aborted"}

GuardOK ==
  /\ watchdog \in {"select", "closing", "exited"}
  /\ reset \in BOOLEAN
  /\ stop \in BOOLEAN
  /\ timer \in 0 .. IdleTimeout
  /\ expired \in BOOLEAN
  /\ closed \in BOOLEAN

StreamOK ==
  /\ produced \in Seq(Chunks)
  /\ Len(produced) <= MaxChunks
  /\ taken \in 0 .. Len(produced)
  /\ delivered \in Seq(Chunks)
  /\ ended \in {"no", "eof", "broken"}

PeerOK ==
  /\ context \in {"live", "ended"}
  /\ gone \in BOOLEAN
  /\ stalls \in BOOLEAN
  /\ quiet \in 0 .. IdleTimeout
  /\ fresh \in BOOLEAN

TypeOK == HandlerOK /\ GuardOK /\ StreamOK /\ PeerOK

Init ==
  /\ relay = "read"
  /\ chunk = "none"
  /\ err = "nil"
  /\ done = FALSE
  /\ verdict = "none"
  /\ watchdog = "select"
  /\ reset = FALSE
  /\ stop = FALSE
  /\ timer = IdleTimeout
  /\ expired = FALSE
  /\ closed = FALSE
  /\ produced = <<>>
  /\ taken = 0
  /\ ended = "no"
  /\ delivered = <<>>
  /\ context = "live"
  /\ gone = FALSE
  /\ stalls \in BOOLEAN
  /\ quiet = 0
  /\ fresh = FALSE

-----------------------------------------------------------------------------
\* The relay.
Waiting == taken < Len(produced)

\* Body.Read returns bytes, possibly together with the end of the stream.
ReadChunk ==
  /\ relay = "read"
  /\ Waiting
  /\ ~closed
  /\ relay' = "check"
  /\ chunk' = produced[taken + 1]
  /\ taken' = taken + 1
  /\ err' \in {"nil"} \union (IF taken' = Len(produced) /\ ended = "eof"
                              THEN {"eof"} ELSE {})
  /\ UNCHANGED <<done, verdict, guard, reset, upstream, delivered, peer>>

\* Body.Read returns no bytes: the stream is over, was cut, the context of the
\* upstream request ended, or the body was closed.
ReadEnd ==
  /\ relay = "read"
  /\ relay' = "check"
  /\ chunk' = "none"
  /\ \/ ~Waiting /\ ended = "eof" /\ ~closed /\ err' = "eof"
     \/ ~Waiting /\ ended = "broken" /\ err' = "broken"
     \/ (context = "ended" \/ closed) /\ err' = "broken"
  /\ UNCHANGED <<done, verdict, guard, reset, upstream, taken, delivered,
                 peer>>

\* Mutant: an expiry discards what was read with it.
CheckExpired_Drops ==
  /\ relay = "check"
  /\ relay' = IF expired \/ chunk = "none" THEN "judge" ELSE "write"
  /\ err' = IF expired THEN "expired" ELSE err
  /\ UNCHANGED <<chunk, done, verdict, guard, reset, upstream, taken,
                 delivered, peer>>

\* The flag overrides what Read said; bytes that came along are still written.
CheckExpired ==
  /\ relay = "check"
  /\ relay' = IF chunk = "none" THEN "judge" ELSE "write"
  /\ err' = IF expired THEN "expired" ELSE err
  /\ UNCHANGED <<chunk, done, verdict, guard, reset, upstream, taken,
                 delivered, peer>>

\* Into the connection of a client that has gone a Write may still succeed.
Write ==
  /\ relay = "write"
  /\ relay' = "scan"
  /\ delivered' = Append(delivered, chunk)
  /\ UNCHANGED <<chunk, err, done, verdict, guard, reset, upstream, taken,
                 peer>>

\* Mutant: a stream that failed after its marker passes for complete.
WriteFails_MarkerSuffices ==
  /\ relay = "write"
  /\ gone
  /\ relay' = "stop"
  /\ verdict' = IF done THEN "completed" ELSE "aborted"
  /\ UNCHANGED <<chunk, err, done, guard, reset, upstream, taken, delivered,
                 peer>>

WriteFails ==
  /\ relay = "write"
  /\ gone
  /\ relay' = "stop"
  /\ verdict' = "aborted"
  /\ UNCHANGED <<chunk, err, done, guard, reset, upstream, taken, delivered,
                 peer>>

\* Look for the marker and send on the reset channel, unless it is full.
ScanAndReset ==
  /\ relay = "scan"
  /\ relay' = "flush"
  /\ done' = (done \/ chunk = "done")
  /\ reset' = TRUE
  /\ UNCHANGED <<chunk, err, verdict, guard, upstream, taken, delivered, peer>>

\* Flush returns once the client has taken the bytes, or cannot any more.
Flush ==
  /\ relay = "flush"
  /\ relay' = "judge"
  /\ UNCHANGED <<chunk, err, done, verdict, guard, reset, upstream, taken,
                 delivered, peer>>

\* Mutant: the marker alone makes a stream complete.
Judge_MarkerOnly ==
  /\ relay = "judge"
  /\ IF err = "nil"
     THEN relay' = "read" /\ UNCHANGED verdict
     ELSE /\ relay' = "stop"
          /\ verdict' = IF done THEN "completed" ELSE "aborted"
  /\ UNCHANGED <<chunk, err, done, guard, reset, upstream, taken, delivered,
                 peer>>

Judge ==
  /\ relay = "judge"
  /\ IF err = "nil"
     THEN relay' = "read" /\ UNCHANGED verdict
     ELSE /\ relay' = "stop"
          /\ verdict' = IF done /\ err = "eof" THEN "completed" ELSE "aborted"
  /\ UNCHANGED <<chunk, err, done, guard, reset, upstream, taken, delivered,
                 peer>>

\* Mutant: Stop does not wait for the goroutine.
StopWatchdog_NoJoin ==
  /\ relay = "stop"
  /\ relay' = "returned"
  /\ stop' = (stop \/ watchdog # "exited")
  /\ UNCHANGED <<chunk, err, done, verdict, watchdog, timer, expired, closed,
                 reset, upstream, taken, delivered, peer>>

\* The deferred Stop: nothing to do if the goroutine is gone, else ask it to
\* go and wait until it has.
StopWatchdog ==
  /\ relay = "stop"
  /\ relay' = IF watchdog = "exited" THEN "returned" ELSE "join"
  /\ stop' = (stop \/ watchdog # "exited")
  /\ UNCHANGED <<chunk, err, done, verdict, watchdog, timer, expired, closed,
                 reset, upstream, taken, delivered, peer>>

Join ==
  /\ relay = "join"
  /\ watchdog = "exited"
  /\ relay' = "returned"
  /\ UNCHANGED <<chunk, err, done, verdict, guard, reset, upstream, taken,
                 delivered, peer>>

-----------------------------------------------------------------------------
\* The watchdog: a select over the reset channel, the timer and the stop.

\* Mutant: the token is received but the timer is left running.
Rearm_KeepsTimer ==
  /\ watchdog = "select"
  /\ reset
  /\ reset' = FALSE
  /\ UNCHANGED <<handler, guard, upstream, taken, delivered, peer>>

Rearm ==
  /\ watchdog = "select"
  /\ reset
  /\ reset' = FALSE
  /\ timer' = IdleTimeout
  /\ UNCHANGED <<handler, watchdog, stop, expired, closed, upstream, taken,
                 delivered, peer>>

Expire ==
  /\ watchdog = "select"
  /\ timer = 0
  /\ watchdog' = "closing"
  /\ expired' = TRUE
  /\ UNCHANGED <<handler, stop, timer, closed, reset, upstream, taken,
                 delivered, peer>>

\* Mutant: the goroutine leaves the body open.
CloseBody_Skipped ==
  /\ watchdog = "closing"
  /\ watchdog' = "exited"
  /\ UNCHANGED <<handler, stop, timer, expired, closed, reset, upstream, taken,
                 delivered, peer>>

CloseBody ==
  /\ watchdog = "closing"
  /\ watchdog' = "exited"
  /\ closed' = TRUE
  /\ UNCHANGED <<handler, stop, timer, expired, reset, upstream, taken,
                 delivered, peer>>

Stopped ==
  /\ watchdog = "select"
  /\ stop
  /\ watchdog' = "exited"
  /\ UNCHANGED <<handler, stop, timer, expired, closed, reset, upstream, taken,
                 delivered, peer>>

-----------------------------------------------------------------------------
\* The provider, the client, the request context and the clock.
Send ==
  /\ ended = "no"
  /\ Len(produced) < MaxChunks
  /\ \E c \in Chunks : produced' = Append(produced, c)
  /\ fresh' = TRUE
  /\ UNCHANGED <<handler, guard, reset, ended, quiet, taken, delivered, peer>>

End ==
  /\ ended = "no"
  /\ ended' \in {"eof", "broken"}
  /\ UNCHANGED <<handler, guard, reset, produced, quiet, fresh, taken,
                 delivered, peer>>

\* The client disconnects: its connection breaks and the context is cancelled.
Disconnect ==
  /\ ~gone
  /\ gone' = TRUE
  /\ context' = "ended"
  /\ UNCHANGED <<handler, guard, reset, upstream, taken, delivered, stalls>>

\* The request timeout passes.
ContextEnds ==
  /\ context = "live"
  /\ context' = "ended"
  /\ UNCHANGED <<handler, guard, reset, upstream, taken, delivered, gone,
                 stalls>>

\* Both goroutines wait: the relay for the provider or the client, and the
\* watchdog for its timer.
Blocked ==
  /\ \/ /\ relay = "read"
        /\ ~Waiting /\ ended = "no" /\ context = "live"
     \/ relay \in {"write", "flush"} /\ stalls /\ ~gone
  /\ watchdog = "select"
  /\ timer > 0 /\ ~reset

Tick ==
  /\ Blocked
  /\ timer' = timer - 1
  /\ quiet' = IF fresh THEN 1
              ELSE IF quiet < IdleTimeout THEN quiet + 1 ELSE quiet
  /\ fresh' = FALSE
  /\ UNCHANGED <<handler, watchdog, stop, expired, closed, reset, produced,
                 ended, taken, delivered, peer>>

-----------------------------------------------------------------------------
\* Steps of the handler that do not wait for the client.
Relay ==
  \/ ReadChunk \/ ReadEnd \/ CheckExpired \/ ScanAndReset \/ Judge
  \/ StopWatchdog \/ Join

\* Steps that wait for the client to take what is written.
Deliver == Write \/ WriteFails \/ Flush

Watchdog == Rearm \/ Expire \/ CloseBody \/ Stopped

Finished == relay = "returned" /\ watchdog = "exited" /\ UNCHANGED vars

Next ==
  \/ Relay \/ Deliver \/ Watchdog
  \/ Send \/ End \/ Disconnect \/ ContextEnds \/ Tick \/ Finished

Spec == Init /\ [][Next]_vars

\* Both goroutines run, the clock goes on, and a client that does not stall
\* takes what is written to it.  Nothing is assumed of the provider, of the
\* context or of a client that may stall.
FairSpec ==
  /\ Spec
  /\ WF_vars(Relay)
  /\ WF_vars((~stalls \/ gone) /\ Deliver)
  /\ WF_vars(Watchdog)
  /\ WF_vars(Tick)

-----------------------------------------------------------------------------
\* A stream is reported complete (counted as completed, its usage billed) only
\* if the provider ended it properly, the client was written every chunk of
\* it, and the marker is among them: whatever the watchdog, the context or the
\* client did at the same time.
CompletedIsWhole ==
  verdict = "completed" =>
    /\ ended = "eof"
    /\ delivered = produced
    /\ \E i \in DOMAIN delivered : delivered[i] = "done"

\* The invariant the proofs rest on.  The chunks written are those read, but
\* for the one in hand and for the one whose write failed; the end was reached
\* with nothing unread; and the marker was seen in a chunk that was written.
Returning == relay \in {"stop", "join", "returned"}
Holding   == relay = "write" \/ (relay = "check" /\ chunk # "none")
Written   == taken - (IF Holding THEN 1 ELSE 0)

Forwarded ==
  /\ Len(delivered) = Written
  /\ \A i \in 1 .. Written : delivered[i] = produced[i]

InFlight ==
  /\ Holding => taken > 0 /\ chunk = produced[taken]
  /\ relay = "scan" => taken > 0 /\ chunk = delivered[taken]
  /\ relay = "read" => err = "nil"

Verdicts ==
  /\ verdict = "none" <=> ~Returning
  /\ err = "eof" => ended = "eof" /\ taken = Len(produced)
  /\ done => \E i \in 1 .. Len(delivered) : delivered[i] = "done"
  /\ verdict = "completed" => Forwarded /\ done /\ err = "eof"

Joined == relay = "returned" => watchdog = "exited"

RelayInv ==
  /\ TypeOK
  /\ Forwarded \/ (gone /\ verdict = "aborted")
  /\ InFlight
  /\ Verdicts
  /\ Joined

\* What was read is forwarded in order and without gaps, the bytes that came
\* together with an error or an expiry included; only a failed write ends it.
InHand == IF relay = "write" \/ (relay = "check" /\ chunk # "none")
          THEN <<chunk>> ELSE <<>>

NothingReadIsDropped ==
  \/ delivered \o InHand = SubSeq(produced, 1, taken)
  \/ gone /\ verdict = "aborted"

\* When the relay returns, the goroutine is gone: it neither leaks nor closes
\* a body the handler has taken back.
WatchdogJoined == relay = "returned" => watchdog = "exited"

\* With a client that keeps taking what is written to it, the watchdog fires
\* only on a provider that was silent for the whole timeout, be it that chunks
\* and expiry race for the last instant.
ExpiryMeansSilence ==
  [][~stalls /\ expired' /\ ~expired => quiet >= IdleTimeout]_vars

\* The relay to such a client ends, though the provider may fall silent for
\* good.
RelayReturns == ~stalls => <>(relay = "returned")

\* config/env.schema.yaml: the idle timeout is the time between the bytes of
\* the provider, whatever the client does.
ExpiryIsUpstreamSilence ==
  [][expired' /\ ~expired => quiet >= IdleTimeout]_vars
=============================================================================
