-------------------------- MODULE StreamRelayProofs --------------------------
(***************************************************************************)
(* What a relayed stream amounts to, for every idle timeout, every number  *)
(* of chunks and clients that stall or do not.  RelayInv is inductive; the *)
(* steps of the relay are taken one by one, those of the watchdog and of   *)
(* the environment leave what it speaks of alone.                          *)
(***************************************************************************)
EXTENDS StreamRelay, SequenceTheorems, TLAPS

LEMMA RelayInit == Init => RelayInv
<1> SUFFICES ASSUME Init PROVE RelayInv
  OBVIOUS
<1>1. TypeOK
  <2>1. timer \in 0 .. IdleTimeout /\ quiet \in 0 .. IdleTimeout
    BY IdleTimeoutAssumption DEF Init
  <2>2. /\ produced \in Seq(Chunks) /\ delivered \in Seq(Chunks)
        /\ Len(produced) <= MaxChunks
        /\ taken \in 0 .. Len(produced)
    BY MaxChunksAssumption, EmptySeq DEF Init
  <2> QED BY <2>1, <2>2
          DEF Init, TypeOK, HandlerOK, GuardOK, StreamOK, PeerOK, Errors
<1>2. Forwarded /\ InFlight /\ Verdicts /\ Joined
  BY DEF Init, Forwarded, Written, Holding, InFlight, Verdicts, Returning, Joined
<1> QED BY <1>1, <1>2 DEF RelayInv

\* Appending to what the provider sent leaves what it sent before in place.
LEMMA AppendFacts ==
  ASSUME NEW S, NEW s \in Seq(S), NEW e \in S
  PROVE  /\ Append(s, e) \in Seq(S)
         /\ Len(Append(s, e)) = Len(s) + 1
         /\ Append(s, e)[Len(s) + 1] = e
         /\ \A i \in 1 .. Len(s) : Append(s, e)[i] = s[i]
OBVIOUS

LEMMA HandlerStep == RelayInv /\ [Next]_vars => HandlerOK'
<1> SUFFICES ASSUME HandlerOK, StreamOK, [Next]_vars PROVE HandlerOK'
  BY DEF RelayInv, TypeOK
<1> USE DEF HandlerOK
<1>1. CASE ReadChunk
  <2>1. produced[taken + 1] \in Chunks
    BY <1>1, ElementOfSeq DEF ReadChunk, Waiting, StreamOK
  <2> QED BY <1>1, <2>1 DEF ReadChunk, Errors
<1>2. CASE ReadEnd \/ CheckExpired \/ Judge
  BY <1>2 DEF ReadEnd, CheckExpired, Judge, Errors
<1>3. CASE ScanAndReset
  BY <1>3 DEF ScanAndReset
<1>4. CASE StopWatchdog \/ Join \/ Deliver
  BY <1>4 DEF StopWatchdog, Join, Deliver, Write, WriteFails, Flush
<1>5. CASE UNCHANGED handler
  BY <1>5 DEF handler
<1> QED
  BY <1>1, <1>2, <1>3, <1>4, <1>5
  DEF Next, vars, Finished, Relay, Watchdog, Rearm, Expire, CloseBody, Stopped,
      Send, End, Disconnect, ContextEnds, Tick

LEMMA GuardStep == RelayInv /\ [Next]_vars => GuardOK'
<1> SUFFICES ASSUME GuardOK, [Next]_vars PROVE GuardOK'
  BY DEF RelayInv, TypeOK
<1> USE DEF GuardOK
<1>1. CASE ScanAndReset
  BY <1>1 DEF ScanAndReset, guard
<1>2. CASE StopWatchdog
  BY <1>2 DEF StopWatchdog
<1>3. CASE Rearm
  <2>1. timer' \in 0 .. IdleTimeout
    BY <1>3, IdleTimeoutAssumption DEF Rearm
  <2> QED BY <1>3, <2>1 DEF Rearm
<1>4. CASE Expire \/ CloseBody \/ Stopped
  BY <1>4 DEF Expire, CloseBody, Stopped
<1>5. CASE Tick
  <2>1. timer' \in 0 .. IdleTimeout
    BY <1>5, IdleTimeoutAssumption DEF Tick, Blocked
  <2> QED BY <1>5, <2>1 DEF Tick
<1>6. CASE UNCHANGED <<guard, reset>>
  BY <1>6 DEF guard
<1> QED
  BY <1>1, <1>2, <1>3, <1>4, <1>5, <1>6
  DEF Next, vars, Finished, Relay, ReadChunk, ReadEnd, CheckExpired, Judge,
      Join, Deliver, Write, WriteFails, Flush, Watchdog, Send, End,
      Disconnect, ContextEnds

LEMMA StreamStep == RelayInv /\ [Next]_vars => StreamOK'
<1> SUFFICES ASSUME StreamOK, InFlight, HandlerOK, [Next]_vars PROVE StreamOK'
  BY DEF RelayInv, TypeOK
<1> USE DEF StreamOK
<1>1. CASE ReadChunk
  BY <1>1, LenProperties DEF ReadChunk, Waiting, upstream
<1>2. CASE Write
  <2>1. chunk \in Chunks
    <3>1. taken > 0 /\ chunk = produced[taken]
      BY <1>2 DEF Write, InFlight, Holding
    <3> QED BY <3>1, ElementOfSeq, LenProperties
  <2> QED BY <1>2, <2>1, AppendFacts DEF Write, upstream
<1>3. CASE Send
  <2>1. PICK c \in Chunks : produced' = Append(produced, c)
    BY <1>3 DEF Send
  <2>2. produced' \in Seq(Chunks) /\ Len(produced') = Len(produced) + 1
    BY <2>1, AppendFacts
  <2>3. Len(produced) \in Nat /\ Len(produced') <= MaxChunks
    BY <1>3, <2>2, LenProperties, MaxChunksAssumption DEF Send
  <2> QED BY <1>3, <2>2, <2>3 DEF Send
<1>4. CASE End
  BY <1>4 DEF End
<1>5. CASE UNCHANGED <<produced, ended, taken, delivered>>
  BY <1>5
<1> QED
  BY <1>1, <1>2, <1>3, <1>4, <1>5
  DEF Next, vars, upstream, Finished, Relay, ReadEnd, CheckExpired,
      ScanAndReset, Judge, StopWatchdog, Join, Deliver, WriteFails, Flush,
      Watchdog, Rearm, Expire, CloseBody, Stopped, Disconnect, ContextEnds, Tick

LEMMA PeerStep == RelayInv /\ [Next]_vars => PeerOK'
<1> SUFFICES ASSUME PeerOK, [Next]_vars PROVE PeerOK'
  BY DEF RelayInv, TypeOK
<1> USE DEF PeerOK
<1>1. CASE Send \/ End \/ Disconnect \/ ContextEnds
  BY <1>1 DEF Send, End, Disconnect, ContextEnds, upstream, peer
<1>2. CASE Tick
  <2>1. quiet' \in 0 .. IdleTimeout
    BY <1>2, IdleTimeoutAssumption DEF Tick
  <2> QED BY <1>2, <2>1 DEF Tick, peer
<1>3. CASE UNCHANGED <<context, gone, stalls, quiet, fresh>>
  BY <1>3
<1> QED
  BY <1>1, <1>2, <1>3
  DEF Next, vars, upstream, peer, Finished, Relay, ReadChunk, ReadEnd,
      CheckExpired, ScanAndReset, Judge, StopWatchdog, Join, Deliver, Write,
      WriteFails, Flush, Watchdog, Rearm, Expire, CloseBody, Stopped

\* A step that leaves the handler and its chunks alone, loses no goroutine that
\* has exited and repairs no connection preserves the rest of RelayInv.
LEMMA Undisturbed ==
  ASSUME RelayInv,
         UNCHANGED <<handler, produced, ended, taken, delivered>>,
         gone => gone',
         watchdog = "exited" => watchdog' = "exited"
  PROVE  /\ (Forwarded \/ (gone /\ verdict = "aborted"))'
         /\ InFlight' /\ Verdicts' /\ Joined'
  BY DEF RelayInv, handler, Forwarded, Written, Holding, InFlight, Verdicts,
         Returning, Joined

LEMMA RelayStep == RelayInv /\ [Next]_vars => RelayInv'
<1> SUFFICES ASSUME RelayInv, [Next]_vars
             PROVE  /\ (Forwarded \/ (gone /\ verdict = "aborted"))'
                    /\ InFlight' /\ Verdicts' /\ Joined'
  BY HandlerStep, GuardStep, StreamStep, PeerStep DEF RelayInv, TypeOK
<1> USE DEF RelayInv, TypeOK, HandlerOK, StreamOK, Forwarded, Written, Holding,
            InFlight, Verdicts, Returning, Joined, handler, guard, upstream, peer
<1>1. CASE ReadChunk
  <2>1. chunk' \in Chunks /\ chunk' # "none" /\ chunk' = produced[taken + 1]
    BY <1>1, ElementOfSeq DEF ReadChunk, Waiting, Chunks
  <2>2. Written = taken /\ Written' = taken /\ taken' = taken + 1
    BY <1>1, <2>1 DEF ReadChunk
  <2>3. (Forwarded \/ (gone /\ verdict = "aborted"))'
    BY <1>1, <2>2 DEF ReadChunk
  <2>4. InFlight'
    BY <1>1, <2>1, <2>2 DEF ReadChunk
  <2>5. Verdicts' /\ Joined'
    BY <1>1, <2>2 DEF ReadChunk, Waiting
  <2> QED BY <2>3, <2>4, <2>5
<1>2. CASE ReadEnd
  BY <1>2, LenProperties DEF ReadEnd, Waiting
<1>3. CASE CheckExpired
  BY <1>3, LenProperties DEF CheckExpired
<1>4. CASE Write
  BY <1>4, AppendFacts, LenProperties DEF Write
<1>5. CASE WriteFails
  BY <1>5, LenProperties DEF WriteFails
<1>6. CASE ScanAndReset
  BY <1>6, LenProperties DEF ScanAndReset
<1>7. CASE Flush
  BY <1>7, LenProperties DEF Flush
<1>8. CASE Judge
  BY <1>8, LenProperties DEF Judge
<1>9. CASE StopWatchdog
  BY <1>9, LenProperties DEF StopWatchdog
<1>10. CASE Join
  BY <1>10, LenProperties DEF Join
<1>11. CASE Send
  BY <1>11, AppendFacts, LenProperties DEF Send
<1>12. CASE End
  BY <1>12, LenProperties DEF End
<1>13. CASE Watchdog \/ Disconnect \/ ContextEnds \/ Tick
  BY <1>13, Undisturbed
  DEF Watchdog, Rearm, Expire, CloseBody, Stopped, Disconnect, ContextEnds, Tick
<1>14. CASE UNCHANGED vars
  BY <1>14, Undisturbed DEF vars
<1> QED
  BY <1>1, <1>2, <1>3, <1>4, <1>5, <1>6, <1>7, <1>8, <1>9, <1>10, <1>11,
     <1>12, <1>13, <1>14
  DEF Next, Finished, Relay, Deliver

THEOREM RelayInvariant == Spec => []RelayInv
<1>1. RelayInv /\ UNCHANGED vars => RelayInv'
  BY RelayStep
<1> QED BY <1>1, RelayInit, RelayStep, PTL DEF Spec

\* A stream is reported complete only if the provider ended it properly, every
\* chunk of it was written to the client and the marker is among them.
THEOREM CompletedStreamsAreWhole == Spec => []CompletedIsWhole
<1>1. RelayInv => CompletedIsWhole
  <2> SUFFICES ASSUME RelayInv, verdict = "completed"
               PROVE  /\ ended = "eof"
                      /\ delivered = produced
                      /\ \E i \in DOMAIN delivered : delivered[i] = "done"
    BY DEF CompletedIsWhole
  <2>1. /\ produced \in Seq(Chunks) /\ delivered \in Seq(Chunks)
        /\ Len(produced) \in Nat
        /\ DOMAIN delivered = 1 .. Len(delivered)
    BY LenProperties DEF RelayInv, TypeOK, StreamOK
  <2>2. ended = "eof" /\ Written = Len(produced) /\ Forwarded /\ done
    BY <2>1 DEF RelayInv, Verdicts, Written, Holding, Returning
  <2>3. delivered = produced
    BY <2>1, <2>2, SeqEqual DEF Forwarded
  <2> QED BY <2>1, <2>2, <2>3 DEF RelayInv, Verdicts
<1> QED BY <1>1, RelayInvariant, PTL

\* What was read reaches the client in order and without gaps, whatever came
\* with it, unless writing it failed.
THEOREM ReadIsForwarded == Spec => []NothingReadIsDropped
<1>1. RelayInv => NothingReadIsDropped
  <2> SUFFICES ASSUME RelayInv, Forwarded
               PROVE  delivered \o InHand = SubSeq(produced, 1, taken)
    BY DEF RelayInv, NothingReadIsDropped
  <2>1. /\ produced \in Seq(Chunks) /\ delivered \in Seq(Chunks)
        /\ taken \in 0 .. Len(produced)
        /\ Len(produced) \in Nat
        /\ \A i \in 1 .. Len(produced) : produced[i] \in Chunks
    BY LenProperties, ElementOfSeq DEF RelayInv, TypeOK, StreamOK
  <2>2. /\ SubSeq(produced, 1, taken) \in Seq(Chunks)
        /\ Len(SubSeq(produced, 1, taken)) = taken
        /\ \A i \in 1 .. taken : SubSeq(produced, 1, taken)[i] = produced[i]
    <3>1. \A i \in 1 .. taken : produced[i] \in Chunks
      BY <2>1
    <3>2. /\ SubSeq(produced, 1, taken) \in Seq(Chunks)
          /\ Len(SubSeq(produced, 1, taken)) =
               IF 1 <= taken THEN taken - 1 + 1 ELSE 0
          /\ \A i \in 1 .. taken - 1 + 1 :
               SubSeq(produced, 1, taken)[i] = produced[1 + i - 1]
      BY <2>1, <3>1, SubSeqProperties
    <3> QED BY <2>1, <3>2
  <2>3. CASE Holding
    <3>1. taken > 0 /\ chunk = produced[taken] /\ chunk \in Chunks
      BY <2>1, <2>3 DEF RelayInv, InFlight
    <3>2. InHand = <<chunk>>
      BY <2>3 DEF InHand, Holding
    <3>3. /\ <<chunk>> \in Seq(Chunks)
          /\ Len(<<chunk>>) = 1
          /\ <<chunk>>[1] = chunk
      BY <3>1
    <3>4. Len(delivered) = taken - 1
          /\ \A i \in 1 .. taken - 1 : delivered[i] = produced[i]
      BY <2>1, <2>3 DEF Forwarded, Written
    <3> DEFINE hand == <<chunk>>
    <3> HIDE DEF hand
    <3>5. hand \in Seq(Chunks) /\ Len(hand) = 1 /\ hand[1] = chunk
      BY <3>3 DEF hand
    <3>6. /\ delivered \o hand \in Seq(Chunks)
          /\ Len(delivered \o hand) = taken
          /\ \A i \in 1 .. taken :
               (delivered \o hand)[i] =
                 IF i <= taken - 1 THEN delivered[i] ELSE hand[i - (taken - 1)]
      <4>1. /\ delivered \o hand \in Seq(Chunks)
            /\ Len(delivered \o hand) = Len(delivered) + Len(hand)
            /\ \A i \in 1 .. Len(delivered) + Len(hand) :
                 (delivered \o hand)[i] =
                   IF i <= Len(delivered) THEN delivered[i]
                   ELSE hand[i - Len(delivered)]
        BY ONLY <2>1, <3>5, ConcatProperties
      <4>2. Len(delivered) = taken - 1 /\ Len(hand) = 1 /\ taken - 1 + 1 = taken
        BY <2>1, <3>4, <3>5
      <4> QED BY ONLY <4>1, <4>2
    <3>7. \A i \in 1 .. taken :
            (delivered \o hand)[i] = SubSeq(produced, 1, taken)[i]
      BY <2>1, <2>2, <3>1, <3>4, <3>5, <3>6
    <3>8. delivered \o hand = SubSeq(produced, 1, taken)
      BY <2>2, <3>6, <3>7, SeqEqual
    <3> QED BY <3>2, <3>8 DEF hand
  <2>4. CASE ~Holding
    <3>1. InHand = <<>> /\ delivered \o <<>> = delivered
      BY <2>1, <2>4, ConcatEmptySeq DEF InHand, Holding
    <3>2. Len(delivered) = taken
          /\ \A i \in 1 .. taken : delivered[i] = produced[i]
      BY <2>1, <2>4 DEF Forwarded, Written
    <3>3. delivered = SubSeq(produced, 1, taken)
      BY <2>1, <2>2, <3>2, SeqEqual
    <3> QED BY <3>1, <3>3
  <2> QED BY <2>3, <2>4
<1> QED BY <1>1, RelayInvariant, PTL

\* No watchdog goroutine is left behind when a relay returns.
THEOREM WatchdogsAreJoined == Spec => []WatchdogJoined
<1>1. RelayInv => WatchdogJoined
  BY DEF RelayInv, Joined, WatchdogJoined
<1> QED BY <1>1, RelayInvariant, PTL

-----------------------------------------------------------------------------
\* Something heard in this tick has set the timer back, or is still on its way
\* to doing so: unread, in hand, or as a token the watchdog has not taken.
Heard ==
  \/ timer = IdleTimeout \/ reset
  \/ Waiting \/ Holding \/ relay = "scan"
  \/ Returning

\* With a client that does not stall the timer has run no longer than the
\* provider has been silent.
TimerFollows ==
  ~stalls => /\ timer + quiet >= IdleTimeout
             /\ fresh => Heard

\* Time passes only when nothing heard is on its way any more, and what was
\* heard gets lost at no step before the timer is set back.
LEMMA TimerStep ==
  ASSUME RelayInv, TimerFollows, [Next]_vars
  PROVE  TimerFollows'
<1>1. /\ timer \in 0 .. IdleTimeout /\ quiet \in 0 .. IdleTimeout
      /\ taken \in 0 .. Len(produced) /\ Len(produced) \in Nat
  BY LenProperties DEF RelayInv, TypeOK, GuardOK, PeerOK, StreamOK
<1>2. IdleTimeout \in Nat /\ IdleTimeout > 0
  BY IdleTimeoutAssumption
<1>3. stalls' = stalls
  BY DEF Next, vars, Finished, Relay, ReadChunk, ReadEnd, CheckExpired,
         ScanAndReset, Judge, StopWatchdog, Join, Deliver, Write, WriteFails,
         Flush, Watchdog, Rearm, Expire, CloseBody, Stopped, Send, End,
         Disconnect, ContextEnds, Tick, peer
<1> USE <1>3 DEF TimerFollows, Heard, Waiting, Holding, Returning
<1>4. CASE ReadChunk
  <2>1. chunk' # "none"
    <3>1. produced[taken + 1] \in Chunks
      BY <1>4, ElementOfSeq DEF ReadChunk, RelayInv, TypeOK, StreamOK
    <3> QED  BY <1>4, <3>1 DEF ReadChunk, Chunks
  <2> QED  BY <1>4, <2>1 DEF ReadChunk, guard, upstream
<1>5. CASE ReadEnd \/ CheckExpired \/ Write \/ WriteFails
  BY <1>5 DEF ReadEnd, CheckExpired, Write, WriteFails, guard, upstream
<1>6. CASE ScanAndReset
  BY <1>6 DEF ScanAndReset, guard, upstream
<1>7. CASE Flush \/ Judge \/ StopWatchdog \/ Join
  BY <1>7 DEF Flush, Judge, StopWatchdog, Join, guard, upstream
<1>8. CASE Rearm
  BY <1>1, <1>2, <1>8 DEF Rearm, upstream, handler
<1>9. CASE Expire \/ CloseBody \/ Stopped
  BY <1>9 DEF Expire, CloseBody, Stopped, upstream, handler
<1>10. CASE Send
  <2>1. PICK c \in Chunks : produced' = Append(produced, c)
    BY <1>10 DEF Send
  <2>2. Len(produced') = Len(produced) + 1
    BY <2>1, AppendFacts DEF RelayInv, TypeOK, StreamOK
  <2> QED  BY <1>1, <1>10, <2>2 DEF Send, guard, handler
<1>11. CASE End \/ Disconnect \/ ContextEnds
  BY <1>11 DEF End, Disconnect, ContextEnds, guard, handler, upstream
<1>12. CASE Tick
  <2> SUFFICES ASSUME ~stalls PROVE timer' + quiet' >= IdleTimeout
    BY <1>12 DEF Tick
  <2>1. relay = "read" /\ ~Waiting /\ ~reset /\ timer > 0
    BY <1>12 DEF Tick, Blocked
  <2>2. CASE fresh
    <3>1. timer = IdleTimeout
      BY <2>1, <2>2
    <3> QED  BY <1>2, <1>12, <2>2, <3>1 DEF Tick
  <2>3. CASE ~fresh
    BY <1>1, <1>2, <1>12, <2>1, <2>3 DEF Tick
  <2> QED  BY <2>2, <2>3
<1>13. CASE UNCHANGED vars
  BY <1>13 DEF vars, handler, guard, upstream
<1> QED
  BY <1>4, <1>5, <1>6, <1>7, <1>8, <1>9, <1>10, <1>11, <1>12, <1>13
  DEF Next, Relay, Deliver, Watchdog, Finished

\* The watchdog fires on a client that takes what is written to it only if the
\* provider was silent for the whole timeout, however chunks, resets and the
\* timer meet in the last instant.
THEOREM ExpiriesAreSilences == Spec => ExpiryMeansSilence
<1>1. Init => TimerFollows
  BY IdleTimeoutAssumption DEF Init, TimerFollows
<1>2. RelayInv /\ TimerFollows /\ [Next]_vars => TimerFollows'
  BY TimerStep
<1>3. RelayInv /\ TimerFollows /\ [Next]_vars
        => [~stalls /\ expired' /\ ~expired => quiet >= IdleTimeout]_vars
  <2> SUFFICES ASSUME RelayInv, TimerFollows, Next, ~stalls, expired', ~expired
               PROVE  quiet >= IdleTimeout
    OBVIOUS
  <2>1. Expire
    BY DEF Next, vars, Finished, Relay, ReadChunk, ReadEnd, CheckExpired,
           ScanAndReset, Judge, StopWatchdog, Join, Deliver, Write, WriteFails,
           Flush, Watchdog, Rearm, CloseBody, Stopped, Send, End, Disconnect,
           ContextEnds, Tick, guard
  <2>2. timer = 0 /\ timer + quiet >= IdleTimeout /\ quiet \in 0 .. IdleTimeout
    BY <2>1 DEF Expire, TimerFollows, RelayInv, TypeOK, PeerOK
  <2> QED  BY <2>2
<1> QED
  BY <1>1, <1>2, <1>3, RelayInvariant, PTL DEF Spec, ExpiryMeansSilence
=============================================================================
