----------------------------- MODULE RetryDelay -----------------------------
(***************************************************************************)
(* How long the provider client waits before it repeats a call             *)
(* (internal/provider/provider.go: waitForRetry).  Durations are signed    *)
(* integers of a fixed width that wrap around.                             *)
(***************************************************************************)
EXTENDS Integers

CONSTANTS
  Half,       \* a duration is in -Half .. Half - 1
  Second,     \* in units of a duration
  Base,       \* the default wait
  Longest,    \* the longest wait
  Jitter      \* bound of the random part, exclusive

ASSUME WidthAssumption == Half \in Nat /\ Second \in 1 .. Half - 1
ASSUME WaitAssumption  ==
  /\ Base \in 0 .. Longest /\ 16 * Base < Half /\ Longest + Jitter \in 0 .. Half - 1
  /\ Longest \in Nat /\ Jitter \in Nat \ {0}

Wrap(n) == ((n + Half) % (2 * Half)) - Half

\* Retry-After as sent: absent, a number of seconds, a date so far from now, or
\* neither.  The client repeats a call once, after attempt 0, so its doubling is
\* never used.
Asked(header, attempt) ==
  CASE header.form = "absent"  -> Base * 2 ^ (IF attempt < 4 THEN attempt ELSE 4)
    [] header.form = "seconds" /\ header.value >= 0 -> Wrap(header.value * Second)
    [] header.form = "date"    -> header.value
    [] OTHER                   -> Base

\* Mutant: no upper bound.
Clamp_Below(delay) == IF delay < 0 THEN 0 ELSE delay

Clamp(delay) == IF delay < 0 THEN 0 ELSE IF delay > Longest THEN Longest ELSE delay

Delay(header, attempt, jitter) == Clamp(Asked(header, attempt)) + jitter
=============================================================================
