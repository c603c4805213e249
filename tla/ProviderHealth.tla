--------------------------- MODULE ProviderHealth ---------------------------
(***************************************************************************)
(* The failure counters and cooldowns the router keeps per provider        *)
(* (internal/router/router.go: providerAvailable, markProviderFailure,     *)
(* markProviderSuccess).                                                   *)
(*                                                                         *)
(* A cooldown is a deadline five seconds ahead.  What the router asks of   *)
(* it is only whether it has passed, so the deadlines are abstracted to    *)
(* the set of providers whose deadline lies in the future; time passing    *)
(* is CooldownElapses, which may take a provider out of it at any moment.  *)
(***************************************************************************)
EXTENDS Naturals

CONSTANT Providers

\* Consecutive failures that put a provider into cooldown.
FailureThreshold == 2

VARIABLES
  providerFailures,   \* failures counted since the last reset, per provider
  cooling             \* providers whose cooldown deadline is in the future

health == <<providerFailures, cooling>>

HealthTypeOK ==
  /\ providerFailures \in [Providers -> 0 .. FailureThreshold - 1]
  /\ cooling \subseteq Providers

HealthInit ==
  /\ providerFailures = [p \in Providers |-> 0]
  /\ cooling = {}

ProviderAvailable(p) == p \notin cooling

\* Mutant: the cooldown starts one failure late.
MarkProviderFailure_Late(p) ==
  IF providerFailures[p] + 1 > FailureThreshold
  THEN /\ providerFailures' = [providerFailures EXCEPT ![p] = 0]
       /\ cooling' = cooling \union {p}
  ELSE /\ providerFailures' = [providerFailures EXCEPT ![p] = @ + 1]
       /\ UNCHANGED cooling

\* Mutant: the failures that started the cooldown stay on the count.
MarkProviderFailure_NoReset(p) ==
  /\ providerFailures' = [providerFailures EXCEPT ![p] = @ + 1]
  /\ cooling' = IF providerFailures[p] + 1 >= FailureThreshold
                THEN cooling \union {p} ELSE cooling

\* One more retryable answer: at the threshold the cooldown starts (or starts
\* over) and the count begins again.
MarkProviderFailure(p) ==
  IF providerFailures[p] + 1 >= FailureThreshold
  THEN /\ providerFailures' = [providerFailures EXCEPT ![p] = 0]
       /\ cooling' = cooling \union {p}
  ELSE /\ providerFailures' = [providerFailures EXCEPT ![p] = @ + 1]
       /\ UNCHANGED cooling

\* A success forgets the failures and ends a cooldown that is still running.
MarkProviderSuccess(p) ==
  /\ providerFailures' = [providerFailures EXCEPT ![p] = 0]
  /\ cooling' = cooling \ {p}

CooldownElapses(p) ==
  /\ p \in cooling
  /\ cooling' = cooling \ {p}
  /\ UNCHANGED providerFailures
=============================================================================
