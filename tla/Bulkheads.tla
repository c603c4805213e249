------------------------------ MODULE Bulkheads ------------------------------
(***************************************************************************)
(* What admission promises, without semaphores, providers or failures:     *)
(* each class of requests is served by at most Limit[k] handlers at a      *)
(* time, a request is served at most once, and only after it has waited.   *)
(***************************************************************************)
EXTENDS Naturals, FiniteSets

CONSTANTS Requests, Kinds, Limit

VARIABLES
  phase,   \* how far each request has come
  kind     \* the class of each request

vars == <<phase, kind>>

Phases == {"outside", "waiting", "serving", "gone"}

Serving(k) == {r \in Requests : kind[r] = k /\ phase[r] = "serving"}

Init ==
  /\ phase = [r \in Requests |-> "outside"]
  /\ kind \in [Requests -> Kinds]

Move(r, from, to) ==
  /\ phase[r] = from
  /\ phase' = [phase EXCEPT ![r] = to]
  /\ UNCHANGED kind

Join(r)     == Move(r, "outside", "waiting")
Refuse(r)   == Move(r, "outside", "gone")
Withdraw(r) == Move(r, "waiting", "gone")
Finish(r)   == Move(r, "serving", "gone")

Admit(r) ==
  /\ Cardinality(Serving(kind[r])) < Limit[kind[r]]
  /\ Move(r, "waiting", "serving")

Next ==
  \E r \in Requests :
    Join(r) \/ Refuse(r) \/ Admit(r) \/ Withdraw(r) \/ Finish(r)

Spec == Init /\ [][Next]_vars
=============================================================================
