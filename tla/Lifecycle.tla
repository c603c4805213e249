------------------------------ MODULE Lifecycle ------------------------------
(***************************************************************************)
(* The life of the process: start, signals, the optional diagnostics       *)
(* server, the shutdown of both servers under one budget, and the usage    *)
(* reports that outlive their requests (cmd/go-feather-route/main.go,      *)
(* internal/diagnostics/pprof.go, internal/usage/reporter.go).             *)
(*                                                                         *)
(* A piece of work is a gateway request or a profile being downloaded; it  *)
(* is served from the moment its connection is accepted.  What net/http    *)
(* does in Shutdown is modelled with it: close the listeners, then poll    *)
(* for idle connections until there is nothing else or the context ends.   *)
(***************************************************************************)
EXTENDS FiniteSets

CONSTANTS
  Requests,    \* requests to the gateway
  Profiles     \* requests to the diagnostics server

ASSUME WorkAssumption == Requests \intersect Profiles = {}

Work    == Requests \union Profiles
Servers == {"diagnostics", "gateway"}

WorkOf(s) == IF s = "gateway" THEN Requests ELSE Profiles

VARIABLES
  config,      \* "good", or "bad": it does not load or has no API key
  address,     \* where diagnostics listen: "none", "good", "bad"
  main,        \* where the main goroutine is
  draining,    \* the server it is shutting down, or "none"
  stop,        \* what it was asked to stop by (history)
  exit,        \* how the process ended, "none" while it runs
  listener,    \* the listener of each server
  signalled,   \* a signal is in the channel
  budget,      \* the ten seconds of a shutdown: "unset", "running", "spent"
  work,        \* what became of each piece of work
  report       \* what became of the usage report of each request

environment == <<config, address>>
process     == <<main, draining, stop, budget>>
traffic     == <<work, report>>

vars == <<environment, process, exit, listener, signalled, traffic>>

ListenerStates == {"off", "unbound", "binding", "serving", "failed", "closed"}
WorkStates     == {"outside", "serving", "answered", "cut"}
ReportStates   == {"none", "posting", "over", "lost"}

TypeOK ==
  /\ config \in {"good", "bad"} /\ address \in {"none", "good", "bad"}
  /\ main \in {"loading", "starting", "notifying", "waiting",
               "polling", "pausing"}
  /\ draining \in Servers \union {"none"}
  /\ stop \in {"none", "signal", "diagnostics"}
  /\ exit \in {"none", "success", "failure", "killed"}
  /\ listener \in [Servers -> ListenerStates]
  /\ signalled \in BOOLEAN
  /\ budget \in {"unset", "running", "spent"}
  /\ work \in [Work -> WorkStates]
  /\ report \in [Requests -> ReportStates]

Init ==
  /\ config \in {"good", "bad"}
  /\ address \in {"none", "good", "bad"}
  /\ main = "loading"
  /\ draining = "none"
  /\ stop = "none"
  /\ exit = "none"
  /\ listener = [s \in Servers |-> "off"]
  /\ signalled = FALSE
  /\ budget = "unset"
  /\ work = [w \in Work |-> "outside"]
  /\ report = [r \in Requests |-> "none"]

Running == exit = "none"
Idle(s) == \A w \in WorkOf(s) : work[w] # "serving"

\* The end of the process, with everything it was doing.
Exit(status) ==
  /\ exit' = status
  /\ work' = [w \in Work |-> IF work[w] = "serving" THEN "cut" ELSE work[w]]
  /\ report' = [r \in Requests |->
                  IF report[r] = "posting" THEN "lost" ELSE report[r]]
  /\ UNCHANGED <<environment, process, listener, signalled>>

-----------------------------------------------------------------------------
\* main, up to the point where it waits.
Load ==
  /\ Running /\ main = "loading"
  /\ config = "good"
  /\ main' = "starting"
  /\ UNCHANGED <<environment, draining, stop, budget, exit, listener,
                 signalled, traffic>>

RefuseConfig == Running /\ main = "loading" /\ config = "bad" /\ Exit("failure")

\* diagnostics.Start binds before it returns; without an address there is no
\* server.  Then the gateway's goroutine is started.
StartServers ==
  /\ Running /\ main = "starting"
  /\ address # "bad"
  /\ main' = "notifying"
  /\ listener' = [s \in Servers |->
                    IF s = "gateway" THEN "unbound"
                    ELSE IF address = "good" THEN "serving" ELSE "off"]
  /\ UNCHANGED <<environment, draining, stop, budget, exit, signalled, traffic>>

\* The address is not a loopback address or cannot be bound.
RefuseDiagnostics ==
  Running /\ main = "starting" /\ address = "bad" /\ Exit("failure")

Notify ==
  /\ Running /\ main = "notifying"
  /\ main' = "waiting"
  /\ UNCHANGED <<environment, draining, stop, budget, exit, listener,
                 signalled, traffic>>

\* SIGINT or SIGTERM: in the channel, which holds one, or fatal before Notify.
Signal ==
  /\ Running
  /\ main \in {"waiting", "polling", "pausing"}
  /\ ~signalled
  /\ signalled' = TRUE
  /\ UNCHANGED <<environment, process, exit, listener, traffic>>

Kill ==
  /\ Running
  /\ main \in {"loading", "starting", "notifying"}
  /\ Exit("killed")

-----------------------------------------------------------------------------
\* The shutdown: the diagnostics server first, then the gateway, one budget.
Closed(s) == [listener EXCEPT ![s] = IF @ = "serving" THEN "closed" ELSE @]

Stop(why) ==
  /\ Running /\ main = "waiting"
  /\ stop' = why
  /\ budget' = "running"
  /\ main' = "polling"
  /\ draining' = "diagnostics"
  /\ listener' = Closed("diagnostics")
  /\ UNCHANGED <<environment, exit, traffic>>

StopOnSignal == signalled /\ Stop("signal") /\ signalled' = FALSE

\* The error of the diagnostics server stops the gateway as well.
StopOnDiagnostics ==
  /\ listener["diagnostics"] = "failed"
  /\ Stop("diagnostics")
  /\ UNCHANGED signalled

\* Mutant: the gateway is not drained.
FinishDiagnostics_ExitsAtOnce ==
  /\ Running /\ main = "polling" /\ draining = "diagnostics"
  /\ Idle("diagnostics")
  /\ Exit("success")

\* Mutant: profiles are not waited for.
FinishDiagnostics_Undrained ==
  /\ Running /\ main = "polling" /\ draining = "diagnostics"
  /\ draining' = "gateway"
  /\ listener' = Closed("gateway")
  /\ UNCHANGED <<environment, main, stop, budget, exit, signalled, traffic>>

FinishDiagnostics ==
  /\ Running /\ main = "polling" /\ draining = "diagnostics"
  /\ Idle("diagnostics")
  /\ draining' = "gateway"
  /\ listener' = Closed("gateway")
  /\ UNCHANGED <<environment, main, stop, budget, exit, signalled, traffic>>

FinishGateway ==
  /\ Running /\ main = "polling" /\ draining = "gateway"
  /\ Idle("gateway")
  /\ Exit("success")

Pause ==
  /\ Running /\ main = "polling"
  /\ ~Idle(draining)
  /\ main' = "pausing"
  /\ UNCHANGED <<environment, draining, stop, budget, exit, listener,
                 signalled, traffic>>

PollAgain ==
  /\ Running /\ main = "pausing"
  /\ main' = "polling"
  /\ UNCHANGED <<environment, draining, stop, budget, exit, listener,
                 signalled, traffic>>

GiveUp_Early == Running /\ main = "pausing" /\ Exit("failure")    \* mutant

GiveUp_Never == FALSE    \* mutant: the shutdown waits without a deadline

GiveUp ==
  /\ Running /\ main = "pausing"
  /\ budget = "spent"
  /\ Exit("failure")

SpendBudget ==
  /\ Running /\ budget = "running"
  /\ budget' = "spent"
  /\ UNCHANGED <<environment, main, draining, stop, exit, listener, signalled,
                 traffic>>

-----------------------------------------------------------------------------
\* The goroutines of the servers.
MoveListener(s, from, to) ==
  /\ Running
  /\ listener[s] = from
  /\ listener' = [listener EXCEPT ![s] = to]
  /\ UNCHANGED <<environment, process, exit, signalled, traffic>>

\* ListenAndServe looks for a shutdown before it binds and after.
BeginListening ==
  MoveListener("gateway", "unbound",
               IF draining = "gateway" THEN "closed" ELSE "binding")

Bind ==
  MoveListener("gateway", "binding",
               IF draining = "gateway" THEN "closed" ELSE "serving")

\* The address is taken, or the listener breaks.
FailGateway ==
  /\ Running
  /\ listener["gateway"] \in {"binding", "serving"}
  /\ exit' = "failure"
  /\ listener' = [listener EXCEPT !["gateway"] = "failed"]
  /\ work' = [w \in Work |-> IF work[w] = "serving" THEN "cut" ELSE work[w]]
  /\ report' = [r \in Requests |->
                  IF report[r] = "posting" THEN "lost" ELSE report[r]]
  /\ UNCHANGED <<environment, process, signalled>>

FailDiagnostics == MoveListener("diagnostics", "serving", "failed")

-----------------------------------------------------------------------------
\* The work, and the reports nobody waits for.
Accept(s, w) ==
  /\ Running
  /\ w \in WorkOf(s) /\ work[w] = "outside"
  /\ listener[s] = "serving"
  /\ work' = [work EXCEPT ![w] = "serving"]
  /\ UNCHANGED <<environment, process, exit, listener, signalled, report>>

Answer(w) ==
  /\ Running
  /\ work[w] = "serving"
  /\ work' = [work EXCEPT ![w] = "answered"]
  /\ UNCHANGED <<environment, process, exit, listener, signalled, report>>

\* The last thing a handler does is to start the report, if an endpoint is
\* configured and the request came to an upstream response.
StartReport(r) ==
  /\ Running
  /\ work[r] = "serving" /\ report[r] = "none"
  /\ report' = [report EXCEPT ![r] = "posting"]
  /\ UNCHANGED <<environment, process, exit, listener, signalled, work>>

\* The collector answers, or the report's own deadline passes.
EndReport(r) ==
  /\ Running
  /\ report[r] = "posting"
  /\ report' = [report EXCEPT ![r] = "over"]
  /\ UNCHANGED <<environment, process, exit, listener, signalled, work>>

Gone == ~Running /\ UNCHANGED vars

-----------------------------------------------------------------------------
Starting == Load \/ RefuseConfig \/ StartServers \/ RefuseDiagnostics \/ Notify

Stopping == StopOnSignal \/ StopOnDiagnostics \/ FinishDiagnostics
              \/ FinishGateway \/ Pause \/ PollAgain \/ GiveUp

Goroutines ==
  \/ BeginListening \/ Bind \/ FailGateway \/ FailDiagnostics
  \/ \E s \in Servers : \E w \in Work : Accept(s, w)
  \/ \E w \in Work : Answer(w)
  \/ \E r \in Requests : StartReport(r) \/ EndReport(r)

Next == Starting \/ Stopping \/ SpendBudget \/ Goroutines
          \/ Signal \/ Kill \/ Gone

Spec == Init /\ [][Next]_vars

\* The main goroutine runs and the timers fire.  When both the poll timer and
\* the context are ready select takes either, and not for ever the same one.
\* Nothing is assumed of handlers, clients, collectors or signals.
FairSpec ==
  /\ Spec
  /\ WF_vars(Starting) /\ WF_vars(Stopping) /\ WF_vars(SpendBudget)
  /\ SF_vars(GiveUp)

-----------------------------------------------------------------------------
NothingCut == \A w \in Work : work[w] # "cut"

\* An exit with status 0 means that somebody asked for it and that no request
\* and no profile was cut off.
ZeroMeansDrained == exit = "success" => stop # "none" /\ NothingCut

\* Work is cut off, and the process fails, only for a reason: it could not
\* start, its listener failed, the budget was spent while something was still
\* being served, or a signal came before anybody listened for it.
CutIsForced ==
  /\ exit = "failure" =>
       \/ config = "bad" \/ address = "bad"
       \/ listener["gateway"] = "failed"
       \/ budget = "spent" /\ main = "pausing"
  /\ ~NothingCut =>
       \/ exit = "killed" /\ main = "notifying"
       \/ exit = "failure" /\ main \notin {"loading", "starting"}

\* While the gateway is drained nothing is left of the diagnostics server and
\* neither listener accepts; before the servers start there is no work; while
\* the process runs nothing was cut off.
LifecycleInv ==
  /\ TypeOK
  /\ main \in {"polling", "pausing"} <=> draining # "none"
  /\ draining # "none" =>
       stop # "none" /\ listener["diagnostics"] # "serving"
  /\ draining = "gateway" =>
       Idle("diagnostics") /\ listener["gateway"] # "serving"
  /\ main \in {"loading", "starting"} =>
       /\ \A s \in Servers : listener[s] = "off"
       /\ \A w \in Work : work[w] = "outside"
  /\ Running => NothingCut

\* A signal, or a diagnostics server that broke, ends the process within the
\* budget, whatever handlers and clients do.
StopsWhenAsked ==
  (main = "waiting" /\ (signalled \/ listener["diagnostics"] = "failed"))
    ~> exit # "none"
=============================================================================
