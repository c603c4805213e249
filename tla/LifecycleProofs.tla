--------------------------- MODULE LifecycleProofs ---------------------------
(***************************************************************************)
(* Proofs about the life of the process, for any requests and profiles.    *)
(*                                                                         *)
(* LifecycleInv is inductive.  An exit with status 0 is a step out of its  *)
(* states with draining = "gateway": the diagnostics server is idle by the *)
(* invariant and the gateway by the guard, so the exit cuts nothing off.   *)
(***************************************************************************)
EXTENDS Lifecycle, TLAPS

USE DEF Servers, Work, environment, process, traffic, vars

\* What main does up to the point where it waits.
LEMMA StartingKeepsInv ==
  ASSUME LifecycleInv, Starting
  PROVE  LifecycleInv' /\ CutIsForced'
<1> USE DEF LifecycleInv, TypeOK, ListenerStates, WorkStates, ReportStates,
            Running, NothingCut, Idle, WorkOf, CutIsForced
<1>1. CASE Load          BY <1>1 DEF Load
<1>2. CASE RefuseConfig  BY <1>2 DEF RefuseConfig, Exit
<1>3. CASE StartServers  BY <1>3 DEF StartServers
<1>4. CASE RefuseDiagnostics BY <1>4 DEF RefuseDiagnostics, Exit
<1>5. CASE Notify        BY <1>5 DEF Notify
<1> QED BY <1>1, <1>2, <1>3, <1>4, <1>5 DEF Starting

\* The steps of a shutdown.
LEMMA StoppingKeepsInv ==
  ASSUME LifecycleInv, Stopping
  PROVE  LifecycleInv' /\ CutIsForced'
<1> USE DEF LifecycleInv, TypeOK, ListenerStates, WorkStates, ReportStates,
            Running, NothingCut, Idle, WorkOf, CutIsForced
<1>1. CASE StopOnSignal      BY <1>1 DEF StopOnSignal, Stop, Closed
<1>2. CASE StopOnDiagnostics BY <1>2 DEF StopOnDiagnostics, Stop, Closed
<1>3. CASE FinishDiagnostics BY <1>3 DEF FinishDiagnostics, Closed
<1>4. CASE FinishGateway     BY <1>4 DEF FinishGateway, Exit
<1>5. CASE Pause             BY <1>5 DEF Pause
<1>6. CASE PollAgain         BY <1>6 DEF PollAgain
<1>7. CASE GiveUp            BY <1>7 DEF GiveUp, Exit
<1> QED BY <1>1, <1>2, <1>3, <1>4, <1>5, <1>6, <1>7 DEF Stopping

\* Listeners, work and reports.
LEMMA GoroutinesKeepInv ==
  ASSUME LifecycleInv, Goroutines
  PROVE  LifecycleInv' /\ CutIsForced'
<1> USE DEF LifecycleInv, TypeOK, ListenerStates, WorkStates, ReportStates,
            Running, NothingCut, Idle, WorkOf, CutIsForced
<1>1. CASE BeginListening   BY <1>1 DEF BeginListening, MoveListener
<1>2. CASE Bind             BY <1>2 DEF Bind, MoveListener
<1>3. CASE FailGateway      BY <1>3 DEF FailGateway
<1>4. CASE FailDiagnostics  BY <1>4 DEF FailDiagnostics, MoveListener
<1>5. CASE \E s \in Servers : \E w \in Work : Accept(s, w)  BY <1>5 DEF Accept
<1>6. CASE \E w \in Work : Answer(w)  BY <1>6 DEF Answer
<1>7. CASE \E r \in Requests : StartReport(r) \/ EndReport(r)
  BY <1>7 DEF StartReport, EndReport
<1> QED BY <1>1, <1>2, <1>3, <1>4, <1>5, <1>6, <1>7 DEF Goroutines

\* Every step preserves the invariant, and leads to a state in which whatever
\* was cut off was cut off for a reason.
LEMMA StepKeepsInv ==
  ASSUME LifecycleInv, CutIsForced, [Next]_vars
  PROVE  LifecycleInv' /\ CutIsForced'
<1> USE DEF LifecycleInv, TypeOK, ListenerStates, WorkStates, ReportStates,
            Running, NothingCut, Idle, WorkOf, CutIsForced
<1>1. CASE SpendBudget  BY <1>1 DEF SpendBudget
<1>2. CASE Signal       BY <1>2 DEF Signal
<1>3. CASE Kill         BY <1>3 DEF Kill, Exit
<1>4. CASE Gone \/ UNCHANGED vars  BY <1>4 DEF Gone
<1> QED BY <1>1, <1>2, <1>3, <1>4, StartingKeepsInv, StoppingKeepsInv,
           GoroutinesKeepInv DEF Next

\* The invariant of the process, and that work is cut off and the process fails
\* only for the reasons main.go and net/http have.
THEOREM LifecycleCorrect == Spec => [](LifecycleInv /\ CutIsForced)
<1>1. Init => LifecycleInv /\ CutIsForced
  BY DEF Init, LifecycleInv, TypeOK, ListenerStates, WorkStates, ReportStates,
         Running, NothingCut, Idle, WorkOf, CutIsForced
<1> QED BY <1>1, StepKeepsInv, PTL DEF Spec

\* A step into an exit with status 0 is the end of the gateway's drain.
LEMMA StepKeepsDrained ==
  ASSUME LifecycleInv, ZeroMeansDrained, [Next]_vars
  PROVE  ZeroMeansDrained'
<1> USE DEF ZeroMeansDrained, LifecycleInv, Running, NothingCut
<1>1. CASE Starting
  BY <1>1 DEF Starting, Load, RefuseConfig, StartServers, RefuseDiagnostics,
              Notify, Exit
<1>2. CASE FinishGateway
  <2>1. Idle("gateway") /\ Idle("diagnostics")  BY <1>2 DEF FinishGateway
  <2>2. NothingCut'  BY <1>2, <2>1 DEF FinishGateway, Exit, Idle, WorkOf
  <2> QED BY <1>2, <2>2 DEF FinishGateway, Exit
<1>3. CASE Stopping /\ ~FinishGateway
  BY <1>3 DEF Stopping, StopOnSignal, StopOnDiagnostics, Stop,
              FinishDiagnostics, Pause, PollAgain, GiveUp, Exit
<1>4. CASE Goroutines
  BY <1>4 DEF Goroutines, BeginListening, Bind, FailGateway, FailDiagnostics,
              MoveListener, Accept, Answer, StartReport,
              EndReport
<1>5. CASE SpendBudget \/ Signal \/ Kill \/ Gone \/ UNCHANGED vars
  BY <1>5 DEF SpendBudget, Signal, Kill, Exit, Gone
<1> QED BY <1>1, <1>2, <1>3, <1>4, <1>5 DEF Next

\* Status 0 is a promise: the process was asked to stop and nothing it was
\* serving was cut off.
THEOREM ZeroIsDrained == Spec => []ZeroMeansDrained
<1>1. Init => ZeroMeansDrained  BY DEF Init, ZeroMeansDrained
<1> QED BY <1>1, StepKeepsDrained, LifecycleCorrect, PTL DEF Spec
=============================================================================
