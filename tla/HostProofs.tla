----------------------------- MODULE HostProofs -----------------------------
(***************************************************************************)
(* Proofs about the host loop, for any number of services and tasks.       *)
(***************************************************************************)
EXTENDS Host, SuperviseProofs

\* What the index variables need for their types: the current task exists
\* while it runs, and so does the service the stop loop waits for.
Indices ==
  /\ hpc = "taskRun" => task <= NTasks
  /\ hpc \in {"waitStop", "waitDone"} => cur > 0

\* The supervisors' steps do not touch the host, and keep their own types.
LEMMA SupStepTypes ==
  ASSUME SupTypeOK, NEW i \in Services, Service(i) \/ Supervisor(i)
  PROVE  SupTypeOK'
BY SupTypesStep DEF SupNext

LEMMA TypesInv == Spec => [](TypeOK /\ Indices)
<1> USE ServicesAssumption, HostAssumption
<1>1. Init => TypeOK /\ Indices
  <2> SUFFICES ASSUME Init PROVE TypeOK /\ Indices
    OBVIOUS
  <2>1. SupTypeOK
    BY SupTypesInit DEF Init
  <2>2. task \in 1..NTasks + 1 /\ launched \in 0..N /\ cur \in 0..N /\ cause \in 0..N
    BY DEF Init
  <2>3. HostTypeOK /\ Indices
    BY <2>2 DEF Init, HostTypeOK, HostStates, Indices
  <2> QED BY <2>1, <2>3 DEF TypeOK
<1>2. TypeOK /\ Indices /\ [Next]_vars => TypeOK' /\ Indices'
  <2> SUFFICES ASSUME TypeOK, Indices, [Next]_vars PROVE TypeOK' /\ Indices'
    OBVIOUS
  <2>0. SupTypeOK /\ HostTypeOK
    BY DEF TypeOK
  <2> USE DEF HostTypeOK, HostStates, Indices, Err, Whys
  <2>1. ASSUME UNCHANGED supVars PROVE SupTypeOK'
    BY <2>0, <2>1, SupTypesStep
  <2>2. ASSUME NEW from, NEW to \in HostStates \ {"taskRun", "waitStop", "waitDone"}, Move(from, to)
        PROVE  TypeOK' /\ Indices'
    BY <2>0, <2>1, <2>2 DEF Move, startVars, stopVars, TypeOK
  <2>3. CASE AbortTasks \/ TasksDone \/ TaskCanceled \/ AllLaunched \/ AwaitReady \/ TakeRequest \/ RunOnStarted
    BY <2>2, <2>3 DEF AbortTasks, TasksDone, TaskCanceled, AllLaunched, AwaitReady, TakeRequest, RunOnStarted
  <2>4. CASE BeginTask
    BY <2>0, <2>1, <2>4 DEF BeginTask, Move, startVars, stopVars, TypeOK
  <2>5. CASE TaskSucceeds
    BY <2>0, <2>1, <2>5 DEF TaskSucceeds, stopVars, TypeOK
  <2>6. CASE TaskFails
    BY <2>0, <2>1, <2>6 DEF TaskFails, startVars, stopVars, TypeOK
  <2>7. CASE LaunchNext
    <3>1. launched + 1 \in Services
      BY <2>0, <2>7 DEF LaunchNext, Services
    <3>2. SupTypeOK'
      BY <2>0, <2>7, <3>1, SupTypesStep DEF LaunchNext, SupNext, AnyHost
    <3> QED BY <2>0, <2>7, <3>1, <3>2 DEF LaunchNext, Services, stopVars, TypeOK
  <2>8. CASE AwaitTimedOut
    BY <2>0, <2>1, <2>8 DEF AwaitTimedOut, startVars, stopVars, TypeOK
  <2>9. CASE TakeCause
    <3>1. SupTypeOK'
      BY <2>0, <2>9, SupTypesStep DEF TakeCause, TakeCauseAt, SupNext, AnyHost
    <3>2. Head(exits).svc \in Services
      <4>1. exits # <<>> /\ exits \in Seq(Exit)
        BY <2>0, <2>9 DEF TakeCause, TakeCauseAt, TakeExit, SupTypeOK
      <4>2. Head(exits) \in Exit
        BY <4>1
      <4> QED BY <4>2 DEF Exit
    <3>3. ExitErr(Head(exits)) \in [svc : 0..N, why : Whys]
      BY <3>2 DEF ExitErr, Services
    <3> QED BY <2>0, <2>9, <3>1, <3>2, <3>3 DEF TakeCause, TakeCauseAt, Services, startVars, stopVars, TypeOK
  <2>10. CASE BeginStopping
    <3>1. SupTypeOK'
      BY <2>0, <2>10, SupTypesStep DEF BeginStopping, SupNext, AnyHost
    <3> QED BY <2>0, <2>10, <3>1 DEF BeginStopping, startVars, stopVars, TypeOK
  <2>11. CASE RunOnStopping
    BY <2>0, <2>1, <2>11 DEF RunOnStopping, startVars, TypeOK
  <2>12. CASE StopNext
    <3>1. cur \in Services
      BY <2>0, <2>12 DEF StopNext, StopCurrent, Services
    <3>2. SupTypeOK'
      BY <2>0, <2>12, <3>1, SupTypesStep DEF StopNext, StopCurrent, SupNext, AnyHost
    <3> QED BY <2>0, <2>12, <3>1, <3>2 DEF StopNext, StopCurrent, startVars, TypeOK
  <2>13. CASE StopReturned
    BY <2>0, <2>1, <2>13 DEF StopReturned, StopErrs, startVars, stopVars, TypeOK
  <2>14. CASE ServiceStopped \/ Abandon
    BY <2>0, <2>1, <2>14 DEF ServiceStopped, Abandon, AbandonAt, Conclude, SvcErr, startVars, TypeOK
  <2>15. CASE AllStopped
    BY <2>0, <2>1, <2>15 DEF AllStopped, startVars, TypeOK
  <2>16. CASE Return
    <3>1. SupTypeOK'
      BY <2>0, <2>16 DEF Return, SupTypeOK, Services
    <3> QED BY <2>0, <2>16, <3>1 DEF Return, startVars, stopVars, TypeOK
  <2>17. CASE CancelCtx \/ Shutdown \/ DeadlineExpires \/ CancelTaskCtx
    <3>1. CASE CancelCtx
      BY <2>0, <2>1, <3>1 DEF CancelCtx, startVars, stopVars, TypeOK
    <3>2. CASE Shutdown
      BY <2>0, <2>1, <3>2 DEF Shutdown, startVars, stopVars, TypeOK
    <3>3. CASE DeadlineExpires
      BY <2>0, <2>1, <3>3 DEF DeadlineExpires, startVars, stopVars, TypeOK
    <3>4. CASE CancelTaskCtx
      BY <2>0, <2>1, <3>4 DEF CancelTaskCtx, startVars, stopVars, TypeOK
    <3> QED BY <2>17, <3>1, <3>2, <3>3, <3>4
  <2>18. ASSUME NEW i \in Services, StopReturns(i) PROVE TypeOK' /\ Indices'
    <3>1. stopRes' \in [Services -> {"none", "running", "nil", "err"}]
      BY <2>0, <2>18 DEF StopReturns
    <3> QED BY <2>0, <2>1, <2>18, <3>1 DEF StopReturns, startVars, TypeOK
  <2>19. ASSUME NEW i \in Services, SupStep(i) PROVE TypeOK' /\ Indices'
    <3>1. SupTypeOK'
      BY <2>0, <2>19, SupStepTypes DEF SupStep
    <3> QED BY <2>0, <2>19, <3>1 DEF SupStep, hostVars, TypeOK
  <2>20. CASE UNCHANGED vars
    BY <2>0, <2>1, <2>20 DEF vars, hostVars, TypeOK
  <2> QED BY <2>3, <2>4, <2>5, <2>6, <2>7, <2>8, <2>9, <2>10, <2>11, <2>12, <2>13, <2>14,
             <2>15, <2>16, <2>17, <2>18, <2>19, <2>20
          DEF Next, HostStep, Environment, Terminated
<1> QED BY <1>1, <1>2, PTL DEF Spec

\* The types of the whole state: no step leaves the range of an index, joins
\* an error about a service that does not exist, or cancels one.
THEOREM HostTypes == Spec => []TypeOK
BY TypesInv, PTL

-----------------------------------------------------------------------------
(* What the supervisors leave alone, as the host sees it.                  *)

LEMMA SupStepEffect ==
  ASSUME SupTypeOK, NEW i \in Services, Service(i) \/ Supervisor(i)
  PROVE  /\ UNCHANGED <<svcCtx, stopping>>
         /\ ready \subseteq ready'
         /\ \A j \in Services : sup'[j] # "none" <=> sup[j] # "none"
         /\ \A j \in Services : done[j] # "empty" => done'[j] = done[j]
         /\ \A j \in Services : sup[j] = "end" => sup'[j] = "end" /\ attempts'[j] = attempts[j]
<1> USE DEF SupTypeOK, SupStates, Results, Goto
<1>1. CASE Service(i)
  BY <1>1 DEF Service, BeginStart, BecomeReady, ReturnFromStart
<1>2. CASE StopAfterReturn(i) \/ DeliverGiveUp(i) \/ QuitBackoff(i)
  BY <1>2 DEF StopAfterReturn, DeliverGiveUp, QuitBackoff, SendDone
<1>3. CASE ExitUnsupervised(i) \/ Retry(i) \/ Exhaust(i) \/ ReportExit(i) \/ BackoffElapsed(i)
  BY <1>3 DEF ExitUnsupervised, Retry, Exhaust, ReportExit, BackoffElapsed
<1> QED BY <1>1, <1>2, <1>3 DEF Supervisor

-----------------------------------------------------------------------------
(* Startup.                                                                *)

\* The strengthening of StartupGate: how far the launch loop is, at each place
\* of the host goroutine.
StartInv ==
  /\ hpc \in {"tasks", "taskRun"} => launched = 0
  /\ hpc \in {"launch", "await", "onStarted", "serve"} \/ launched > 0 => task = NTasks + 1
  /\ hpc = "await" => launched > 0
  /\ hpc \in {"onStarted", "serve"} => launched = N
  /\ \A i \in Services : sup[i] # "none" <=> i <= launched
  /\ \A j \in Readiers : j < launched => j \in ready
  /\ \A j \in Readiers : hpc \in {"launch", "onStarted", "serve"} /\ j <= launched => j \in ready

LEMMA StartInvStep == TypeOK /\ Indices /\ StartInv /\ [Next]_vars => StartInv'
<1> SUFFICES ASSUME TypeOK, Indices, StartInv, [Next]_vars PROVE StartInv'
  OBVIOUS
<1> USE ServicesAssumption, HostAssumption DEF StartInv
<1>0. /\ SupTypeOK
      /\ launched \in 0..N
      /\ task \in 1..NTasks + 1
      /\ hpc = "taskRun" => task <= NTasks
      /\ sup \in [Services -> SupStates]
  BY DEF TypeOK, HostTypeOK, SupTypeOK, Indices
<1>1. CASE BeginTask \/ AbortTasks \/ TaskCanceled \/ AllLaunched \/ AwaitReady \/ TakeRequest \/ RunOnStarted
  BY <1>0, <1>1 DEF BeginTask, AbortTasks, TaskCanceled, AllLaunched, AwaitReady, TakeRequest,
                    RunOnStarted, Move, startVars, supVars, Services
<1>2. CASE TasksDone
  BY <1>0, <1>2 DEF TasksDone, Move, startVars, supVars, Services
<1>3. CASE TaskSucceeds \/ TaskFails \/ AwaitTimedOut
  BY <1>0, <1>3 DEF TaskSucceeds, TaskFails, AwaitTimedOut, startVars, supVars
<1>4. CASE LaunchNext
  BY <1>0, <1>4 DEF LaunchNext, Awaited, Launch, Goto, Services
<1>5. CASE TakeCause \/ BeginStopping
  BY <1>0, <1>5 DEF TakeCause, TakeCauseAt, TakeExit, BeginStopping, CloseStopping, startVars
<1>6. CASE RunOnStopping \/ StopReturned \/ ServiceStopped \/ Abandon \/ AllStopped
  BY <1>0, <1>6 DEF RunOnStopping, StopReturned, ServiceStopped, Abandon, AbandonAt, Conclude,
                    AllStopped, startVars, supVars
<1>7. CASE StopNext \/ Return
  BY <1>0, <1>7 DEF StopNext, StopCurrent, Cancel, Return, startVars
<1>8. CASE CancelCtx \/ Shutdown \/ DeadlineExpires \/ CancelTaskCtx
  BY <1>0, <1>8 DEF CancelCtx, Shutdown, DeadlineExpires, CancelTaskCtx, startVars, supVars
<1>9. ASSUME NEW i \in Services, StopReturns(i) PROVE StartInv'
  BY <1>0, <1>9 DEF StopReturns, startVars, supVars
<1>10. ASSUME NEW i \in Services, SupStep(i) PROVE StartInv'
  BY <1>0, <1>10, SupStepEffect DEF SupStep, hostVars, startVars
<1>11. CASE UNCHANGED vars
  BY <1>0, <1>11 DEF vars, hostVars, startVars, supVars
<1> QED BY <1>1, <1>2, <1>3, <1>4, <1>5, <1>6, <1>7, <1>8, <1>9, <1>10, <1>11
        DEF Next, HostStep, Environment, Terminated

\* No service runs before every startup task succeeded and every Readier
\* registered before it is ready; the host is started only with all of them.
THEOREM StartupGated == Spec => []StartupGate
<1>1. Init => StartInv
  BY ServicesAssumption, HostAssumption DEF Init, SupInit, StartInv, Services
<1>2. TypeOK /\ StartInv => StartupGate
  BY ServicesAssumption DEF TypeOK, HostTypeOK, StartInv, StartupGate, Services
<1> QED BY TypesInv, StartInvStep, <1>1, <1>2, PTL DEF Spec

-----------------------------------------------------------------------------
(* Stopping.                                                               *)

\* stopAll has come to service i; and is done with it.
Reached(i) ==
  /\ i <= launched
  /\ \/ hpc \in {"stop", "onStopped", "returned"} /\ cur < i
     \/ hpc \in {"waitStop", "waitDone"} /\ cur <= i

Passed(i) == i <= launched /\ hpc \in StopLoop \cup {"onStopped", "returned"} /\ cur < i

\* The strengthening of the shutdown properties: the loop variable says which
\* services were cancelled, got their Stop call, and had their outcome told;
\* what lies behind the loop is settled unless the deadline has expired.
StopInv ==
  /\ stopping <=> hpc \in {"onStopping", "onStopped", "returned"} \cup StopLoop
  /\ cur <= launched
  /\ hpc \in {"onStopped", "returned"} => cur = 0
  /\ hpc = "waitDone" => stopRes[cur] \in {"nil", "err"}
  /\ hpc = "onStopping" \/ ~stopping => deadline = "none"
  /\ \A i \in Services :
       /\ i \in svcCtx <=> Reached(i)
       /\ stopRes[i] # "none" <=> Reached(i)
       /\ told[i] # "none" <=> Passed(i)
       /\ Passed(i) /\ deadline # "expired" => Settled(i)

LEMMA StopInvStep == TypeOK /\ Indices /\ StartInv /\ StopInv /\ [Next]_vars => StopInv'
<1> SUFFICES ASSUME TypeOK, Indices, StartInv, StopInv, [Next]_vars PROVE StopInv'
  OBVIOUS
<1> USE ServicesAssumption, HostAssumption DEF StopInv, Reached, Passed, Settled, StopLoop
<1>0. /\ SupTypeOK
      /\ launched \in 0..N
      /\ cur \in 0..N
      /\ hpc \in {"waitStop", "waitDone"} => cur > 0
      /\ hpc \in {"tasks", "taskRun"} => launched = 0
      /\ stopRes \in [Services -> {"none", "running", "nil", "err"}]
      /\ told \in [Services -> {"none", "nil", "err"}]
      /\ deadline \in {"none", "armed", "expired", "released"}
  BY DEF TypeOK, HostTypeOK, Indices, StartInv
<1>1. CASE BeginTask \/ AbortTasks \/ TasksDone \/ TaskCanceled \/ AllLaunched \/ AwaitReady \/ TakeRequest \/ RunOnStarted
  BY <1>0, <1>1 DEF BeginTask, AbortTasks, TasksDone, TaskCanceled, AllLaunched, AwaitReady, TakeRequest,
                    RunOnStarted, Move, startVars, stopVars, supVars, Services
<1>2. CASE TaskSucceeds \/ TaskFails \/ AwaitTimedOut
  BY <1>0, <1>2 DEF TaskSucceeds, TaskFails, AwaitTimedOut, startVars, stopVars, supVars
<1>3. CASE LaunchNext
  BY <1>0, <1>3 DEF LaunchNext, Awaited, Launch, Goto, stopVars, Services
<1>4. CASE TakeCause
  BY <1>0, <1>4 DEF TakeCause, TakeCauseAt, TakeExit, startVars, stopVars
<1>5. CASE BeginStopping
  BY <1>0, <1>5 DEF BeginStopping, CloseStopping, startVars, stopVars
<1>6. CASE RunOnStopping
  BY <1>0, <1>6 DEF RunOnStopping, startVars, supVars, Services
<1>7. CASE StopNext
  BY <1>0, <1>7 DEF StopNext, StopCurrent, Cancel, startVars, Services
<1>8. CASE StopReturned
  BY <1>0, <1>8 DEF StopReturned, startVars, stopVars, supVars
<1>9. CASE ServiceStopped
  BY <1>0, <1>9 DEF ServiceStopped, Conclude, SvcErr, startVars, supVars, Services
<1>10. CASE Abandon
  BY <1>0, <1>10 DEF Abandon, AbandonAt, Conclude, startVars, supVars, Services
<1>11. CASE AllStopped
  BY <1>0, <1>11 DEF AllStopped, startVars, supVars, Services
<1>12. CASE Return
  BY <1>0, <1>12 DEF Return, startVars, stopVars, Services
<1>13. CASE CancelCtx \/ Shutdown \/ DeadlineExpires \/ CancelTaskCtx
  BY <1>0, <1>13 DEF CancelCtx, Shutdown, DeadlineExpires, CancelTaskCtx, startVars, stopVars, supVars
<1>14. ASSUME NEW i \in Services, StopReturns(i) PROVE StopInv'
  BY <1>0, <1>14 DEF StopReturns, startVars, supVars
<1>15. ASSUME NEW i \in Services, SupStep(i) PROVE StopInv'
  BY <1>0, <1>15, SupStepEffect DEF SupStep, hostVars, startVars, stopVars
<1>16. CASE UNCHANGED vars
  BY <1>0, <1>16 DEF vars, hostVars, startVars, stopVars, supVars
<1> QED BY <1>1, <1>2, <1>3, <1>4, <1>5, <1>6, <1>7, <1>8, <1>9, <1>10, <1>11, <1>12, <1>13,
           <1>14, <1>15, <1>16
        DEF Next, HostStep, Environment, Terminated

LEMMA ControlInv == Spec => [](TypeOK /\ Indices /\ StartInv /\ StopInv)
<1>1. Init => StartInv /\ StopInv
  BY ServicesAssumption, HostAssumption
     DEF Init, SupInit, StartInv, StopInv, Reached, Passed, StopLoop, Services
<1> QED BY TypesInv, StartInvStep, StopInvStep, <1>1, PTL DEF Spec

\* Reverse order: before the deadline expires, a service is cancelled only when
\* every service launched after it has left both Start and Stop.
THEOREM StopOrder == Spec => []ReverseStop
<1>1. TypeOK /\ StopInv => ReverseStop
  <2> SUFFICES ASSUME TypeOK, StopInv, NEW i \in Services, NEW j \in Services,
                      i \in svcCtx, i < j, j <= launched, deadline # "expired"
               PROVE  Settled(j)
    BY DEF ReverseStop
  <2>1. cur \in 0..N /\ launched \in 0..N /\ Reached(i)
    BY DEF TypeOK, HostTypeOK, StopInv
  <2>2. Passed(j)
    BY <2>1, ServicesAssumption DEF Reached, Passed, StopLoop, Services
  <2> QED BY <2>2 DEF StopInv
<1> QED BY ControlInv, <1>1, PTL

\* When Run returns, each launched service was cancelled, stopped and told of,
\* and no other service was touched.
THEOREM StopComplete == Spec => []AllLaunchedStopped
<1>1. TypeOK /\ StartInv /\ StopInv => AllLaunchedStopped
  <2> SUFFICES ASSUME TypeOK, StartInv, StopInv, hpc = "returned", NEW i \in Services
               PROVE  IF i <= launched
                      THEN i \in svcCtx /\ stopRes[i] # "none" /\ told[i] # "none"
                      ELSE sup[i] = "none" /\ stopRes[i] = "none" /\ told[i] = "none"
    BY DEF AllLaunchedStopped
  <2>1. cur = 0 /\ launched \in 0..N
    BY DEF TypeOK, HostTypeOK, StopInv
  <2>2. CASE i <= launched
    BY <2>1, <2>2, ServicesAssumption DEF StopInv, Reached, Passed, Services
  <2>3. CASE ~(i <= launched)
    BY <2>1, <2>3 DEF StartInv, StopInv, Reached, Passed
  <2> QED BY <2>2, <2>3
<1> QED BY ControlInv, <1>1, PTL

\* The services the deferred cancelAll reaches are cancelled already.
LEMMA CancelAllIsIdle ==
  ASSUME TypeOK, StopInv, Return
  PROVE  svcCtx' = svcCtx
<1>1. /\ svcCtx' = svcCtx \cup 1..launched
      /\ hpc = "onStopped" /\ cur = 0
      /\ launched \in 0..N
      /\ \A i \in Services : i \in svcCtx <=> Reached(i)
  BY DEF Return, StopInv, TypeOK, HostTypeOK
<1>2. \A i \in 1..launched : i \in Services /\ i <= launched /\ 0 < i
  BY <1>1, ServicesAssumption DEF Services
<1>3. \A i \in 1..launched : i \in svcCtx
  BY <1>1, <1>2 DEF Reached
<1> QED BY <1>1, <1>3

\* The host is one of the environments the supervisors were specified for.
LEMMA HostStepIsSupStep == TypeOK /\ StopInv /\ [Next]_vars => [SupNext]_supVars
<1> SUFFICES ASSUME TypeOK, StopInv, [Next]_vars PROVE [SupNext]_supVars
  OBVIOUS
<1> USE ServicesAssumption
<1>0. launched \in 0..N /\ cur \in 0..N
  BY DEF TypeOK, HostTypeOK
<1>1. CASE BeginTask \/ AbortTasks \/ TasksDone \/ TaskCanceled \/ AllLaunched \/ AwaitReady \/ TakeRequest \/ RunOnStarted
  BY <1>1 DEF BeginTask, AbortTasks, TasksDone, TaskCanceled, AllLaunched, AwaitReady, TakeRequest,
              RunOnStarted, Move
<1>2. CASE TaskSucceeds \/ TaskFails \/ AwaitTimedOut \/ RunOnStopping \/ StopReturned
  BY <1>2 DEF TaskSucceeds, TaskFails, AwaitTimedOut, RunOnStopping, StopReturned
<1>3. CASE ServiceStopped \/ Abandon \/ AllStopped
  BY <1>3 DEF ServiceStopped, Abandon, AbandonAt, Conclude, AllStopped
<1>4. CASE LaunchNext
  BY <1>0, <1>4 DEF LaunchNext, SupNext, AnyHost, Services
<1>5. CASE TakeCause \/ BeginStopping
  BY <1>5 DEF TakeCause, TakeCauseAt, BeginStopping, SupNext, AnyHost
<1>6. CASE StopNext
  BY <1>0, <1>6 DEF StopNext, StopCurrent, SupNext, AnyHost, Services
<1>7. CASE Return
  BY <1>7, CancelAllIsIdle DEF Return, supVars
<1>8. CASE CancelCtx \/ Shutdown \/ DeadlineExpires \/ CancelTaskCtx
  BY <1>8 DEF CancelCtx, Shutdown, DeadlineExpires, CancelTaskCtx
<1>9. ASSUME NEW i \in Services, StopReturns(i) \/ SupStep(i) PROVE [SupNext]_supVars
  BY <1>9 DEF StopReturns, SupStep, SupNext
<1>10. CASE UNCHANGED vars
  BY <1>10 DEF vars
<1> QED BY <1>1, <1>2, <1>3, <1>4, <1>5, <1>6, <1>7, <1>8, <1>9, <1>10
        DEF Next, HostStep, Environment, Terminated

\* Composition: the host drives its supervisors only in the ways Supervise
\* allows for, so what holds there for any host holds for this one.
THEOREM HostRunsSupervise == Spec => SupSpec
<1>1. Init => SupInit
  BY DEF Init
<1> QED BY ControlInv, HostStepIsSupStep, <1>1, PTL DEF Spec, SupSpec

\* No supervisor of the host blocks on exits, restarts a service twice after
\* shutdown began, loses a result, or gives up before its policy is used up.
THEOREM SupervisionKept ==
  Spec => [](ExitsNeverBlock /\ AtMostOneLateStart /\ DoneIsFinal /\ OnlyExhaustedGiveUp)
BY HostRunsSupervise, ExitsRoom, LateStarts, FinalResults, PolicyKept, PTL

\* A step cancels at most one service: the highest launched one whose turn it
\* is in the stop loop, never all at once when the caller's context fires.
THEOREM OneByOne == Spec => CancelOneByOne
<1> DEFINE Orderly == \/ svcCtx' = svcCtx
                      \/ \E i \in 1..launched :
                           /\ svcCtx' = svcCtx \cup {i}
                           /\ stopping
                           /\ \A j \in i + 1..launched : told[j] # "none"
<1>1. TypeOK /\ Indices /\ StopInv /\ [Next]_vars => [Orderly]_vars
  <2> SUFFICES ASSUME TypeOK, Indices, StopInv, [Next]_vars PROVE Orderly
    OBVIOUS
  <2> USE ServicesAssumption
  <2>1. CASE StopNext
    <3>1. /\ cur \in 1..launched
          /\ svcCtx' = svcCtx \cup {cur}
          /\ hpc = "stop"
          /\ launched \in 0..N /\ cur \in 0..N
      BY <2>1 DEF StopNext, StopCurrent, Cancel, StopInv, TypeOK, HostTypeOK
    <3>2. stopping
      BY <3>1 DEF StopInv, StopLoop
    <3>3. \A j \in cur + 1..launched : j \in Services /\ Passed(j)
      BY <3>1 DEF Passed, StopLoop, Services
    <3>4. \A j \in cur + 1..launched : told[j] # "none"
      BY <3>3 DEF StopInv
    <3> QED BY <3>1, <3>2, <3>4
  <2>2. CASE Return
    BY <2>2, CancelAllIsIdle
  <2>3. ASSUME NEW i \in Services, SupStep(i) PROVE Orderly
    BY <2>3, SupStepEffect DEF SupStep, TypeOK
  <2>4. CASE BeginTask \/ AbortTasks \/ TasksDone \/ TaskCanceled \/ AllLaunched \/ AwaitReady \/ TakeRequest \/ RunOnStarted
    BY <2>4 DEF BeginTask, AbortTasks, TasksDone, TaskCanceled, AllLaunched, AwaitReady, TakeRequest,
                RunOnStarted, Move, supVars
  <2>5. CASE TaskSucceeds \/ TaskFails \/ AwaitTimedOut \/ RunOnStopping \/ StopReturned
    BY <2>5 DEF TaskSucceeds, TaskFails, AwaitTimedOut, RunOnStopping, StopReturned, supVars
  <2>6. CASE ServiceStopped \/ Abandon \/ AllStopped
    BY <2>6 DEF ServiceStopped, Abandon, AbandonAt, Conclude, AllStopped, supVars
  <2>7. CASE LaunchNext \/ TakeCause \/ BeginStopping
    BY <2>7 DEF LaunchNext, Launch, TakeCause, TakeCauseAt, TakeExit, BeginStopping, CloseStopping
  <2>8. CASE CancelCtx \/ Shutdown \/ DeadlineExpires \/ CancelTaskCtx
    BY <2>8 DEF CancelCtx, Shutdown, DeadlineExpires, CancelTaskCtx, supVars
  <2>9. ASSUME NEW i \in Services, StopReturns(i) PROVE Orderly
    BY <2>9 DEF StopReturns, supVars
  <2>10. CASE UNCHANGED vars
    BY <2>10 DEF vars, supVars
  <2> QED BY <2>1, <2>2, <2>3, <2>4, <2>5, <2>6, <2>7, <2>8, <2>9, <2>10
          DEF Next, HostStep, Environment, Terminated
<1> QED BY ControlInv, <1>1, PTL DEF Spec, CancelOneByOne

-----------------------------------------------------------------------------
(* The errors Run returns.                                                 *)

StopWhys == {"stopError", "failedStopping", "overdue"}

\* The cause of the shutdown: it is chosen once, by a supervisor that ended,
\* and stays in the joined error under the name of its service.
CauseInv ==
  /\ hpc \in Starting \cup {"onStarted", "serve"} => cause = 0 /\ errs = {}
  /\ cause # 0 =>
       /\ cause \in Services
       /\ sup[cause] = "end"
       /\ done[cause] # "empty"
       /\ cause \in Supervised => UsedUp(cause)
       /\ \E why \in {"failed", "exited"} : Err(cause, why) \in errs

\* What is joined and told about the services behind the stop loop.
ToldInv ==
  /\ hpc = "waitDone" /\ stopRes[cur] = "err" => Err(cur, "stopError") \in errs
  /\ \A i \in Services :
       /\ Err(i, "overdue") \in errs \/ Err(i, "failedStopping") \in errs => Passed(i)
       /\ ~({Err(i, "overdue"), Err(i, "failedStopping")} \subseteq errs)
       /\ told[i] = "err" => \E why \in StopWhys : Err(i, why) \in errs
       /\ told[i] = "nil" =>
            /\ stopRes[i] = "nil"
            /\ done[i] # "empty" /\ (done[i] = "err" => i = cause)
            /\ Err(i, "overdue") \notin errs

AccountInv == CauseInv /\ ErrorsJustified /\ ToldInv

\* Each of them over a step that only adds facts the invariant does not deny:
\* the joined error, the cause and the outcomes stay as they are.
LEMMA CauseKept ==
  ASSUME TypeOK, CauseInv, UNCHANGED cause, errs \subseteq errs',
         hpc' \in Starting \cup {"onStarted", "serve"} =>
           hpc \in Starting \cup {"onStarted", "serve"} /\ errs' = errs,
         \A j \in Services : sup[j] = "end" => sup'[j] = "end" /\ attempts'[j] = attempts[j],
         \A j \in Services : done[j] # "empty" => done'[j] = done[j]
  PROVE  CauseInv'
BY DEF CauseInv, UsedUp

LEMMA JustifiedKept ==
  ASSUME TypeOK, Indices, StartInv, StopInv, CauseInv, ErrorsJustified, UNCHANGED <<cause, task, launched>>,
         NEW new, errs' = errs \cup new, \A e \in new : Justified(e)',
         deadline = "expired" => deadline' = "expired",
         \A j \in Services : stopRes[j] = "err" => stopRes'[j] = "err",
         \A j \in Services : done[j] # "empty" => done'[j] = done[j]
  PROVE  ErrorsJustified'
<1> SUFFICES ASSUME NEW e \in errs PROVE Justified(e)'
  BY DEF ErrorsJustified
<1>1. Justified(e) /\ e \in [svc : 0..N, why : Whys]
  BY DEF ErrorsJustified, TypeOK, HostTypeOK
<1>2. /\ e.svc \in Services => (stopRes[e.svc] = "err" => stopRes'[e.svc] = "err")
      /\ e.svc \in Services => (done[e.svc] # "empty" => done'[e.svc] = done[e.svc])
  OBVIOUS
<1>3. e.why # "task" => e.svc \in Services
  BY <1>1, ServicesAssumption DEF Justified, TypeOK, HostTypeOK, Services
<1> QED BY <1>1, <1>2, <1>3 DEF Justified, Whys

LEMMA ToldKept ==
  ASSUME TypeOK, Indices, StopInv, ToldInv,
         UNCHANGED <<errs, cause, told>>,
         \A j \in Services : Passed(j) => Passed(j)',
         hpc' = "waitDone" => hpc = "waitDone" /\ cur' = cur,
         \A j \in Services : stopRes[j] \in {"nil", "err"} => stopRes'[j] = stopRes[j],
         \A j \in Services : done[j] # "empty" => done'[j] = done[j]
  PROVE  ToldInv'
<1>1. hpc = "waitDone" => cur \in Services /\ stopRes[cur] \in {"nil", "err"}
  BY DEF StopInv, Indices, TypeOK, HostTypeOK, Services
<1> QED BY <1>1 DEF ToldInv, StopWhys

LEMMA AccountInvStep ==
  TypeOK /\ Indices /\ StartInv /\ StopInv /\ ExitsInv /\ AccountInv /\ [Next]_vars => AccountInv'
<1> SUFFICES ASSUME TypeOK, Indices, StartInv, StopInv, ExitsInv, AccountInv, [Next]_vars
             PROVE  AccountInv'
  OBVIOUS
<1> USE ServicesAssumption, HostAssumption
<1>0. /\ CauseInv /\ ErrorsJustified /\ ToldInv
      /\ SupTypeOK
      /\ launched \in 0..N
      /\ cur \in 0..N
      /\ cause \in 0..N
      /\ task \in 1..NTasks + 1
      /\ stopRes \in [Services -> {"none", "running", "nil", "err"}]
      /\ told \in [Services -> {"none", "nil", "err"}]
  BY DEF AccountInv, TypeOK, HostTypeOK
\* Steps that change neither errors nor outcomes.
<1> DEFINE Quiet ==
      /\ UNCHANGED <<errs, cause, told, task, launched>>
      /\ hpc' \in Starting \cup {"onStarted", "serve"} => hpc \in Starting \cup {"onStarted", "serve"}
      /\ \A j \in Services : Passed(j) => Passed(j)'
      /\ hpc' = "waitDone" => hpc = "waitDone" /\ cur' = cur
      /\ deadline = "expired" => deadline' = "expired"
      /\ \A j \in Services : sup[j] = "end" => sup'[j] = "end" /\ attempts'[j] = attempts[j]
      /\ \A j \in Services : stopRes[j] \in {"nil", "err"} => stopRes'[j] = stopRes[j]
      /\ \A j \in Services : done[j] # "empty" => done'[j] = done[j]
<1>1. ASSUME Quiet PROVE AccountInv'
  <2>1. CauseInv'
    BY <1>0, <1>1, CauseKept
  <2>2. ErrorsJustified'
    <3> PICK new : new = {}
      OBVIOUS
    <3>1. errs' = errs \cup new /\ \A e \in new : Justified(e)'
      BY <1>1
    <3> QED BY <1>0, <1>1, <3>1, JustifiedKept
  <2>3. ToldInv'
    BY <1>0, <1>1, ToldKept
  <2> QED BY <2>1, <2>2, <2>3 DEF AccountInv
<1>2. CASE BeginTask \/ AbortTasks \/ TasksDone \/ TaskCanceled \/ AllLaunched \/ AwaitReady \/ TakeRequest \/ RunOnStarted
  <2>1. Quiet
    BY <1>0, <1>2 DEF BeginTask, AbortTasks, TasksDone, TaskCanceled, AllLaunched, AwaitReady, TakeRequest,
           RunOnStarted, Move, startVars, stopVars, supVars, Starting, Passed, StopLoop
  <2> QED BY <1>1, <2>1
<1>3. CASE TaskSucceeds \/ LaunchNext
  <2>1. /\ errs = {} /\ errs' = {}
        /\ cause = 0 /\ cause' = 0
        /\ hpc' # "waitDone"
        /\ told' = told
        /\ \A i \in Services : told[i] = "none"
    BY <1>0, <1>3 DEF TaskSucceeds, LaunchNext, stopVars, CauseInv, Starting, StopInv, Passed, StopLoop
  <2> QED BY <2>1 DEF AccountInv, CauseInv, ErrorsJustified, ToldInv
<1>4. CASE TaskFails
  <2>1. /\ errs' = {Err(0, "task")}
        /\ cause = 0 /\ cause' = 0
        /\ hpc' = "close"
        /\ UNCHANGED <<told, task, launched>>
        /\ task <= NTasks /\ launched = 0
        /\ \A i \in Services : told[i] = "none"
    BY <1>0, <1>4 DEF TaskFails, startVars, stopVars, CauseInv, Starting, StopInv, StartInv, Indices, Passed, StopLoop
  <2>2. Justified(Err(0, "task"))'
    BY <2>1 DEF Justified, Err
  <2> QED BY <1>0, <2>1, <2>2 DEF AccountInv, CauseInv, ErrorsJustified, ToldInv, Err, Starting, Services
<1>5. CASE AwaitTimedOut
  <2>1. /\ errs' = {Err(launched, "notReady")}
        /\ cause = 0 /\ cause' = 0
        /\ hpc' = "close"
        /\ UNCHANGED <<told, task, launched>>
        /\ StartTimeout /\ launched > 0
        /\ \A i \in Services : told[i] = "none"
    BY <1>0, <1>5 DEF AwaitTimedOut, startVars, stopVars, CauseInv, Starting, StopInv, StartInv, Passed, StopLoop
  <2>2. Justified(Err(launched, "notReady"))'
    BY <1>0, <2>1 DEF Justified, Err
  <2> QED BY <1>0, <2>1, <2>2 DEF AccountInv, CauseInv, ErrorsJustified, ToldInv, Err, Starting, Services
<1>6. CASE TakeCause
  <2> PICK exit : exit = Head(exits)
    OBVIOUS
  <2>1. /\ exits # <<>> /\ exits \in Seq(Exit)
        /\ errs = {} /\ errs' = {ExitErr(exit)}
        /\ cause' = exit.svc
        /\ hpc' = "close"
        /\ UNCHANGED <<told, task, launched, done, sup, attempts>>
        /\ \A i \in Services : told[i] = "none"
    BY <1>0, <1>6 DEF TakeCause, TakeCauseAt, TakeExit, startVars, stopVars, CauseInv, Starting,
                      StopInv, Passed, StopLoop, SupTypeOK
  <2>2. /\ exit.svc \in Services /\ exit.err \in Results
        /\ sup[exit.svc] = "end"
        /\ done[exit.svc] = exit.err
        /\ exit.svc \in Supervised => UsedUp(exit.svc)
    <3>1. 1 \in 1..Len(exits) /\ exit = exits[1]
      BY <2>1
    <3> QED BY <1>0, <3>1, ExitsElements DEF ExitsInv
  <2>3. exit.svc \in 1..launched
    BY <1>0, <2>2 DEF StartInv, Services
  <2>4. Justified(ExitErr(exit))'
    BY <2>1, <2>2, <2>3 DEF Justified, ExitErr, Err, Results
  <2>5. CauseInv'
    BY <2>1, <2>2 DEF CauseInv, UsedUp, ExitErr, Starting, Results
  <2> QED BY <2>1, <2>4, <2>5 DEF AccountInv, ErrorsJustified, ToldInv, ExitErr, Err
<1>7. CASE BeginStopping
  <2>1. Quiet
    BY <1>0, <1>7 DEF BeginStopping, CloseStopping, startVars, stopVars, Starting, Passed, StopLoop
  <2> QED BY <1>1, <2>1
<1>8. CASE RunOnStopping \/ AllStopped \/ Return
  <2>1. CASE RunOnStopping
    <3>1. deadline = "none"
      BY <1>0, <2>1 DEF RunOnStopping, StopInv
    <3>2. Quiet
      BY <1>0, <2>1, <3>1 DEF RunOnStopping, startVars, supVars, Starting, Passed, StopLoop
    <3> QED BY <1>1, <3>2
  <2>2. CASE AllStopped
    <3>1. Quiet
      BY <1>0, <2>2 DEF AllStopped, startVars, supVars, Starting, Passed, StopLoop
    <3> QED BY <1>1, <3>1
  <2>3. CASE Return
    <3>1. Quiet
      BY <1>0, <2>3 DEF Return, startVars, stopVars, Starting, Passed, StopLoop
    <3> QED BY <1>1, <3>1
  <2> QED BY <1>8, <2>1, <2>2, <2>3
<1>9. CASE StopNext
  <2>1. stopRes[cur] = "none"
    BY <1>0, <1>9 DEF StopNext, StopCurrent, StopInv, Reached, Services
  <2>2. Quiet
    BY <1>0, <1>9, <2>1 DEF StopNext, StopCurrent, Cancel, startVars, Starting, Passed, StopLoop
  <2> QED BY <1>1, <2>2
<1>10. CASE StopReturned
  <2>1. /\ hpc = "waitStop" /\ hpc' = "waitDone"
        /\ cur \in Services /\ cur <= launched
        /\ errs' = errs \cup StopErrs
        /\ UNCHANGED <<cause, told, task, launched, cur, deadline, stopRes, done, sup, attempts>>
    BY <1>0, <1>10 DEF StopReturned, startVars, stopVars, supVars, Indices, StopInv, Services
  <2>2. CauseInv'
    BY <1>0, <2>1, CauseKept DEF Starting
  <2>3. \A e \in StopErrs : Justified(e)'
    BY <1>0, <2>1 DEF StopErrs, Justified, Err, Services
  <2>4. ErrorsJustified'
    BY <1>0, <2>1, <2>3, JustifiedKept
  <2>5. \A i \in Services :
          /\ Err(i, "overdue") \in errs' <=> Err(i, "overdue") \in errs
          /\ Err(i, "failedStopping") \in errs' <=> Err(i, "failedStopping") \in errs
    BY <2>1 DEF StopErrs, Err
  <2>6. Passed(cur)' = Passed(cur) /\ \A i \in Services : Passed(i) => Passed(i)'
    BY <2>1 DEF Passed, StopLoop
  <2>7. ToldInv'
    BY <1>0, <2>1, <2>5, <2>6 DEF ToldInv, StopErrs
  <2> QED BY <2>2, <2>4, <2>7 DEF AccountInv
<1>11. ASSUME hpc \in {"waitStop", "waitDone"},
              NEW c, c = cur, NEW new, NEW svcErr \in {"nil", "err"},
              Conclude(new, svcErr, cur - 1),
              new \subseteq {Err(c, "overdue")} \/ new \subseteq {Err(c, "failedStopping")},
              \A e \in new : Justified(e)',
              svcErr = "err" => \E why \in StopWhys : Err(c, why) \in errs \cup new,
              svcErr = "nil" => /\ stopRes[c] = "nil"
                                /\ done[c] # "empty" /\ (done[c] = "err" => c = cause)
                                /\ new = {}
       PROVE  AccountInv'
  <2>1. /\ c \in Services /\ c <= launched
        /\ hpc' = "stop" /\ cur' = c - 1
        /\ errs' = errs \cup new
        /\ told' = [told EXCEPT ![c] = svcErr]
        /\ UNCHANGED <<cause, task, launched, deadline, stopRes, done, sup, attempts>>
    BY <1>0, <1>11 DEF Conclude, startVars, supVars, Indices, StopInv, Services
  <2>2. CauseInv'
    BY <1>0, <2>1, CauseKept DEF Starting
  <2>3. ErrorsJustified'
    BY <1>0, <1>11, <2>1, JustifiedKept
  <2>4. ~Passed(c)
    BY <1>0, <1>11, <2>1 DEF Passed, StopLoop, Services
  <2>5. Passed(c)'
    BY <1>0, <2>1 DEF Passed, StopLoop, Services
  <2>6. \A i \in Services : Passed(i) => Passed(i)'
    BY <1>0, <1>11, <2>1 DEF Passed, StopLoop, Services
  <2>7. Err(c, "overdue") \notin errs /\ Err(c, "failedStopping") \notin errs
    BY <1>0, <2>1, <2>4 DEF ToldInv
  <2>8. ~({Err(c, "overdue"), Err(c, "failedStopping")} \subseteq new)
    BY <1>11 DEF Err
  <2>9. \A i \in Services : i # c =>
          \A why \in StopWhys : Err(i, why) \in errs' <=> Err(i, why) \in errs
    BY <1>11, <2>1 DEF Err
  <2>10. told \in [Services -> {"none", "nil", "err"}]
    BY <1>0
  <2>11. ToldInv'
    <3> SUFFICES ASSUME NEW i \in Services
                 PROVE  /\ Err(i, "overdue") \in errs' \/ Err(i, "failedStopping") \in errs' => Passed(i)'
                        /\ ~({Err(i, "overdue"), Err(i, "failedStopping")} \subseteq errs')
                        /\ told'[i] = "err" => \E why \in StopWhys : Err(i, why) \in errs'
                        /\ told'[i] = "nil" =>
                             /\ stopRes'[i] = "nil"
                             /\ done'[i] # "empty" /\ (done'[i] = "err" => i = cause')
                             /\ Err(i, "overdue") \notin errs'
      BY <2>1 DEF ToldInv
    <3>1. CASE i = c
      <4>1. told'[c] = svcErr
        BY <2>1, <2>10
      <4>2. svcErr = "err" => \E why \in StopWhys : Err(c, why) \in errs'
        BY <1>11, <2>1
      <4>3. svcErr = "nil" => /\ stopRes'[c] = "nil"
                              /\ done'[c] # "empty" /\ (done'[c] = "err" => c = cause')
                              /\ Err(c, "overdue") \notin errs'
        BY <1>11, <2>1, <2>7
      <4> HIDE DEF StopWhys
      <4> QED BY <2>1, <2>5, <2>7, <2>8, <3>1, <4>1, <4>2, <4>3
    <3>2. CASE i # c
      <4>1. told'[i] = told[i]
        BY <2>1, <2>10, <3>2
      <4> QED BY <1>0, <2>1, <2>6, <2>9, <3>2, <4>1 DEF ToldInv, StopWhys
    <3> QED BY <3>1, <3>2
  <2> QED BY <2>2, <2>3, <2>11 DEF AccountInv
<1>12. CASE ServiceStopped
  <2> PICK c : c = cur
    OBVIOUS
  <2> PICK new : new = IF FailedStopping(c) THEN {Err(c, "failedStopping")} ELSE {}
    OBVIOUS
  <2> PICK svcErr : svcErr = SvcErr(c)
    OBVIOUS
  <2>1. /\ hpc = "waitDone" /\ done[c] # "empty"
        /\ Conclude(new, svcErr, cur - 1)
        /\ c \in Services /\ c \in 1..launched
        /\ stopRes[c] \in {"nil", "err"}
        /\ UNCHANGED <<cause, task, launched, deadline, stopRes, done>>
    BY <1>0, <1>12 DEF ServiceStopped, Conclude, startVars, supVars, Indices, StopInv, Services
  <2>2. svcErr \in {"nil", "err"}
    BY DEF SvcErr
  <2>3. \A e \in new : Justified(e)'
    BY <2>1 DEF FailedStopping, Justified, Err
  <2>4. svcErr = "err" => \E why \in StopWhys : Err(c, why) \in errs \cup new
    BY <1>0, <2>1 DEF SvcErr, ToldInv, StopWhys
  <2>5. svcErr = "nil" => /\ stopRes[c] = "nil"
                          /\ done[c] # "empty" /\ (done[c] = "err" => c = cause)
                          /\ new = {}
    BY <2>1 DEF SvcErr, FailedStopping
  <2>6. new \subseteq {Err(c, "failedStopping")}
    OBVIOUS
  <2> QED BY <1>11, <2>1, <2>2, <2>3, <2>4, <2>5, <2>6
<1>13. CASE Abandon
  <2> PICK c : c = cur
    OBVIOUS
  <2> PICK new : new = {Err(c, "overdue")}
    OBVIOUS
  <2>1. /\ hpc \in {"waitStop", "waitDone"} /\ deadline = "expired"
        /\ Conclude(new, "err", cur - 1)
        /\ c \in 1..launched
        /\ UNCHANGED <<launched, deadline>>
    BY <1>0, <1>13 DEF Abandon, AbandonAt, Conclude, startVars, Indices, StopInv
  <2>2. \A e \in new : Justified(e)'
    BY <2>1 DEF Justified, Err
  <2>3. \E why \in StopWhys : Err(c, why) \in errs \cup new
    BY DEF StopWhys
  <2> QED BY <1>11, <2>1, <2>2, <2>3
<1>14. CASE CancelCtx \/ Shutdown \/ DeadlineExpires \/ CancelTaskCtx
  <2>1. Quiet
    BY <1>0, <1>14 DEF CancelCtx, Shutdown, DeadlineExpires, CancelTaskCtx, startVars, stopVars, supVars, Passed, StopLoop
  <2> QED BY <1>1, <2>1
<1>15. ASSUME NEW i \in Services, StopReturns(i) PROVE AccountInv'
  <2>1. Quiet
    BY <1>0, <1>15 DEF StopReturns, startVars, supVars, Passed, StopLoop
  <2> QED BY <1>1, <2>1
<1>16. ASSUME NEW i \in Services, SupStep(i) PROVE AccountInv'
  <2>1. Quiet
    BY <1>0, <1>16, SupStepEffect DEF SupStep, hostVars, startVars, stopVars, Passed, StopLoop
  <2> QED BY <1>1, <2>1
<1>17. CASE UNCHANGED vars
  <2>1. Quiet
    BY <1>0, <1>17 DEF vars, hostVars, startVars, stopVars, supVars, Passed, StopLoop
  <2> QED BY <1>1, <2>1
<1> QED BY <1>2, <1>3, <1>4, <1>5, <1>6, <1>7, <1>8, <1>9, <1>10, <1>12, <1>13, <1>14, <1>15,
           <1>16, <1>17
        DEF Next, HostStep, Environment, Terminated

LEMMA ErrsInv == Spec => [](TypeOK /\ StartInv /\ StopInv /\ AccountInv)
<1>1. Init => AccountInv
  BY DEF Init, AccountInv, CauseInv, ErrorsJustified, ToldInv
<1> QED BY ControlInv, HostRunsSupervise, ExitsAccounted, AccountInvStep, <1>1, PTL DEF Spec

\* Every part of the joined error has happened, and names a launched service.
THEOREM Justification == Spec => []ErrorsJustified
BY ErrsInv, PTL DEF AccountInv

\* A service that stops the host is not covered by its restart policy.
THEOREM CauseNotCovered == Spec => []CauseIsFinal
<1>1. AccountInv => CauseIsFinal
  BY DEF AccountInv, CauseInv, CauseIsFinal
<1> QED BY ErrsInv, <1>1, PTL

\* ServiceStopped and the joined error agree about every service.
THEOREM Agreement == Spec => []OutcomeAgrees
<1>1. TypeOK /\ AccountInv => OutcomeAgrees
  <2> SUFFICES ASSUME TypeOK, AccountInv, NEW i \in Services, told[i] # "none"
               PROVE  told[i] = "err" <=>
                        \E why \in {"stopError", "failedStopping", "overdue"} : Err(i, why) \in errs
    BY DEF OutcomeAgrees
  <2>1. CASE told[i] = "err"
    BY <2>1 DEF AccountInv, ToldInv, StopWhys
  <2>2. CASE told[i] = "nil"
    <3>1. /\ stopRes[i] = "nil"
          /\ done[i] = "err" => i = cause
          /\ Err(i, "overdue") \notin errs
      BY <2>2 DEF AccountInv, ToldInv
    <3>2. Err(i, "stopError") \notin errs /\ Err(i, "failedStopping") \notin errs
      BY <3>1 DEF AccountInv, ErrorsJustified, Justified, Err
    <3> QED BY <2>2, <3>1, <3>2
  <2> QED BY <2>1, <2>2 DEF TypeOK, HostTypeOK
<1> QED BY ErrsInv, <1>1, PTL

\* No failure is reported under two headings.
THEOREM ReportedOnce == Spec => []NoDoubleReport
<1>1. AccountInv => NoDoubleReport
  BY DEF AccountInv, ToldInv, ErrorsJustified, Justified, Err, NoDoubleReport
<1> QED BY ErrsInv, <1>1, PTL

\* No failure of a launched service is lost: it is in the joined error.
THEOREM NothingLost == Spec => []NoLostFailure
<1>1. TypeOK /\ StopInv /\ AccountInv => NoLostFailure
  <2> SUFFICES ASSUME TypeOK, StopInv, AccountInv, hpc = "returned", NEW i \in 1..launched,
                      done[i] = "err" \/ stopRes[i] = "err"
               PROVE  \E e \in errs : e.svc = i
    BY DEF NoLostFailure
  <2>1. i \in Services /\ told[i] \in {"nil", "err"}
    <3>1. i \in Services /\ cur = 0 /\ i <= launched /\ 0 < i
      BY ServicesAssumption DEF StopInv, TypeOK, HostTypeOK, Services
    <3> QED BY <3>1 DEF StopInv, Passed, TypeOK, HostTypeOK
  <2>2. CASE told[i] = "err"
    <3>1. PICK why \in StopWhys : Err(i, why) \in errs
      BY <2>1, <2>2 DEF AccountInv, ToldInv
    <3> QED BY <3>1 DEF Err
  <2>3. CASE told[i] = "nil"
    <3>1. i = cause /\ cause # 0
      BY <2>1, <2>3, ServicesAssumption DEF AccountInv, ToldInv, Services
    <3>2. PICK why \in {"failed", "exited"} : Err(cause, why) \in errs
      BY <3>1 DEF AccountInv, CauseInv
    <3> QED BY <3>1, <3>2 DEF Err
  <2> QED BY <2>1, <2>2, <2>3
<1> QED BY ErrsInv, <1>1, PTL

\* A Run that was not out of time, or that returned nil, leaves nothing of a
\* service running (README.md:83-88): its final Start result is there, and its
\* Stop has returned.
THEOREM NothingLeftRunning ==
  Spec => [](hpc = "returned" /\ (deadline # "expired" \/ errs = {})
               => \A i \in 1..launched : Settled(i))
<1>1. TypeOK /\ StopInv /\ AccountInv /\ hpc = "returned" /\ (deadline # "expired" \/ errs = {})
        => \A i \in 1..launched : Settled(i)
  <2> SUFFICES ASSUME TypeOK, StopInv, AccountInv, hpc = "returned",
                      deadline # "expired" \/ errs = {}, NEW i \in 1..launched
               PROVE  Settled(i)
    OBVIOUS
  <2>1. i \in Services /\ Passed(i) /\ told[i] \in {"nil", "err"}
    <3>1. i \in Services /\ cur = 0 /\ i <= launched /\ 0 < i
      BY ServicesAssumption DEF StopInv, TypeOK, HostTypeOK, Services
    <3> QED BY <3>1 DEF StopInv, Passed, TypeOK, HostTypeOK
  <2>2. CASE deadline # "expired"
    BY <2>1, <2>2 DEF StopInv
  <2>3. CASE errs = {}
    <3>1. told[i] = "nil"
      BY <2>1, <2>3 DEF AccountInv, ToldInv
    <3> QED BY <2>1, <3>1 DEF AccountInv, ToldInv, Settled
  <2> QED BY <2>2, <2>3
<1> QED BY ErrsInv, <1>1, PTL

-----------------------------------------------------------------------------
(* The host goroutine advances.                                            *)

\* A bound on the steps the host goroutine has still to make.
Rank ==
  CASE hpc = "tasks"      -> 2 * (NTasks + 1 - task) + 5 * N + 8
    [] hpc = "taskRun"    -> 2 * (NTasks + 1 - task) + 5 * N + 7
    [] hpc = "launch"     -> 2 * (N - launched) + 3 * N + 7
    [] hpc = "await"      -> 2 * (N - launched) + 3 * N + 8
    [] hpc = "onStarted"  -> 3 * N + 6
    [] hpc = "serve"      -> 3 * N + 5
    [] hpc = "close"      -> 3 * launched + 4
    [] hpc = "onStopping" -> 3 * launched + 3
    [] hpc = "stop"       -> 3 * cur + 2
    [] hpc = "waitStop"   -> 3 * cur + 1
    [] hpc = "waitDone"   -> 3 * cur
    [] hpc = "onStopped"  -> 1
    [] hpc = "returned"   -> 0

\* One place at a time, as the steps need it.
RankTable ==
  /\ hpc = "tasks" => Rank = 2 * (NTasks + 1 - task) + 5 * N + 8
  /\ hpc = "taskRun" => Rank = 2 * (NTasks + 1 - task) + 5 * N + 7
  /\ hpc = "launch" => Rank = 2 * (N - launched) + 3 * N + 7
  /\ hpc = "await" => Rank = 2 * (N - launched) + 3 * N + 8
  /\ hpc = "onStarted" => Rank = 3 * N + 6
  /\ hpc = "serve" => Rank = 3 * N + 5
  /\ hpc = "close" => Rank = 3 * launched + 4
  /\ hpc = "onStopping" => Rank = 3 * launched + 3
  /\ hpc = "stop" => Rank = 3 * cur + 2
  /\ hpc = "waitStop" => Rank = 3 * cur + 1
  /\ hpc = "waitDone" => Rank = 3 * cur
  /\ hpc = "onStopped" => Rank = 1
  /\ hpc = "returned" => Rank = 0

LEMMA RankAt == RankTable /\ RankTable'
  BY DEF Rank, RankTable

LEMMA HostStepAdvances ==
  ASSUME TypeOK, Indices, StartInv, StopInv, HostStep
  PROVE  Rank' < Rank
<1>0. /\ N \in Nat /\ NTasks \in Nat
      /\ launched \in 0..N
      /\ cur \in 0..launched
      /\ task \in 1..NTasks + 1
      /\ hpc = "taskRun" => task <= NTasks
      /\ hpc \in {"tasks", "taskRun"} => launched = 0
      /\ hpc \in {"waitStop", "waitDone"} => cur > 0
  BY ServicesAssumption, HostAssumption DEF TypeOK, HostTypeOK, Indices, StartInv, StopInv
<1>1. RankTable /\ RankTable'
  BY RankAt
<1> USE <1>0, <1>1 DEF RankTable, startVars, stopVars
<1>2. CASE BeginTask \/ AbortTasks \/ TasksDone \/ TaskCanceled
  BY <1>2 DEF BeginTask, AbortTasks, TasksDone, TaskCanceled, Move
<1>3. CASE AllLaunched \/ AwaitReady \/ RunOnStarted
  BY <1>3 DEF AllLaunched, AwaitReady, RunOnStarted, Move
<1>4. CASE TakeRequest
  BY <1>4 DEF TakeRequest, Move
<1>5. CASE TaskSucceeds \/ TaskFails
  BY <1>5 DEF TaskSucceeds, TaskFails
<1>6. CASE LaunchNext
  BY <1>6 DEF LaunchNext
<1>7. CASE AwaitTimedOut \/ TakeCause
  BY <1>7 DEF AwaitTimedOut, TakeCause, TakeCauseAt
<1>8. CASE BeginStopping \/ RunOnStopping
  BY <1>8 DEF BeginStopping, RunOnStopping
<1>9. CASE StopNext \/ StopReturned
  BY <1>9 DEF StopNext, StopCurrent, StopReturned
<1>10. CASE ServiceStopped \/ Abandon
  BY <1>10 DEF ServiceStopped, Abandon, AbandonAt, Conclude
<1>11. CASE AllStopped \/ Return
  BY <1>11 DEF AllStopped, Return
<1> QED
  BY <1>2, <1>3, <1>4, <1>5, <1>6, <1>7, <1>8, <1>9, <1>10, <1>11 DEF HostStep

\* Nobody else moves the host goroutine.
LEMMA OthersStay ==
  ASSUME Next, ~HostStep
  PROVE  UNCHANGED <<hpc, task, launched, cur>>
<1> USE DEF startVars, stopVars
<1>1. CASE Environment
  BY <1>1 DEF Environment, CancelCtx, Shutdown, DeadlineExpires
<1>2. CASE CancelTaskCtx \/ Terminated
  BY <1>2 DEF CancelTaskCtx, Terminated, vars, hostVars
<1>3. ASSUME NEW i \in Services, StopReturns(i) \/ SupStep(i)
      PROVE  UNCHANGED <<hpc, task, launched, cur>>
  BY <1>3 DEF StopReturns, SupStep, hostVars
<1> QED
  BY <1>1, <1>2, <1>3 DEF Next

\* The host goroutine makes at most 2 * NTasks + 5 * N + 8 steps, whatever
\* the services, the callers and the timers do: each of its steps brings Run
\* closer to its return, and no step of the others takes it back.
THEOREM HostAdvances ==
  Spec => /\ [](Rank \in 0..(2 * NTasks + 5 * N + 8))
          /\ [][IF HostStep THEN Rank' < Rank ELSE Rank' = Rank]_vars
<1>1. TypeOK /\ Indices /\ StartInv /\ StopInv => Rank \in 0..(2 * NTasks + 5 * N + 8)
  <2> SUFFICES ASSUME TypeOK, Indices, StartInv, StopInv
               PROVE  Rank \in 0..(2 * NTasks + 5 * N + 8)
    OBVIOUS
  <2>1. /\ N \in Nat /\ NTasks \in Nat /\ hpc \in HostStates
        /\ launched \in 0..N /\ cur \in 0..N /\ task \in 1..NTasks + 1
    BY ServicesAssumption, HostAssumption DEF TypeOK, HostTypeOK
  <2>2. RankTable
    BY RankAt
  <2> QED
    BY <2>1, <2>2 DEF RankTable, HostStates
<1>2. TypeOK /\ Indices /\ StartInv /\ StopInv /\ [Next]_vars
        => [IF HostStep THEN Rank' < Rank ELSE Rank' = Rank]_vars
  <2> SUFFICES ASSUME TypeOK, Indices, StartInv, StopInv, Next
               PROVE  IF HostStep THEN Rank' < Rank ELSE Rank' = Rank
    OBVIOUS
  <2>1. CASE HostStep
    BY <2>1, HostStepAdvances
  <2>2. CASE ~HostStep
    <3>1. UNCHANGED <<hpc, task, launched, cur>>
      BY <2>2, OthersStay
    <3> QED
      BY <2>2, <3>1 DEF Rank
  <2> QED
    BY <2>1, <2>2
<1> QED
  BY ControlInv, <1>1, <1>2, PTL DEF Spec
=============================================================================
