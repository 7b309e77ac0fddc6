--------------------------- MODULE HostRefinement ---------------------------
(***************************************************************************)
(* The host keeps the contract of its README (HostContract), for any       *)
(* number of services and tasks: every step of host, supervisors and       *)
(* callers is a step of the contract, or changes nothing it speaks of.     *)
(***************************************************************************)
EXTENDS HostProofs

\* The deadline is set while the stop loop runs, and only then.
DeadlineInv == deadline = "armed" => hpc \in StopLoop

LEMMA DeadlineInvStep == StopInv /\ DeadlineInv /\ [Next]_vars => DeadlineInv'
<1> SUFFICES ASSUME StopInv, DeadlineInv, [Next]_vars PROVE DeadlineInv'
  OBVIOUS
<1> USE DEF DeadlineInv, StopInv, StopLoop, startVars, stopVars
<1>1. CASE BeginTask \/ AbortTasks \/ TasksDone \/ TaskCanceled \/ AllLaunched \/ AwaitReady \/ TakeRequest \/ RunOnStarted
  BY <1>1 DEF BeginTask, AbortTasks, TasksDone, TaskCanceled, AllLaunched, AwaitReady, TakeRequest,
              RunOnStarted, Move
<1>2. CASE TaskSucceeds \/ TaskFails \/ AwaitTimedOut \/ RunOnStopping \/ StopReturned
  BY <1>2 DEF TaskSucceeds, TaskFails, AwaitTimedOut, RunOnStopping, StopReturned
<1>3. CASE ServiceStopped \/ Abandon \/ AllStopped
  BY <1>3 DEF ServiceStopped, Abandon, AbandonAt, Conclude, AllStopped
<1>4. CASE LaunchNext \/ TakeCause \/ BeginStopping
  BY <1>4 DEF LaunchNext, TakeCause, TakeCauseAt, BeginStopping
<1>5. CASE StopNext \/ Return
  BY <1>5 DEF StopNext, StopCurrent, Return
<1>6. CASE CancelCtx \/ Shutdown \/ DeadlineExpires \/ CancelTaskCtx
  BY <1>6 DEF CancelCtx, Shutdown, DeadlineExpires, CancelTaskCtx
<1>7. ASSUME NEW i \in Services, StopReturns(i) \/ SupStep(i) PROVE DeadlineInv'
  BY <1>7 DEF StopReturns, SupStep, hostVars
<1>8. CASE UNCHANGED vars
  BY <1>8 DEF vars, hostVars
<1> QED BY <1>1, <1>2, <1>3, <1>4, <1>5, <1>6, <1>7, <1>8 DEF Next, HostStep, Environment, Terminated

\* The values Host gives to the variables of the contract.
Active == {i \in 1..launched : ~Settled(i)}
OutcomeOf == [i \in Services |-> Outcome(i)]
Overtime == deadline = "expired"
Faulty == \E e \in errs : e.why \in {"task", "notReady", "failed", "exited"}

RefInv == TypeOK /\ Indices /\ StartInv /\ StopInv /\ AccountInv /\ DeadlineInv

\* Nothing the contract speaks of has changed.
Quiet ==
  /\ Phase' = Phase /\ launched' = launched /\ Active' = Active /\ AskedCount' = AskedCount
  /\ OutcomeOf' = OutcomeOf /\ (Overtime' <=> Overtime) /\ (Faulty' <=> Faulty)
  /\ RunResult' = RunResult

LEMMA QuietStutters == Quiet => UNCHANGED Contract!contractVars
  BY Zenon DEF Quiet, Contract!contractVars, Active, OutcomeOf, Overtime, Faulty

\* The parts of the mapping that most steps leave alone.
LEMMA ActiveKept ==
  ASSUME UNCHANGED <<launched, done, stopRes>> PROVE Active' = Active
  BY DEF Active, Settled

LEMMA OutcomeKept ==
  ASSUME UNCHANGED told,
         \A i \in Services : Err(i, "overdue") \in errs' <=> Err(i, "overdue") \in errs
  PROVE  OutcomeOf' = OutcomeOf
<1>1. ASSUME NEW i \in Services PROVE Outcome(i)' = Outcome(i)
  BY DEF Outcome
<1> QED
  BY <1>1 DEF OutcomeOf

LEMMA FaultyKept ==
  ASSUME NEW new, errs' = errs \cup new,
         \A e \in new : e.why \notin {"task", "notReady", "failed", "exited"}
  PROVE  Faulty' <=> Faulty
  BY DEF Faulty

LEMMA PhaseKept ==
  ASSUME hpc' = hpc PROVE Phase' = Phase
  BY DEF Phase

\* A step within one phase of the contract, which joins only Stop's error.
LEMMA WithinPhase ==
  ASSUME UNCHANGED <<launched, done, stopRes, told>>, Overtime' <=> Overtime,
         Phase' = Phase, AskedCount' = AskedCount, hpc # "returned", hpc' # "returned",
         NEW new, errs' = errs \cup new, \A e \in new : e.why = "stopError"
  PROVE  Quiet
<1>1. Active' = Active
  BY ActiveKept
<1>2. \A i \in Services : Err(i, "overdue") \in errs' <=> Err(i, "overdue") \in errs
  BY DEF Err
<1>3. OutcomeOf' = OutcomeOf
  BY <1>2, OutcomeKept
<1>4. Faulty' <=> Faulty
  BY FaultyKept
<1>5. RunResult' = RunResult
  BY DEF RunResult
<1> QED
  BY <1>1, <1>3, <1>4, <1>5 DEF Quiet

LEMMA StillInPhase ==
  ASSUME UNCHANGED <<launched, done, stopRes, told, errs>>, Overtime' <=> Overtime,
         Phase' = Phase, AskedCount' = AskedCount, hpc # "returned", hpc' # "returned"
  PROVE  Quiet
<1>1. Active' = Active /\ OutcomeOf' = OutcomeOf
  BY ActiveKept, OutcomeKept
<1>2. Faulty' <=> Faulty
  BY DEF Faulty
<1>3. RunResult' = RunResult
  BY DEF RunResult
<1> QED
  BY <1>1, <1>2, <1>3 DEF Quiet

\* A service that leaves its Start or its Stop: it finishes, or is not done.
LEMMA FinishOrQuiet ==
  ASSUME RefInv, UNCHANGED <<hpc, launched, cur, told, errs, deadline>>, NEW i \in Services,
         \A j \in Services : Settled(j) => Settled(j)',
         \A j \in Services : Settled(j)' => Settled(j) \/ j = i,
         stopRes'[i] # "none" => stopRes[i] # "none"
  PROVE  Contract!Finish(i) \/ Quiet
<1> USE ServicesAssumption
<1>1. launched \in 0..N /\ cur \in 0..N
  BY DEF RefInv, TypeOK, HostTypeOK
<1>2. /\ Phase' = Phase /\ AskedCount' = AskedCount /\ OutcomeOf' = OutcomeOf
      /\ (Overtime' <=> Overtime) /\ (Faulty' <=> Faulty) /\ RunResult' = RunResult
  <2>1. Phase' = Phase /\ AskedCount' = AskedCount /\ RunResult' = RunResult
    BY DEF Phase, AskedCount, RunResult
  <2>2. OutcomeOf' = OutcomeOf
    BY OutcomeKept
  <2>3. (Overtime' <=> Overtime) /\ (Faulty' <=> Faulty)
    BY DEF Overtime, Faulty
  <2> QED
    BY <2>1, <2>2, <2>3
<1>3. \A j \in 1..launched : j \in Services
  BY <1>1 DEF Services
<1>4. CASE i \in Active /\ Settled(i)'
  <2>1. Active' = Active \ {i}
    BY <1>3, <1>4 DEF Active
  <2>2. stopRes[i] # "none"
    BY <1>4 DEF Settled
  <2>3. Reached(i)
    BY <2>2 DEF RefInv, StopInv
  <2>4. i >= launched + 1 - AskedCount
    BY <1>1, <2>3 DEF Reached, AskedCount, Services
  <2>5. Contract!Finish(i)
    BY <1>2, <1>4, <2>1, <2>4, Zenon
       DEF Contract!Finish, Contract!Current, Active, OutcomeOf, Overtime, Faulty
  <2> QED
    BY <2>5
<1>5. CASE ~(i \in Active /\ Settled(i)')
  <2>1. Active' = Active
    BY <1>3, <1>5 DEF Active
  <2> QED
    BY <1>2, <2>1 DEF Quiet
<1> QED
  BY <1>4, <1>5

-----------------------------------------------------------------------------
(* The steps, one lemma for each action of the contract.                   *)

\* Tasks, hooks and the callers are not the contract's business.
LEMMA QuietSteps ==
  ASSUME RefInv,
         \/ BeginTask \/ TasksDone \/ TaskSucceeds \/ AllLaunched \/ AwaitReady
         \/ BeginStopping \/ RunOnStopping \/ StopReturned \/ AllStopped
         \/ CancelCtx \/ Shutdown \/ CancelTaskCtx
  PROVE  Quiet
<1>0. launched \in 0..N /\ cur \in 0..N /\ (hpc = "onStopping" => deadline = "none")
  BY DEF RefInv, TypeOK, HostTypeOK, StopInv
<1> USE <1>0 DEF Phase, AskedCount, Starting, Overtime
<1>1. CASE BeginTask \/ TasksDone \/ AllLaunched \/ AwaitReady
  <2>1. /\ UNCHANGED <<launched, done, stopRes, told, deadline, errs>>
        /\ Phase' = Phase /\ AskedCount' = AskedCount /\ hpc # "returned" /\ hpc' # "returned"
    BY <1>1 DEF BeginTask, TasksDone, AllLaunched, AwaitReady, Move, startVars, stopVars, supVars
  <2> QED
    BY <2>1, StillInPhase
<1>2. CASE TaskSucceeds
  <2>1. /\ UNCHANGED <<launched, done, stopRes, told, deadline, errs>>
        /\ Phase' = Phase /\ AskedCount' = AskedCount /\ hpc # "returned" /\ hpc' # "returned"
    BY <1>2 DEF TaskSucceeds, stopVars, supVars
  <2> QED
    BY <2>1, StillInPhase
<1>3. CASE BeginStopping
  <2>1. /\ UNCHANGED <<launched, done, stopRes, told, deadline, errs>>
        /\ Phase' = Phase /\ AskedCount' = AskedCount /\ hpc # "returned" /\ hpc' # "returned"
    BY <1>3 DEF BeginStopping, CloseStopping, startVars, stopVars
  <2> QED
    BY <2>1, StillInPhase
<1>4. CASE RunOnStopping
  <2>1. /\ UNCHANGED <<launched, done, stopRes, told, errs>> /\ (Overtime' <=> Overtime)
        /\ Phase' = Phase /\ AskedCount' = AskedCount /\ hpc # "returned" /\ hpc' # "returned"
    BY <1>4 DEF RunOnStopping, startVars, supVars
  <2> QED
    BY <2>1, StillInPhase
<1>5. CASE StopReturned
  <2>1. /\ UNCHANGED <<launched, done, stopRes, told, deadline>>
        /\ errs' = errs \cup StopErrs
        /\ Phase' = Phase /\ AskedCount' = AskedCount /\ hpc # "returned" /\ hpc' # "returned"
    BY <1>5 DEF StopReturned, startVars, stopVars, supVars
  <2>2. \A e \in StopErrs : e.why = "stopError"
    BY DEF StopErrs, Err
  <2> QED
    BY <2>1, <2>2, WithinPhase
<1>6. CASE AllStopped
  <2>1. /\ UNCHANGED <<launched, done, stopRes, told, errs>> /\ (Overtime' <=> Overtime)
        /\ Phase' = Phase /\ AskedCount' = AskedCount /\ hpc # "returned" /\ hpc' # "returned"
    BY <1>6 DEF AllStopped, startVars, supVars
  <2> QED
    BY <2>1, StillInPhase
<1>7. CASE CancelCtx \/ Shutdown \/ CancelTaskCtx
  <2>1. UNCHANGED <<hpc, launched, cur, done, stopRes, told, errs, deadline>>
    BY <1>7 DEF CancelCtx, Shutdown, CancelTaskCtx, startVars, stopVars, supVars
  <2>2. Phase' = Phase /\ AskedCount' = AskedCount /\ RunResult' = RunResult
    BY <2>1 DEF RunResult
  <2>3. Active' = Active /\ OutcomeOf' = OutcomeOf /\ (Faulty' <=> Faulty)
    BY <2>1, ActiveKept, OutcomeKept DEF Faulty
  <2> QED
    BY <2>1, <2>2, <2>3 DEF Quiet
<1> QED
  BY <1>1, <1>2, <1>3, <1>4, <1>5, <1>6, <1>7

\* A launch is the contract's Start.
LEMMA LaunchStarts == ASSUME RefInv, LaunchNext PROVE Contract!Start
<1> USE ServicesAssumption
<1>1. /\ launched \in 0..N /\ launched < N /\ launched' = launched + 1
      /\ UNCHANGED <<done, stopRes, told, errs, deadline, cur>>
      /\ hpc = "launch" /\ hpc' \in {"launch", "await"}
  BY DEF RefInv, TypeOK, HostTypeOK, LaunchNext, Launch, stopVars
<1>2. launched + 1 \in Services /\ stopRes[launched + 1] = "none"
  <2>1. launched + 1 \in Services
    BY <1>1 DEF Services
  <2>2. ~Reached(launched + 1)
    BY <1>1 DEF Reached
  <2> QED
    BY <2>1, <2>2 DEF RefInv, StopInv
<1>3. Active' = Active \cup {launched + 1}
  <2>1. 1..launched' = 1..launched \cup {launched + 1}
    BY <1>1
  <2>2. \A i : Settled(i)' <=> Settled(i)
    BY <1>1 DEF Settled
  <2>3. ~Settled(launched + 1)
    BY <1>2 DEF Settled
  <2> QED
    BY <2>1, <2>2, <2>3 DEF Active
<1>4. OutcomeOf' = OutcomeOf
  BY <1>1, OutcomeKept
<1>5. Phase = "starting" /\ Phase' = "starting" /\ AskedCount' = AskedCount /\ RunResult' = RunResult
  BY <1>1 DEF Phase, Starting, AskedCount, RunResult
<1>6. (Overtime' <=> Overtime) /\ (Faulty' <=> Faulty)
  BY <1>1 DEF Overtime, Faulty
<1> QED
  BY <1>1, <1>3, <1>4, <1>5, <1>6, Zenon DEF Contract!Start, Active, OutcomeOf, Overtime, Faulty

\* The hooks of OnStarted are the last thing before service.
LEMMA StartedServes == ASSUME RefInv, RunOnStarted PROVE Contract!Serve
<1>1. /\ UNCHANGED <<launched, done, stopRes, told, errs, deadline, cur>>
      /\ hpc = "onStarted" /\ hpc' = "serve" /\ launched = N
  BY DEF RefInv, StartInv, RunOnStarted, Move, startVars, stopVars, supVars
<1>2. Phase = "starting" /\ Phase' = "running" /\ AskedCount' = AskedCount /\ RunResult' = RunResult
  BY <1>1 DEF Phase, Starting, AskedCount, RunResult
<1>3. Active' = Active /\ OutcomeOf' = OutcomeOf
  BY <1>1, ActiveKept, OutcomeKept
<1>4. (Overtime' <=> Overtime) /\ (Faulty' <=> Faulty)
  BY <1>1 DEF Overtime, Faulty
<1> QED
  BY <1>1, <1>2, <1>3, <1>4, Zenon DEF Contract!Serve, Active, OutcomeOf, Overtime, Faulty

\* Whatever ends startup or service is the contract's Stop.
LEMMA EndStops ==
  ASSUME RefInv, AbortTasks \/ TaskCanceled \/ TaskFails \/ AwaitTimedOut \/ TakeCause \/ TakeRequest
  PROVE  Contract!Stop
<1>1. /\ UNCHANGED <<launched, done, stopRes, told, deadline, cur>>
      /\ hpc \in {"tasks", "taskRun", "await", "serve"} /\ hpc' = "close"
  <2>1. CASE AbortTasks \/ TaskCanceled \/ TakeRequest
    BY <2>1 DEF AbortTasks, TaskCanceled, TakeRequest, Move, startVars, stopVars, supVars
  <2>2. CASE TaskFails \/ AwaitTimedOut
    BY <2>2 DEF TaskFails, AwaitTimedOut, startVars, stopVars, supVars
  <2>3. CASE TakeCause
    BY <2>3 DEF TakeCause, TakeCauseAt, TakeExit, startVars, stopVars
  <2> QED
    BY <2>1, <2>2, <2>3
<1>2. \A i \in Services : Err(i, "overdue") \in errs' <=> Err(i, "overdue") \in errs
  <2>1. CASE AbortTasks \/ TaskCanceled \/ TakeRequest
    BY <2>1 DEF AbortTasks, TaskCanceled, TakeRequest, Move
  <2>2. CASE TaskFails \/ AwaitTimedOut
    BY <2>2 DEF TaskFails, AwaitTimedOut, Err
  <2>3. CASE TakeCause
    BY <2>3 DEF TakeCause, TakeCauseAt, ExitErr, Err
  <2> QED
    BY <2>1, <2>2, <2>3
<1>3. Phase \in {"starting", "running"} /\ Phase' = "stopping"
  BY <1>1 DEF Phase, Starting
<1>4. AskedCount' = AskedCount /\ RunResult' = RunResult
  BY <1>1 DEF AskedCount, RunResult
<1>5. Active' = Active /\ OutcomeOf' = OutcomeOf
  BY <1>1, <1>2, ActiveKept, OutcomeKept
<1>6. Overtime' <=> Overtime
  BY <1>1 DEF Overtime
<1>7. Faulty' \in BOOLEAN
  BY Zenon DEF Faulty
<1> QED
  BY <1>1, <1>3, <1>4, <1>5, <1>6, <1>7, Zenon DEF Contract!Stop, Active, OutcomeOf, Overtime, Faulty

LEMMA DeadlinePasses == ASSUME RefInv, DeadlineExpires PROVE Contract!Expire
<1>1. /\ UNCHANGED <<hpc, launched, done, stopRes, told, errs, cur>> /\ deadline = "armed"
      /\ deadline' = "expired"
  BY DEF DeadlineExpires, startVars, supVars
<1>2. hpc \in StopLoop
  BY <1>1 DEF RefInv, DeadlineInv
<1>3. Phase = "stopping" /\ Phase' = Phase /\ AskedCount' = AskedCount /\ RunResult' = RunResult
  BY <1>1, <1>2 DEF Phase, Starting, StopLoop, AskedCount, RunResult
<1>4. Active' = Active /\ OutcomeOf' = OutcomeOf /\ (Faulty' <=> Faulty)
  BY <1>1, ActiveKept, OutcomeKept DEF Faulty
<1>5. Overtime' = TRUE
  BY <1>1 DEF Overtime
<1> QED
  BY <1>1, <1>3, <1>4, <1>5, Zenon DEF Contract!Expire, Active, OutcomeOf, Overtime, Faulty

\* What the contract calls the current service, and whether it is resolved.
LEMMA CurrentService ==
  ASSUME RefInv, hpc \in StopLoop
  PROVE  /\ launched \in 0..N /\ cur \in 0..launched
         /\ hpc = "stop" => AskedCount = launched - cur /\ Contract!Current = cur + 1
         /\ hpc # "stop" => AskedCount = launched - cur + 1 /\ Contract!Current = cur /\ cur \in Services
<1> USE ServicesAssumption
<1>1. launched \in 0..N /\ cur \in 0..launched /\ (hpc \in {"waitStop", "waitDone"} => cur > 0)
  BY DEF RefInv, TypeOK, HostTypeOK, StopInv, Indices
<1>2. hpc = "stop" => AskedCount = launched - cur
  BY DEF AskedCount
<1>3. hpc # "stop" => AskedCount = launched - cur + 1
  BY DEF AskedCount, StopLoop
<1> QED
  BY <1>1, <1>2, <1>3 DEF Contract!Current, StopLoop, Services

\* Stop's turn comes to the next service.
LEMMA StopAsks == ASSUME RefInv, StopNext PROVE Contract!Ask
<1> USE ServicesAssumption
<1>1. /\ UNCHANGED <<launched, cur, done, told, errs, deadline>> /\ cur > 0
      /\ hpc = "stop" /\ hpc' = "waitStop" /\ stopRes' = [stopRes EXCEPT ![cur] = "running"]
  BY DEF StopNext, StopCurrent, Cancel, startVars
<1>2. launched \in 0..N /\ cur \in 1..launched /\ AskedCount = launched - cur /\ Contract!Current = cur + 1
  BY <1>1, CurrentService DEF StopLoop
<1>3. AskedCount' = AskedCount + 1 /\ AskedCount < launched
  BY <1>1, <1>2 DEF AskedCount
<1>4. cur \in Services /\ stopRes[cur] = "none"
  <2>1. cur \in Services /\ ~Reached(cur)
    BY <1>1, <1>2 DEF Reached, Services
  <2> QED
    BY <2>1 DEF RefInv, StopInv
<1>5. Active' = Active
  <2>1. \A i \in Services : Settled(i)' <=> Settled(i)
    BY <1>1, <1>4 DEF Settled, RefInv, TypeOK, HostTypeOK
  <2>2. \A i \in 1..launched : i \in Services
    BY <1>2 DEF Services
  <2> QED
    BY <1>1, <2>1, <2>2 DEF Active
<1>6. Contract!Resolved
  <2>1. ASSUME AskedCount > 0 PROVE OutcomeOf[cur + 1] # "none"
    <3>1. cur + 1 \in Services /\ Passed(cur + 1)
      BY <1>1, <1>2, <2>1 DEF Passed, Services, StopLoop
    <3>2. told[cur + 1] # "none"
      BY <3>1 DEF RefInv, StopInv
    <3> QED
      BY <3>1, <3>2 DEF OutcomeOf, Outcome
  <2> QED
    BY <1>2, <2>1 DEF Contract!Resolved, OutcomeOf
<1>7. Phase = "stopping" /\ Phase' = Phase /\ RunResult' = RunResult
  BY <1>1 DEF Phase, Starting, RunResult
<1>8. OutcomeOf' = OutcomeOf /\ (Overtime' <=> Overtime) /\ (Faulty' <=> Faulty)
  BY <1>1, OutcomeKept DEF Overtime, Faulty
<1> QED
  BY <1>1, <1>3, <1>5, <1>6, <1>7, <1>8, Zenon DEF Contract!Ask, Active, OutcomeOf, Overtime, Faulty

\* The host is done with the current service, in one way or another.
LEMMA ConcludeResolves ==
  ASSUME RefInv, hpc \in {"waitStop", "waitDone"}, NEW new, NEW svcErr \in {"nil", "err"},
         Conclude(new, svcErr, cur - 1),
         NEW o \in {"clean", "failed", "abandoned"},
         o = "clean" <=> svcErr = "nil",
         o = "abandoned" <=> Err(cur, "overdue") \in new,
         \A e \in new : e.why \in StopWhys /\ e.svc = cur,
         IF o = "abandoned" THEN Overtime ELSE Settled(cur)
  PROVE  Contract!Resolve(o)
<1> USE ServicesAssumption
<1>1. /\ UNCHANGED <<launched, done, stopRes, deadline>> /\ errs' = errs \cup new
      /\ told' = [told EXCEPT ![cur] = svcErr] /\ cur' = cur - 1 /\ hpc' = "stop"
  BY DEF Conclude, startVars, supVars
<1>2. /\ launched \in 0..N /\ cur \in 0..launched /\ cur \in Services
      /\ AskedCount = launched - cur + 1 /\ Contract!Current = cur
  BY CurrentService DEF StopLoop
<1>3. AskedCount' = AskedCount
  BY <1>1, <1>2 DEF AskedCount
<1>4. told[cur] = "none" /\ Err(cur, "overdue") \notin errs
  <2>1. ~Passed(cur)
    BY <1>2 DEF Passed, Services
  <2> QED
    BY <1>2, <2>1 DEF RefInv, StopInv, AccountInv, ToldInv
<1>5. ~Contract!Resolved
  <2>1. OutcomeOf[cur] = "none"
    BY <1>2, <1>4 DEF OutcomeOf, Outcome
  <2>2. AskedCount > 0
    BY <1>2
  <2> QED
    BY <1>2, <2>1, <2>2 DEF Contract!Resolved, OutcomeOf
<1>6. OutcomeOf' = [OutcomeOf EXCEPT ![cur] = o]
  <2>0. PICK c \in Services : c = cur
    BY <1>2
  <2>1. ASSUME NEW i \in Services, i # c PROVE Outcome(i)' = Outcome(i)
    <3>1. told'[i] = told[i]
      BY <1>1, <2>0, <2>1
    <3>2. Err(i, "overdue") \in errs' <=> Err(i, "overdue") \in errs
      BY <1>1, <2>0, <2>1 DEF Err
    <3> QED
      BY <3>1, <3>2 DEF Outcome
  <2>2. Outcome(c)' = o
    <3>1. told'[c] = svcErr
      BY <1>1, <2>0 DEF RefInv, TypeOK, HostTypeOK
    <3>2. Err(c, "overdue") \in errs' <=> o = "abandoned"
      BY <1>1, <1>4, <2>0
    <3> QED
      <4>1. CASE svcErr = "nil"
        <5>1. told'[c] = "nil"
          BY <3>1, <4>1
        <5>2. o = "clean"
          BY <4>1
        <5>3. Err(c, "overdue") \notin errs'
          BY <3>2, <5>2
        <5> QED
          BY <5>1, <5>2, <5>3 DEF Outcome
      <4>2. CASE svcErr = "err" /\ o = "abandoned"
        BY <3>1, <3>2, <4>2 DEF Outcome
      <4>3. CASE svcErr = "err" /\ o = "failed"
        BY <3>1, <3>2, <4>3 DEF Outcome
      <4> QED
        BY <4>1, <4>2, <4>3
  <2>3. \A i \in Services : Outcome(i)' = IF i = c THEN o ELSE Outcome(i)
    BY <2>1, <2>2
  <2>4. OutcomeOf' = [i \in Services |-> IF i = c THEN o ELSE Outcome(i)]
    BY <2>3 DEF OutcomeOf
  <2> HIDE DEF Outcome
  <2> QED
    BY <2>0, <2>4 DEF OutcomeOf
<1>7. Faulty' <=> Faulty
  BY <1>1, FaultyKept DEF StopWhys
<1>8. Phase = "stopping" /\ Phase' = Phase /\ RunResult' = RunResult
  BY <1>1 DEF Phase, Starting, RunResult
<1>9. Active' = Active /\ (Overtime' <=> Overtime)
  BY <1>1, ActiveKept DEF Overtime
<1>10. IF o = "abandoned" THEN Overtime ELSE Contract!Current \notin Active
  BY <1>2 DEF Active
<1> QED
  BY <1>1, <1>2, <1>3, <1>5, <1>6, <1>7, <1>8, <1>9, <1>10, Zenon
  DEF Contract!Resolve, Active, OutcomeOf, Overtime, Faulty

\* The outcome of a stopped service, and of an abandoned one.
LEMMA StoppedResolves ==
  ASSUME RefInv, ServiceStopped
  PROVE  \E o \in Contract!Outcomes \ {"none"} : Contract!Resolve(o)
<1> DEFINE new == IF FailedStopping(cur) THEN {Err(cur, "failedStopping")} ELSE {}
           o == IF SvcErr(cur) = "nil" THEN "clean" ELSE "failed"
<1>1. hpc = "waitDone" /\ done[cur] # "empty" /\ Conclude(new, SvcErr(cur), cur - 1)
  BY DEF ServiceStopped
<1>2. Settled(cur)
  BY <1>1 DEF RefInv, StopInv, Settled
<1>3. SvcErr(cur) \in {"nil", "err"} /\ o \in {"clean", "failed", "abandoned"}
  BY DEF SvcErr
<1>4. \A e \in new : e.why \in StopWhys /\ e.svc = cur
  BY DEF Err, StopWhys
<1>5. Err(cur, "overdue") \notin new
  BY DEF Err
<1>6. o = "clean" <=> SvcErr(cur) = "nil"
  OBVIOUS
<1>7. o # "abandoned"
  OBVIOUS
<1>8. Contract!Resolve(o)
  <2> HIDE DEF new, o
  <2> QED
    BY <1>1, <1>2, <1>3, <1>4, <1>5, <1>6, <1>7, ConcludeResolves
<1> QED
  BY <1>8 DEF Contract!Outcomes

LEMMA AbandonResolves ==
  ASSUME RefInv, Abandon
  PROVE  \E o \in Contract!Outcomes \ {"none"} : Contract!Resolve(o)
<1> DEFINE new == {Err(cur, "overdue")}
<1>1. /\ hpc \in {"waitStop", "waitDone"} /\ Overtime
      /\ Conclude(new, "err", cur - 1)
  BY DEF Abandon, AbandonAt, Overtime
<1>2. \A e \in new : e.why \in StopWhys /\ e.svc = cur
  BY DEF Err, StopWhys
<1>3. Err(cur, "overdue") \in new
  OBVIOUS
<1>4. Contract!Resolve("abandoned")
  <2> HIDE DEF new
  <2> QED
    BY <1>1, <1>2, <1>3, ConcludeResolves
<1> QED
  BY <1>4 DEF Contract!Outcomes

\* Run returns nil exactly when the contract says so: each part of the joined
\* error is a failure that ended service, or was told as an outcome.
LEMMA RunReturns == ASSUME RefInv, Return PROVE Contract!Return
<1> USE ServicesAssumption
<1>1. /\ UNCHANGED <<launched, done, stopRes, told, errs, deadline, cur>>
      /\ hpc = "onStopped" /\ hpc' = "returned" /\ cur = 0 /\ launched \in 0..N
  BY DEF RefInv, TypeOK, HostTypeOK, StopInv, Return, startVars, stopVars
<1>2. AskedCount = launched /\ AskedCount' = AskedCount
  BY <1>1 DEF AskedCount
<1>3. \A i \in 1..launched : i \in Services /\ told[i] \in {"nil", "err"}
  <2> SUFFICES ASSUME NEW i \in 1..launched PROVE i \in Services /\ told[i] \in {"nil", "err"}
    OBVIOUS
  <2>1. i \in Services /\ Passed(i)
    BY <1>1 DEF Passed, Services
  <2> QED
    BY <2>1 DEF RefInv, StopInv, TypeOK, HostTypeOK
<1>4. Contract!Resolved
  <2>1. ASSUME AskedCount > 0 PROVE OutcomeOf[launched + 1 - AskedCount] # "none"
    <3>1. launched + 1 - AskedCount = 1 /\ 1 \in 1..launched
      BY <1>1, <1>2, <2>1
    <3>2. 1 \in Services /\ told[1] # "none"
      BY <1>3, <3>1
    <3> QED
      BY <3>1, <3>2 DEF OutcomeOf, Outcome
  <2> QED
    BY <2>1 DEF Contract!Resolved, Contract!Current, OutcomeOf
<1>5. errs = {} <=> ~(Faulty \/ \E i \in 1..launched : OutcomeOf[i] # "clean")
  <2>1. ASSUME NEW i \in 1..launched PROVE OutcomeOf[i] # "clean" <=> told[i] = "err"
    <3>1. told[i] = "nil" => Err(i, "overdue") \notin errs
      BY <1>3 DEF RefInv, AccountInv, ToldInv
    <3> QED
      BY <1>3, <3>1 DEF OutcomeOf, Outcome
  <2>2. ASSUME NEW i \in 1..launched, told[i] = "err" PROVE errs # {}
    BY <1>3, <2>2 DEF RefInv, AccountInv, ToldInv
  <2>3. ASSUME NEW e \in errs, ~Faulty PROVE \E i \in 1..launched : told[i] = "err"
    <3>1. e.why \in StopWhys /\ e \in [svc : 0..N, why : Whys]
      BY <2>3 DEF Faulty, RefInv, TypeOK, HostTypeOK, Whys, StopWhys
    <3>2. Justified(e)
      BY DEF RefInv, AccountInv, ErrorsJustified
    <3>3. e.svc \in 1..launched
      BY <3>1, <3>2 DEF Justified, StopWhys
    <3>4. e = Err(e.svc, e.why)
      BY <3>1 DEF Err
    <3>5. told[e.svc] # "nil"
      <4>1. CASE e.why = "overdue"
        BY <1>3, <3>3, <3>4, <4>1 DEF RefInv, AccountInv, ToldInv
      <4>2. CASE e.why = "stopError"
        BY <1>3, <3>2, <3>3, <4>2 DEF RefInv, AccountInv, ToldInv, Justified
      <4>3. CASE e.why = "failedStopping"
        BY <1>3, <3>2, <3>3, <4>3 DEF RefInv, AccountInv, ToldInv, Justified
      <4> QED
        BY <3>1, <4>1, <4>2, <4>3 DEF StopWhys
    <3> QED
      BY <1>3, <3>3, <3>5
  <2>4. Faulty => errs # {}
    BY DEF Faulty
  <2> QED
    BY <2>1, <2>2, <2>3, <2>4
<1>6. Phase = "stopping" /\ Phase' = "stopped"
  BY <1>1 DEF Phase, Starting
<1>7. RunResult' = IF Faulty \/ \E i \in 1..launched : OutcomeOf[i] # "clean" THEN "error" ELSE "nil"
  BY <1>1, <1>5 DEF RunResult
<1>8. Active' = Active /\ OutcomeOf' = OutcomeOf /\ (Overtime' <=> Overtime) /\ (Faulty' <=> Faulty)
  BY <1>1, ActiveKept, OutcomeKept DEF Overtime, Faulty
<1> QED
  BY <1>1, <1>2, <1>4, <1>6, <1>7, <1>8, Zenon DEF Contract!Return, Active, OutcomeOf, Overtime, Faulty

-----------------------------------------------------------------------------
(* The refinement.                                                         *)

\* A supervisor or a service goes on: at most its final result is new.
LEMMA SupStepFinishes ==
  ASSUME RefInv, NEW i \in Services, SupStep(i)
  PROVE  Contract!Finish(i) \/ Quiet
<1>1. UNCHANGED <<hpc, launched, cur, told, errs, deadline, stopRes>>
  BY DEF SupStep, hostVars
<1>2. SupTypeOK /\ (Service(i) \/ Supervisor(i))
  BY DEF SupStep, RefInv, TypeOK
<1>3. \A j \in Services : done[j] # "empty" => done'[j] = done[j]
  BY <1>2, SupStepEffect
<1>4. \A j \in Services : done'[j] = done[j] \/ j = i
  <2> USE DEF SupTypeOK, Goto
  <2>1. CASE Service(i)
    BY <2>1 DEF Service, BeginStart, BecomeReady, ReturnFromStart
  <2>2. CASE StopAfterReturn(i) \/ DeliverGiveUp(i) \/ QuitBackoff(i)
    BY <1>2, <2>2 DEF StopAfterReturn, DeliverGiveUp, QuitBackoff, SendDone
  <2>3. CASE ExitUnsupervised(i) \/ Retry(i) \/ Exhaust(i) \/ ReportExit(i) \/ BackoffElapsed(i)
    BY <2>3 DEF ExitUnsupervised, Retry, Exhaust, ReportExit, BackoffElapsed
  <2> QED
    BY <1>2, <2>1, <2>2, <2>3 DEF Supervisor
<1>5. \A j \in Services : Settled(j) => Settled(j)'
  BY <1>1, <1>3 DEF Settled
<1>6. \A j \in Services : Settled(j)' => Settled(j) \/ j = i
  BY <1>1, <1>4 DEF Settled
<1> QED
  BY <1>1, <1>5, <1>6, FinishOrQuiet

LEMMA StopReturnsFinishes ==
  ASSUME RefInv, NEW i \in Services, StopReturns(i)
  PROVE  Contract!Finish(i) \/ Quiet
<1>1. /\ UNCHANGED <<hpc, launched, cur, told, errs, deadline, done>> /\ stopRes[i] = "running"
      /\ \E r \in {"nil", "err"} : stopRes' = [stopRes EXCEPT ![i] = r]
  BY DEF StopReturns, startVars, supVars
<1>2. stopRes \in [Services -> {"none", "running", "nil", "err"}]
  BY DEF RefInv, TypeOK, HostTypeOK
<1>3. \A j \in Services : Settled(j) => Settled(j)'
  BY <1>1, <1>2 DEF Settled
<1>4. \A j \in Services : Settled(j)' => Settled(j) \/ j = i
  BY <1>1, <1>2 DEF Settled
<1> QED
  BY <1>1, <1>3, <1>4, FinishOrQuiet

LEMMA RefStep ==
  RefInv /\ [Next]_vars => [Contract!ContractNext]_(Contract!contractVars)
<1> SUFFICES ASSUME RefInv, [Next]_vars
             PROVE  Contract!ContractNext \/ UNCHANGED Contract!contractVars
  OBVIOUS
<1> USE DEF Contract!ContractNext
<1>1. CASE \/ BeginTask \/ TasksDone \/ TaskSucceeds \/ AllLaunched \/ AwaitReady
           \/ BeginStopping \/ RunOnStopping \/ StopReturned \/ AllStopped
           \/ CancelCtx \/ Shutdown \/ CancelTaskCtx
  BY <1>1, QuietSteps, QuietStutters
<1>2. CASE LaunchNext
  BY <1>2, LaunchStarts
<1>3. CASE RunOnStarted
  BY <1>3, StartedServes
<1>4. CASE AbortTasks \/ TaskCanceled \/ TaskFails \/ AwaitTimedOut \/ TakeCause \/ TakeRequest
  BY <1>4, EndStops
<1>5. CASE DeadlineExpires
  BY <1>5, DeadlinePasses
<1>6. CASE StopNext
  BY <1>6, StopAsks
<1>7. CASE ServiceStopped
  BY <1>7, StoppedResolves
<1>8. CASE Abandon
  BY <1>8, AbandonResolves
<1>9. CASE Return
  BY <1>9, RunReturns
<1>10. ASSUME NEW i \in Services, StopReturns(i) \/ SupStep(i)
       PROVE  Contract!ContractNext \/ UNCHANGED Contract!contractVars
  <2>1. Contract!Finish(i) \/ Quiet
    BY <1>10, StopReturnsFinishes, SupStepFinishes
  <2> QED
    BY <2>1, QuietStutters DEF Services
<1>11. CASE UNCHANGED vars
  <2>1. Quiet
    BY <1>11 DEF vars, hostVars, startVars, stopVars, supVars, Quiet, Phase, Active, Settled, AskedCount,
                 OutcomeOf, Outcome, Overtime, Faulty, RunResult
  <2> QED
    BY <2>1, QuietStutters
<1> QED
  BY <1>1, <1>2, <1>3, <1>4, <1>5, <1>6, <1>7, <1>8, <1>9, <1>10, <1>11
  DEF Next, HostStep, Environment, Terminated

LEMMA RefInit == Init => Contract!ContractInit
<1> SUFFICES ASSUME Init PROVE Contract!ContractInit
  OBVIOUS
<1> USE ServicesAssumption, HostAssumption DEF Init
<1>1. Phase = "starting" /\ launched = 0 /\ AskedCount = 0 /\ RunResult = "pending"
  BY DEF Phase, Starting, AskedCount, RunResult
<1>2. Active = {}
  BY DEF Active
<1>3. OutcomeOf = [i \in 1..N |-> "none"]
  BY DEF OutcomeOf, Outcome, Services
<1>4. ~Overtime /\ ~Faulty
  BY DEF Overtime, Faulty
<1>5. Overtime = FALSE /\ Faulty = FALSE
  BY <1>4, Zenon DEF Overtime, Faulty
<1> QED
  BY <1>1, <1>2, <1>3, <1>5, Zenon DEF Contract!ContractInit, Active, OutcomeOf, Overtime, Faulty

\* The host implements the contract: services come up in order, go down one by
\* one in reverse, under one deadline, and Run's nil means that nothing went
\* wrong (README.md:75-88).
THEOREM Refinement == Spec => ImplementsContract
<1>1. Init => DeadlineInv
  BY DEF Init, DeadlineInv
<1>2. Spec => []RefInv
  BY <1>1, ControlInv, ErrsInv, DeadlineInvStep, PTL DEF Spec, RefInv
<1> QED
  BY <1>2, RefInit, RefStep, PTL DEF Spec, ImplementsContract, Contract!ContractSpec
=============================================================================
