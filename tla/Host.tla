-------------------------------- MODULE Host --------------------------------
(***************************************************************************)
(* The host loop of shost (host.go): RunContext, runStartupTasks and       *)
(* stopAll, composed with the supervisor goroutines of Supervise.          *)
(*                                                                         *)
(* One goroutine, the one in RunContext, runs the startup tasks, launches  *)
(* the services in registration order and waits for the readiness of those *)
(* that have one, serves until something ends it, and stops the launched   *)
(* services in reverse order under one shared deadline.  Around it run the *)
(* supervisors, one goroutine per Stop call, and the callers that cancel   *)
(* the context or call Shutdown.  hpc is where the host goroutine is; a    *)
(* select is one action per case, so that two ready cases are a choice.    *)
(*                                                                         *)
(* Abstractions.  Timers may fire at any moment after they are set.  Hooks *)
(* and observer callbacks return (nothing bounds them in the code) and     *)
(* change no state of the host, except that they may call Shutdown, which  *)
(* is enabled at all times here.  A joined error is the set of its parts.  *)
(* Run's signals are a cancelled ctx.                                      *)
(***************************************************************************)
EXTENDS Supervise

CONSTANTS
  NTasks,       \* number of startup tasks
  StartTimeout  \* WithStartTimeout was used

ASSUME HostAssumption ==
  /\ NTasks \in Nat
  /\ StartTimeout \in BOOLEAN

VARIABLES
  hpc,         \* where the host goroutine is
  task,        \* the startup task to run next, or running
  taskCtx,     \* the context of the startup tasks is cancelled
  launched,    \* number of services launched
  cur,         \* stopAll's loop variable, from launched down to 0
  cause,       \* causeIndex, 0 for none
  errs,        \* the errors RunContext joins
  ctxDone,     \* the caller's context is cancelled
  shutdownCh,  \* Shutdown was called
  deadline,    \* stopCtx: "none", "armed", "expired", or "released" by stopAll
  stopRes,     \* each service's Stop call: "none", "running" or its result
  told         \* ServiceStopped: "none", or whether its error was nil

hostVars == <<hpc, task, taskCtx, launched, cur, cause, errs, ctxDone,
              shutdownCh, deadline, stopRes, told>>
vars == <<hostVars, supVars>>

\* What only the startup part of the host writes, and only the stop part.
startVars == <<task, taskCtx, launched>>
stopVars == <<cur, deadline, stopRes, told>>

HostStates == {"tasks", "taskRun", "launch", "await", "onStarted", "serve",
               "close", "onStopping", "stop", "waitStop", "waitDone",
               "onStopped", "returned"}

Starting == {"tasks", "taskRun", "launch", "await"}
StopLoop == {"stop", "waitStop", "waitDone"}

\* A part of the joined error: which service (0 for a startup task) and why.
Whys == {"task", "notReady", "failed", "exited", "stopError", "failedStopping", "overdue"}
Err(i, why) == [svc |-> i, why |-> why]

HostTypeOK ==
  /\ hpc \in HostStates
  /\ task \in 1..NTasks + 1
  /\ taskCtx \in BOOLEAN
  /\ launched \in 0..N
  /\ cur \in 0..N
  /\ cause \in 0..N
  /\ errs \subseteq [svc : 0..N, why : Whys]
  /\ ctxDone \in BOOLEAN
  /\ shutdownCh \in BOOLEAN
  /\ deadline \in {"none", "armed", "expired", "released"}
  /\ stopRes \in [Services -> {"none", "running", "nil", "err"}]
  /\ told \in [Services -> {"none", "nil", "err"}]

TypeOK == SupTypeOK /\ HostTypeOK

Init ==
  /\ SupInit
  /\ hpc = "tasks"
  /\ task = 1
  /\ taskCtx = FALSE
  /\ launched = 0
  /\ cur = 0
  /\ cause = 0
  /\ errs = {}
  /\ ctxDone = FALSE
  /\ shutdownCh = FALSE
  /\ deadline = "none"
  /\ stopRes = [i \in Services |-> "none"]
  /\ told = [i \in Services |-> "none"]

\* The host goroutine goes on, and nothing else changes.
Move(from, to) ==
  /\ hpc = from
  /\ hpc' = to
  /\ UNCHANGED <<startVars, cause, errs, ctxDone, shutdownCh, stopVars, supVars>>

-----------------------------------------------------------------------------
(* The callers and the clock.                                              *)

\* Mutant: the service contexts are derived from the caller's.
CancelCtxAndServices ==
  /\ ~ctxDone
  /\ ctxDone' = TRUE
  /\ svcCtx' = svcCtx \cup 1..launched
  /\ UNCHANGED <<hpc, startVars, cause, errs, shutdownCh, stopVars,
                 stopping, sup, ret, attempts, done, exits, ready, lateStarts>>

\* The caller's context is cancelled, by a signal under Run.
CancelCtx ==
  /\ ~ctxDone
  /\ ctxDone' = TRUE
  /\ UNCHANGED <<hpc, startVars, cause, errs, shutdownCh, stopVars, supVars>>

\* Shutdown() from any goroutine; shutdownOnce makes later calls no-ops.
Shutdown ==
  /\ ~shutdownCh
  /\ shutdownCh' = TRUE
  /\ UNCHANGED <<hpc, startVars, cause, errs, ctxDone, stopVars, supVars>>

\* The shutdown timeout is over.
DeadlineExpires ==
  /\ deadline = "armed"
  /\ deadline' = "expired"
  /\ UNCHANGED <<hpc, startVars, cur, cause, errs, ctxDone, shutdownCh, stopRes, told, supVars>>

-----------------------------------------------------------------------------
(* Startup tasks.                                                          *)

\* The task context follows ctx, its parent, and shutdownCh, through the
\* watcher goroutine; neither at the very moment they change.
CancelTaskCtx ==
  /\ hpc \in {"tasks", "taskRun"}
  /\ NTasks > 0
  /\ ctxDone \/ shutdownCh
  /\ ~taskCtx
  /\ taskCtx' = TRUE
  /\ UNCHANGED <<hpc, task, launched, cause, errs, ctxDone, shutdownCh, stopVars, supVars>>

\* The next task is called, unless shutdown was requested by then; in that
\* case nothing is launched and no error is reported.
BeginTask == task <= NTasks /\ ~taskCtx /\ Move("tasks", "taskRun")
AbortTasks == task <= NTasks /\ taskCtx /\ Move("tasks", "close")

\* All tasks have returned nil, or there are none; no check of taskCtx here.
TasksDone == task > NTasks /\ Move("tasks", "launch")

TaskSucceeds ==
  /\ hpc = "taskRun"
  /\ hpc' = "tasks"
  /\ task' = task + 1
  /\ UNCHANGED <<taskCtx, launched, cause, errs, ctxDone, shutdownCh, stopVars, supVars>>

\* A task that returns context.Canceled after the request aborts cleanly.
TaskCanceled == taskCtx /\ Move("taskRun", "close")

\* Any other error, or context.Canceled out of the blue.
TaskFails ==
  /\ hpc = "taskRun"
  /\ errs' = errs \cup {Err(0, "task")}
  /\ hpc' = "close"
  /\ UNCHANGED <<startVars, cause, ctxDone, shutdownCh, stopVars, supVars>>

-----------------------------------------------------------------------------
(* Launching the services.                                                 *)

\* Mutant: the launch loop does not wait for readiness.
NeverAwait(i) == FALSE

\* The host waits for service i before it launches the next one.
Awaited(i) == i \in Readiers

\* One round of the launch loop, up to the wait for readiness.
LaunchNext ==
  /\ hpc = "launch"
  /\ launched < N
  /\ Launch(launched + 1)
  /\ launched' = launched + 1
  /\ hpc' = IF Awaited(launched') THEN "await" ELSE "launch"
  /\ UNCHANGED <<task, taskCtx, cause, errs, ctxDone, shutdownCh, stopVars>>

AllLaunched == launched = N /\ Move("launch", "onStarted")

\* <-r.Ready()
AwaitReady == launched \in ready /\ Move("await", "launch")

\* <-startTimeoutCh: the timer, set when RunContext began, has fired by now.
AwaitTimedOut ==
  /\ hpc = "await"
  /\ StartTimeout
  /\ errs' = errs \cup {Err(launched, "notReady")}
  /\ hpc' = "close"
  /\ UNCHANGED <<startVars, cause, ctxDone, shutdownCh, stopVars, supVars>>

\* Mutant: a cancellation counts as an exit without an error.
ExitErrOfCancel(exit) == Err(exit.svc, IF exit.err = "err" THEN "failed" ELSE "exited")

\* The error of a premature exit (exitError).
ExitErr(exit) == Err(exit.svc, IF exit.err = "nil" THEN "exited" ELSE "failed")

\* <-exits, at one of the given selects.
TakeCauseAt(selects) ==
  /\ hpc \in selects
  /\ TakeExit
  /\ cause' = Head(exits).svc
  /\ errs' = errs \cup {ExitErr(Head(exits))}
  /\ hpc' = "close"
  /\ UNCHANGED <<startVars, ctxDone, shutdownCh, stopVars>>

\* Mutant: the wait for readiness does not watch exits.
TakeCauseServing == TakeCauseAt({"serve"})

TakeCause == TakeCauseAt({"await", "serve"})

\* <-ctx.Done() or <-h.shutdownCh, while waiting and while serving.
TakeRequest ==
  /\ ctxDone \/ shutdownCh
  /\ Move("await", "close") \/ Move("serve", "close")

\* OnStarted hooks and HostStarted.
RunOnStarted == Move("onStarted", "serve")

-----------------------------------------------------------------------------
(* Stopping.                                                               *)

\* close(h.stoppingCh)
BeginStopping ==
  /\ hpc = "close"
  /\ CloseStopping
  /\ hpc' = "onStopping"
  /\ UNCHANGED <<startVars, cause, errs, ctxDone, shutdownCh, stopVars>>

\* OnStopping hooks, then stopAll sets its deadline.
RunOnStopping ==
  /\ hpc = "onStopping"
  /\ hpc' = "stop"
  /\ cur' = launched
  /\ deadline' = "armed"
  /\ UNCHANGED <<startVars, cause, errs, ctxDone, shutdownCh, stopRes, told, supVars>>

\* cancels[i](), and Stop begins in a goroutine of its own.
StopCurrent ==
  /\ hpc = "stop"
  /\ Cancel(cur)
  /\ stopRes' = [stopRes EXCEPT ![cur] = "running"]
  /\ hpc' = "waitStop"
  /\ UNCHANGED <<startVars, cur, cause, errs, ctxDone, shutdownCh, deadline, told>>

\* Mutant: the loop runs down to index -1.
StopNextPastEnd == cur >= 0 /\ StopCurrent

StopNext == cur > 0 /\ StopCurrent

\* Stop returns or panics: its result waits in stopRes.
StopReturns(i) ==
  /\ stopRes[i] = "running"
  /\ \E r \in {"nil", "err"} : stopRes' = [stopRes EXCEPT ![i] = r]
  /\ UNCHANGED <<hpc, startVars, cur, cause, errs, ctxDone, shutdownCh, deadline, told, supVars>>

\* The host is done with the current service: it joins new errors, calls
\* ServiceStopped with svcErr, and goes on with service next.
Conclude(new, svcErr, next) ==
  /\ errs' = errs \cup new
  /\ told' = [told EXCEPT ![cur] = svcErr]
  /\ cur' = next
  /\ hpc' = "stop"
  /\ UNCHANGED <<startVars, cause, ctxDone, shutdownCh, deadline, stopRes, supVars>>

\* The error of a Stop call that returned.
StopErrs == IF stopRes[cur] = "err" THEN {Err(cur, "stopError")} ELSE {}

\* Mutant: the host does not wait for the final Start result.
StopReturnedIsStopped ==
  /\ hpc = "waitStop"
  /\ stopRes[cur] \in {"nil", "err"}
  /\ Conclude(StopErrs, stopRes[cur], cur - 1)

\* <-stopRes
StopReturned ==
  /\ hpc = "waitStop"
  /\ stopRes[cur] \in {"nil", "err"}
  /\ errs' = errs \cup StopErrs
  /\ hpc' = "waitDone"
  /\ UNCHANGED <<startVars, cause, ctxDone, shutdownCh, stopVars, supVars>>

\* Mutant: the cause of the shutdown is reported again.
FailsAny(i) == done[i] = "err"

\* Mutant: one failure is enough.
FirstFailure(i) == done[i] = "err" /\ cause = 0

\* The final Start error counts: it is neither a cancellation nor the cause.
FailedStopping(i) == done[i] = "err" /\ i # cause

\* Mutant: ServiceStopped is given the error of Stop only.
StopErrorOnly(i) == IF stopRes[i] = "err" THEN "err" ELSE "nil"

\* svcErr, the error ServiceStopped is called with.
SvcErr(i) == IF stopRes[i] = "err" \/ FailedStopping(i) THEN "err" ELSE "nil"

\* <-done[i]: the service is stopped, and the loop goes on.
ServiceStopped ==
  /\ hpc = "waitDone"
  /\ done[cur] # "empty"
  /\ Conclude(IF FailedStopping(cur) THEN {Err(cur, "failedStopping")} ELSE {},
              SvcErr(cur), cur - 1)

\* <-stopCtx.Done(), at one of the given selects.
AbandonAt(selects, next) ==
  /\ hpc \in selects
  /\ deadline = "expired"
  /\ Conclude({Err(cur, "overdue")}, "err", next)

\* Mutant: the deadline ends the whole loop.
AbandonAll == AbandonAt({"waitStop", "waitDone"}, 0)

\* Mutant: only Stop is bounded by the deadline, not the wait for Start.
AbandonStopOnly == AbandonAt({"waitStop"}, cur - 1)

\* The service is reported and abandoned.
Abandon == AbandonAt({"waitStop", "waitDone"}, cur - 1)

\* stopAll returns, and its deferred cancel releases stopCtx.
AllStopped ==
  /\ hpc = "stop"
  /\ cur = 0
  /\ deadline' = IF deadline = "armed" THEN "released" ELSE deadline
  /\ hpc' = "onStopped"
  /\ UNCHANGED <<startVars, cur, cause, errs, ctxDone, shutdownCh, stopRes, told, supVars>>

\* OnStopped hooks, HostStopped, and the deferred cancelAll.
Return ==
  /\ hpc = "onStopped"
  /\ hpc' = "returned"
  /\ svcCtx' = svcCtx \cup 1..launched
  /\ UNCHANGED <<startVars, cause, errs, ctxDone, shutdownCh, stopVars,
                 stopping, sup, ret, attempts, done, exits, ready, lateStarts>>

-----------------------------------------------------------------------------
HostStep ==
  \/ BeginTask \/ AbortTasks \/ TasksDone
  \/ TaskSucceeds \/ TaskCanceled \/ TaskFails
  \/ LaunchNext \/ AllLaunched
  \/ AwaitReady \/ AwaitTimedOut \/ TakeCause \/ TakeRequest
  \/ RunOnStarted
  \/ BeginStopping \/ RunOnStopping
  \/ StopNext \/ StopReturned \/ ServiceStopped \/ Abandon \/ AllStopped
  \/ Return

Environment == CancelCtx \/ Shutdown \/ DeadlineExpires

SupStep(i) == (Service(i) \/ Supervisor(i)) /\ UNCHANGED hostVars

\* Run has returned; the process may go on for ever.
Terminated == hpc = "returned" /\ UNCHANGED vars

Next ==
  \/ HostStep
  \/ Environment
  \/ CancelTaskCtx
  \/ \E i \in Services : StopReturns(i) \/ SupStep(i)
  \/ Terminated

Spec == Init /\ [][Next]_vars

\* The host goroutine runs when it can (startup tasks and hooks return), the
\* deadline expires once it is set, and the task context is cancelled in the
\* end.  No service is assumed to become ready, to return or to stop.
HostFairness == WF_vars(HostStep) /\ WF_vars(DeadlineExpires) /\ WF_vars(CancelTaskCtx)

\* The supervisor goroutines run when they can.
SupervisorFairness ==
  \A i \in Services : WF_vars((BeginStart(i) \/ Supervisor(i)) /\ UNCHANGED hostVars)

\* Start returns once its context is cancelled, as Service asks of it.
StartsObeyCancel ==
  \A i \in Services : WF_vars(i \in svcCtx /\ ReturnFromStart(i) /\ UNCHANGED hostVars)

\* The shutdown path needs the host only.
HostSpec == Spec /\ HostFairness

\* What a failure does needs the supervisors as well.
FairSpec == HostSpec /\ SupervisorFairness /\ StartsObeyCancel

-----------------------------------------------------------------------------
(* Safety.                                                                 *)

\* Service i has nothing left to run: its final Start result was delivered
\* and its Stop has returned.
Settled(i) == done[i] # "empty" /\ stopRes[i] \in {"nil", "err"}

\* Nothing starts before what it depends on: a service is launched only after
\* every startup task succeeded and every Readier registered before it closed
\* its Ready channel; the host is started only once all of them did.
StartupGate ==
  /\ \A i \in Services : sup[i] # "none" =>
       /\ task = NTasks + 1
       /\ \A j \in Readiers : j < i => j \in ready
  /\ hpc \in {"onStarted", "serve"} => launched = N /\ Readiers \subseteq ready

\* Reverse order: while the shutdown deadline has not expired, a service's
\* context is cancelled only once every service launched after it has left
\* both Start and Stop (README.md:83, service.go:12).
ReverseStop ==
  \A i, j \in Services :
    i \in svcCtx /\ i < j /\ j <= launched /\ deadline # "expired" => Settled(j)

\* Contexts are cancelled "one by one, in reverse order, during shutdown - not
\* all at once when ctx fires" (host.go:53): whatever a step does, it cancels
\* at most one service, after stoppingCh was closed, and only once the outcome
\* of every service launched later was told.
CancelOneByOne ==
  [][svcCtx' = svcCtx \/
     \E i \in 1..launched :
       /\ svcCtx' = svcCtx \cup {i}
       /\ stopping
       /\ \A j \in i + 1..launched : told[j] # "none"]_vars

\* When Run returns, every launched service was cancelled, got its Stop call
\* and its ServiceStopped event; a service that was not launched got none.
AllLaunchedStopped ==
  hpc = "returned" =>
    \A i \in Services :
      IF i <= launched
      THEN i \in svcCtx /\ stopRes[i] # "none" /\ told[i] # "none"
      ELSE sup[i] = "none" /\ stopRes[i] = "none" /\ told[i] = "none"

\* No failure is lost, whoever delivers it: when Run returns, the final Start
\* error of every launched service, if it is not a cancellation, and every
\* Stop error that came in time, name that service in Run's error.
NoLostFailure ==
  hpc = "returned" =>
    \A i \in 1..launched :
      done[i] = "err" \/ stopRes[i] = "err" => \E e \in errs : e.svc = i

\* No failure is reported twice: the Start error that stopped the host is not
\* reported again as a failure during shutdown (causeIndex, host.go:332), and
\* an abandoned service has no result.
NoDoubleReport ==
  \A i \in Services :
    /\ ~({Err(i, "failed"), Err(i, "failedStopping")} \subseteq errs)
    /\ ~({Err(i, "overdue"), Err(i, "failedStopping")} \subseteq errs)

\* Run's error never accuses the innocent: each part of it has happened.
Justified(e) ==
  /\ e.why = "task" => e.svc = 0 /\ task <= NTasks /\ launched = 0
  /\ e.why # "task" => e.svc \in 1..launched
  /\ e.why = "notReady" => e.svc = launched /\ StartTimeout
  /\ e.why = "failed" => e.svc = cause /\ done[e.svc] \in {"err", "canceled"}
  /\ e.why = "exited" => e.svc = cause /\ done[e.svc] = "nil"
  /\ e.why = "stopError" => stopRes[e.svc] = "err"
  /\ e.why = "failedStopping" => done[e.svc] = "err" /\ e.svc # cause
  /\ e.why = "overdue" => deadline = "expired"

ErrorsJustified == \A e \in errs : Justified(e)

\* A service whose exit stops the host was not covered by its restart policy:
\* it has none, or its consecutive restarts were used up (builder.go:74).
CauseIsFinal ==
  cause # 0 =>
    /\ sup[cause] = "end"
    /\ cause \in Supervised => UsedUp(cause)

\* The observers and Run agree: ServiceStopped carries an error for a service
\* exactly when Run's error has a part about its shutdown.
OutcomeAgrees ==
  \A i \in Services : told[i] # "none" =>
    (told[i] = "err" <=>
       \E why \in {"stopError", "failedStopping", "overdue"} : Err(i, why) \in errs)

-----------------------------------------------------------------------------
(* The contract.                                                           *)

AskedCount == CASE hpc \in {"waitStop", "waitDone"} -> launched - cur + 1
               [] hpc \in {"stop", "onStopped", "returned"} -> launched - cur
               [] OTHER -> 0

Outcome(i) == CASE told[i] = "none" -> "none"
                [] told[i] = "nil" -> "clean"
                [] Err(i, "overdue") \in errs -> "abandoned"
                [] OTHER -> "failed"

Phase == CASE hpc \in Starting \cup {"onStarted"} -> "starting"
           [] hpc = "serve" -> "running"
           [] hpc = "returned" -> "stopped"
           [] OTHER -> "stopping"

RunResult == IF hpc # "returned" THEN "pending"
             ELSE IF errs = {} THEN "nil" ELSE "error"

Contract == INSTANCE HostContract WITH
  phase <- Phase,
  up <- launched,
  active <- {i \in 1..launched : ~Settled(i)},
  asked <- AskedCount,
  outcome <- [i \in Services |-> Outcome(i)],
  overtime <- deadline = "expired",
  faulty <- \E e \in errs : e.why \in {"task", "notReady", "failed", "exited"},
  result <- RunResult

\* The host keeps the contract of its README (README.md:75-88).
ImplementsContract == Contract!ContractSpec

-----------------------------------------------------------------------------
(* Liveness.                                                               *)

\* A requested shutdown ends in Run's return, whatever the services do: their
\* Start and Stop may hang, panic or fail (README.md:83-86).
ShutdownTerminates == (ctxDone \/ shutdownCh) ~> hpc = "returned"

\* A premature exit stops the host (service.go:8-10): once it is reported, at
\* whatever point of startup or serving the host is, Run returns.
FailureStopsHost == exits # <<>> ~> hpc = "returned"

\* Nothing outlives Run for good: once it returned, the supervisor goroutine
\* of every launched service ends, provided its Start obeys the cancellation.
NoLeakedSupervisor ==
  \A i \in Services :
    (hpc = "returned" /\ i <= launched) ~> sup[i] = "end"

\* README.md:87: a service that returns from Start before shutdown stops the
\* host, and "Run returns a non-nil error naming the service".
PrematureExitReported ==
  \A i \in Services :
    (~ctxDone /\ ~shutdownCh /\ hpc = "serve" /\ sup[i] = "end") ~> errs # {}
=============================================================================
