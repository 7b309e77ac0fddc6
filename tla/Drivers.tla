------------------------------ MODULE Drivers -------------------------------
(***************************************************************************)
(* What drives a Host: a console process (Host.Run with its signals), the  *)
(* Windows service adapter (winsvc, handler.Execute) and the test helper   *)
(* (shosttest).  Each calls RunContext on a goroutine or in its own, and   *)
(* meanwhile answers to someone: the operator's signals, the Service       *)
(* Control Manager, or the goroutines of a test.                           *)
(*                                                                         *)
(* The host is the one of HostContract, with the OnStarted hooks between   *)
(* its start and its service.  All three may reload the configuration      *)
(* (Host.Reload), as may the application itself.                           *)
(***************************************************************************)
EXTENDS Naturals

CONSTANTS
  N,               \* number of services
  DriverKinds,     \* which drivers
  Waiters,         \* goroutines of a test that call Wait
  MaxConfig,       \* bound on the changes of the configuration
  MaxAppReloads,   \* bound on the application's own calls of Reload
  MaxCheckpoint    \* bound on the checkpoints of STOP_PENDING

ASSUME DriversAssumption ==
  /\ N \in Nat
  /\ DriverKinds \subseteq {"console", "scm", "test"}
  /\ "cleanup" \notin Waiters
  /\ MaxConfig \in Nat /\ MaxAppReloads \in Nat /\ MaxCheckpoint \in Nat

VARIABLES
  phase, up, active, asked, outcome, overtime, faulty, result,  \* the host
  driver,     \* which driver this process has
  pc,         \* where it is
  requested,  \* Shutdown was called, or RunContext's ctx cancelled
  hooked,     \* the OnStarted hooks have run; the driver's one is the last
  runDone,    \* the channel with RunContext's result holds it
  status,     \* winsvc: the last status sent to the SCM, with its checkpoint
  request,    \* winsvc: the control request the SCM has for Execute
  exitCode,   \* winsvc: the exit code of the service
  hup,        \* console: the SIGHUP channel, one slot
  waiter,     \* shosttest: where each call of Wait is
  config,     \* the version of the configuration on disk
  loaded,     \* the version the hooks of the last reload applied
  reload,     \* where each caller of Reload is
  read,       \* the version its hooks have read
  appReloads  \* calls of Reload by the application

hostVars == <<phase, up, active, asked, outcome, overtime, faulty, result>>
scmVars == <<status, request, exitCode>>
reloadVars == <<config, loaded, reload, read, appReloads>>
\* What the steps of each part leave alone.
hostFrame == <<driver, pc, requested, scmVars, hup, waiter, reloadVars>>
reloadFrame == <<hostVars, driver, pc, requested, hooked, runDone, scmVars, hup, waiter>>
consoleFrame == <<hostVars, driver, hooked, runDone, scmVars, waiter>>
scmFrame == <<hostVars, driver, hooked, hup, waiter>>
testFrame == <<hostVars, driver, hooked, scmVars, hup, reloadVars>>
vars == <<hostVars, driver, pc, requested, hooked, runDone, scmVars, hup, waiter, reloadVars>>

Contract == INSTANCE HostContract

Callers == {"driver", "app"}
Status == [state : {"none", "start_pending", "running", "stop_pending", "stopped"}, checkpoint : Nat]

Init ==
  /\ Contract!ContractInit
  /\ driver \in DriverKinds
  /\ pc = "begin"
  /\ requested = FALSE /\ hooked = FALSE /\ runDone = FALSE
  /\ status = [state |-> "none", checkpoint |-> 0] /\ request = "none" /\ exitCode = 0
  /\ hup = FALSE
  /\ waiter = [w \in Waiters |-> "idle"]
  /\ config = 0 /\ loaded = 0 /\ appReloads = 0
  /\ reload = [c \in Callers |-> "none"]
  /\ read = [c \in Callers |-> 0]

-----------------------------------------------------------------------------
(* RunContext.                                                             *)

HostRuns == pc # "begin"

\* The host starts its services, or stops them, as it promises to.
HostWorks ==
  /\ HostRuns
  /\ \/ Contract!Start \/ Contract!Serve \/ Contract!Ask \/ Contract!Expire
     \/ \E i \in 1..N : Contract!Finish(i)
     \/ \E o \in Contract!Outcomes \ {"none"} : Contract!Resolve(o)
  /\ UNCHANGED <<hostFrame, hooked, runDone>>

\* Every service is up, and runHooks("OnStarted", ...) runs the hooks: the
\* driver's closes started.
RunOnStarted ==
  /\ HostRuns /\ phase = "running" /\ ~hooked
  /\ hooked' = TRUE
  /\ UNCHANGED <<hostFrame, hostVars, runDone>>

\* Startup or service ends, by request or by a failure.
HostStops ==
  /\ HostRuns
  /\ phase = "running" => hooked
  /\ Contract!Stop
  /\ requested \/ faulty'
  /\ UNCHANGED <<hostFrame, hooked, runDone>>

\* RunContext returns, and its goroutine sends the result.
HostReturns ==
  /\ Contract!Return
  /\ runDone' = TRUE
  /\ UNCHANGED <<hostFrame, hooked>>

-----------------------------------------------------------------------------
(* Host.Reload: the OnReload hooks, under reloadMu.                        *)

CallReload(c) == reload[c] = "none" /\ reload' = [reload EXCEPT ![c] = "wait"]

\* Mutant: no mutex.
ReloadUnlocked == TRUE

\* reloadMu is free.
ReloadFree == \A c \in Callers : reload[c] \in {"none", "wait"}

\* The lock is taken, and the first hook reads the configuration.
BeginReload(c) ==
  /\ reload[c] = "wait" /\ ReloadFree
  /\ reload' = [reload EXCEPT ![c] = "hooks"]
  /\ read' = [read EXCEPT ![c] = config]
  /\ UNCHANGED <<reloadFrame, config, loaded, appReloads>>

\* The last hook applies it, and the lock is released.
EndReload(c) ==
  /\ reload[c] = "hooks"
  /\ reload' = [reload EXCEPT ![c] = "none"]
  /\ loaded' = read[c]
  /\ UNCHANGED <<reloadFrame, config, read, appReloads>>

AppReloads ==
  /\ appReloads < MaxAppReloads
  /\ appReloads' = appReloads + 1
  /\ CallReload("app")
  /\ UNCHANGED <<reloadFrame, config, loaded, read>>

-----------------------------------------------------------------------------
(* The console: Host.Run, and the goroutine of notifyReloadSignal.         *)

RunConsole ==
  /\ driver = "console" /\ pc = "begin"
  /\ pc' = "running"
  /\ UNCHANGED <<consoleFrame, requested, hup, reloadVars>>

\* SIGTERM or SIGINT cancels the context; any driver's application may call
\* Shutdown, with the same effect.
RequestShutdown ==
  /\ HostRuns /\ ~requested
  /\ requested' = TRUE
  /\ UNCHANGED <<consoleFrame, pc, hup, reloadVars>>

\* Mutant: a channel without a buffer; a signal that finds no receiver is lost.
HupKeptIfIdle == reload["driver"] = "none"

\* The runtime puts the signal into the channel, which has one slot.
HupKept == TRUE

\* The operator changes the configuration, then sends SIGHUP.
Sighup ==
  /\ driver = "console" /\ pc = "running" /\ config < MaxConfig
  /\ config' = config + 1
  /\ hup' = (hup \/ HupKept)
  /\ UNCHANGED <<consoleFrame, pc, requested, loaded, reload, read, appReloads>>

TakeHup ==
  /\ hup /\ CallReload("driver")
  /\ hup' = FALSE
  /\ UNCHANGED <<consoleFrame, pc, requested, config, loaded, read, appReloads>>

\* RunContext has returned: stopReload takes the signal back, Run returns.
ConsoleReturns ==
  /\ driver = "console" /\ pc = "running" /\ runDone
  /\ pc' = "end" /\ hup' \in {hup, FALSE}
  /\ UNCHANGED <<consoleFrame, requested, reloadVars>>

\* Mutant: the driver does not tell the host.
NotTold == UNCHANGED requested

\* host.Shutdown()
TellHost == requested' = TRUE

-----------------------------------------------------------------------------
(* The Windows service: Execute, waitStop, exit, and the SCM.              *)

Send(s, n) == status' = [state |-> s, checkpoint |-> n]

ExecuteBegins ==
  /\ driver = "scm" /\ pc = "begin"
  /\ Send("start_pending", 0)
  /\ pc' = "starting"
  /\ UNCHANGED <<scmFrame, requested, runDone, request, exitCode, reloadVars>>

ReportRunning ==
  /\ driver = "scm" /\ pc = "starting" /\ hooked
  /\ Send("running", 0)
  /\ pc' = "control"
  /\ UNCHANGED <<scmFrame, requested, runDone, request, exitCode, reloadVars>>

\* The SCM has a request.  A stop, and the change of parameters that follows
\* a change of the configuration, only for a service that accepts them.
ScmRequests(q) ==
  /\ driver = "scm" /\ pc # "end" /\ request = "none"
  /\ q # "interrogate" => status.state = "running"
  /\ request' = q
  /\ IF q = "paramchange" THEN config < MaxConfig /\ config' = config + 1
                          ELSE UNCHANGED config
  /\ UNCHANGED <<scmFrame, pc, requested, runDone, status, exitCode, loaded, reload, read, appReloads>>

\* The control loop is at its select: no reload keeps it.
InControl == driver = "scm" /\ pc = "control" /\ reload["driver"] = "none"

\* Interrogate is answered with the status the SCM has.
Answer ==
  /\ InControl /\ request = "interrogate"
  /\ request' = "none"
  /\ UNCHANGED <<scmFrame, pc, requested, runDone, status, exitCode, reloadVars>>

ParamChange ==
  /\ InControl /\ request = "paramchange"
  /\ request' = "none"
  /\ CallReload("driver")
  /\ UNCHANGED <<scmFrame, pc, requested, runDone, status, exitCode, config, loaded, read, appReloads>>

StopControl ==
  /\ InControl /\ request = "stop"
  /\ request' = "none"
  /\ TellHost
  /\ Send("stop_pending", 1)
  /\ pc' = "waitStop"
  /\ UNCHANGED <<scmFrame, runDone, exitCode, reloadVars>>

Checkpoint ==
  /\ driver = "scm" /\ pc = "waitStop" /\ status.checkpoint < MaxCheckpoint
  /\ Send("stop_pending", status.checkpoint + 1)
  /\ UNCHANGED <<scmFrame, pc, requested, runDone, request, exitCode, reloadVars>>

\* Mutant: a stop that was asked for is not waited for.
ExitOnStop == runDone \/ pc = "waitStop"

\* <-runDone
RunIsDone == runDone

\* Mutant: the case does not return.
BackToControl == "control"

\* return h.exit(s, err)
Exit == "end"

\* Each select may take the host's result: STOPPED is the last status.
ExecuteExits ==
  /\ driver = "scm"
  /\ pc \in {"starting", "waitStop"} \/ InControl
  /\ RunIsDone
  /\ runDone' = FALSE
  /\ Send("stopped", 0)
  /\ exitCode' = IF result = "error" THEN 1 ELSE 0
  /\ pc' = Exit
  /\ UNCHANGED <<scmFrame, requested, request, reloadVars>>

-----------------------------------------------------------------------------
(* The test helper: Start, the calls of Wait and Stop, the cleanup.        *)

TestStarts ==
  /\ driver = "test" /\ pc = "begin"
  /\ pc' = "starting"
  /\ UNCHANGED <<consoleFrame, requested, hup, reloadVars>>

\* Start returns when started is closed; when the host returned first it
\* puts the result back and fails the test; so does its timeout.
TestStarted ==
  /\ driver = "test" /\ pc = "starting"
  /\ \/ hooked /\ pc' = "body"
     \/ runDone /\ pc' = "end"
     \/ pc' = "end"
  /\ UNCHANGED <<consoleFrame, requested, hup, reloadVars>>

\* Wait takes the result from the channel, which is empty until it puts it
\* back for the others.
WaitCalled(w) ==
  /\ driver = "test" /\ pc = "body" /\ waiter[w] = "idle"
  /\ waiter' = [waiter EXCEPT ![w] = "waiting"]
  /\ UNCHANGED <<testFrame, pc, requested, runDone>>

TakeResult(w) ==
  /\ waiter[w] = "waiting" /\ runDone
  /\ runDone' = FALSE
  /\ waiter' = [waiter EXCEPT ![w] = "holding"]
  /\ UNCHANGED <<testFrame, pc, requested>>

\* Mutant: the result is kept.
ResultKept == UNCHANGED runDone

\* h.done <- err
ResultPutBack == ~runDone /\ runDone' = TRUE

PutBack(w) ==
  /\ waiter[w] = "holding"
  /\ ResultPutBack
  /\ waiter' = [waiter EXCEPT ![w] = "returned"]
  /\ UNCHANGED <<testFrame, pc, requested>>

WaitTimeout(w) ==
  /\ waiter[w] = "waiting"
  /\ waiter' = [waiter EXCEPT ![w] = "timeout"]
  /\ UNCHANGED <<testFrame, pc, requested, runDone>>

\* The test is over: the cleanup asks the host to stop and waits for it.
Cleanup ==
  /\ driver = "test" /\ pc = "body"
  /\ TellHost
  /\ pc' = "cleanup"
  /\ UNCHANGED <<consoleFrame, hup, reloadVars>>

\* It takes the result and puts it back as Wait does, or its timeout passes.
CleanupTakes ==
  /\ driver = "test" /\ pc = "cleanup" /\ runDone
  /\ runDone' = FALSE
  /\ pc' = "holding"
  /\ UNCHANGED <<testFrame, requested, waiter>>

CleanupPutsBack ==
  /\ driver = "test" /\ pc = "holding"
  /\ ResultPutBack
  /\ pc' = "end"
  /\ UNCHANGED <<testFrame, requested, waiter>>

CleanupTimeout ==
  /\ driver = "test" /\ pc = "cleanup"
  /\ pc' = "end"
  /\ UNCHANGED <<testFrame, requested, runDone, waiter>>

HostStep == HostWorks \/ RunOnStarted \/ HostStops \/ HostReturns
ReloadStep == AppReloads \/ \E c \in Callers : BeginReload(c) \/ EndReload(c)
ConsoleStep == RunConsole \/ RequestShutdown \/ Sighup \/ TakeHup \/ ConsoleReturns
ScmStep == ExecuteBegins \/ ReportRunning \/ Answer \/ ParamChange \/ StopControl
           \/ Checkpoint \/ ExecuteExits
           \/ \E q \in {"interrogate", "paramchange", "stop"} : ScmRequests(q)
TestStep == TestStarts \/ TestStarted \/ Cleanup \/ CleanupTakes \/ CleanupPutsBack
            \/ CleanupTimeout
            \/ \E w \in Waiters : WaitCalled(w) \/ TakeResult(w) \/ PutBack(w) \/ WaitTimeout(w)

Next == HostStep \/ ReloadStep \/ ConsoleStep \/ ScmStep \/ TestStep

Spec == Init /\ [][Next]_vars

\* A shutdown that was requested, or begun, ends within its deadline, as the
\* host promises; every other goroutine is scheduled, and hooks return.  A
\* select of Execute draws at random among its ready cases, so requests do not
\* keep it from the host's result for ever.
Fairness ==
  /\ WF_vars(phase = "stopping" /\ HostWorks)
  /\ WF_vars(requested /\ HostStops) /\ WF_vars(RunOnStarted) /\ WF_vars(HostReturns)
  /\ \A c \in Callers : WF_vars(BeginReload(c)) /\ WF_vars(EndReload(c))
  /\ WF_vars(TakeHup)
  /\ WF_vars(Answer) /\ WF_vars(ParamChange) /\ WF_vars(StopControl)
  /\ SF_vars(ExecuteExits)
  /\ \A w \in Waiters : WF_vars(PutBack(w))
  /\ WF_vars(CleanupPutsBack)

FairSpec == Spec /\ Fairness

-----------------------------------------------------------------------------
(* Properties.                                                             *)

\* Types, and: STOP_PENDING is reported for a host that was told to stop.
DriversTypeOK ==
  /\ driver \in DriverKinds
  /\ pc \in {"begin", "starting", "control", "running", "waitStop", "body", "cleanup",
            "holding", "end"}
  /\ pc = "waitStop" => requested
  /\ requested \in BOOLEAN /\ hooked \in BOOLEAN /\ runDone \in BOOLEAN /\ hup \in BOOLEAN
  /\ status \in Status
  /\ request \in {"none", "interrogate", "paramchange", "stop"}
  /\ exitCode \in {0, 1}
  /\ waiter \in [Waiters -> {"idle", "waiting", "holding", "returned", "timeout"}]
  /\ config \in Nat /\ loaded \in Nat /\ appReloads \in Nat
  /\ reload \in [Callers -> {"none", "wait", "hooks"}]
  /\ read \in [Callers -> Nat]

\* What the SCM is told is true, or about to be corrected.  RUNNING means that
\* the services had all come up; the host may have gone down since, even
\* before RUNNING was sent, but then its result waits for Execute.  STOPPED is
\* sent only when RunContext has returned, with the exit code of its result.
ScmIsToldTheTruth ==
  /\ status.state = "running" => hooked /\ up = N
  /\ driver = "scm" /\ phase = "stopped" => (runDone <=> status.state # "stopped")
  /\ status.state = "stopped" => /\ phase = "stopped"
                                 /\ exitCode = 1 <=> result = "error"

StatusOrder == <<"none", "start_pending", "running", "stop_pending", "stopped">>

\* The SCM sees a legal course of statuses: START_PENDING first, never a step
\* back, every STOP_PENDING with a later checkpoint than the one before, and
\* nothing after STOPPED.
StatusAdvances ==
  [][status' # status =>
       \E i, j \in 1..5 :
         /\ status.state = StatusOrder[i] /\ status'.state = StatusOrder[j]
         /\ i < j \/ (i = j /\ i = 4 /\ status'.checkpoint > status.checkpoint)
         /\ i = 1 => j = 2]_vars

\* A stop is carried out and reported: the service the SCM wants to stop
\* reports STOPPED, as does one whose host stopped by itself, before or after
\* RUNNING; and a test whose host had started does not leave it running, even
\* when the cleanup no longer waits for it.
StopIsCarriedOut ==
  /\ request = "stop" ~> status.state = "stopped"
  /\ driver = "scm" /\ phase = "stopped" ~> status.state = "stopped"
  /\ driver = "test" /\ pc = "cleanup" ~> phase = "stopped"

\* The hooks never put an older configuration in the place of a newer one.
NoStaleReload == [][loaded' >= loaded]_vars

\* A change of the configuration that was notified (SIGHUP, paramchange) is
\* loaded, however many notifications came during a reload, unless the host
\* stops first.
ChangeIsLoaded == \A v \in 1..MaxConfig : config >= v ~> loaded >= v \/ phase = "stopped"

\* The goroutines that took the result and have not put it back.
Holders == {w \in Waiters : waiter[w] = "holding"}
           \cup (IF pc = "holding" THEN {"cleanup"} ELSE {})

\* The result of RunContext is there for every call of Wait, and for the
\* cleanup: it is in the channel, or with one goroutine that puts it back.
ResultNotLost ==
  driver = "test" /\ phase = "stopped" =>
    IF runDone THEN Holders = {} ELSE \E h \in Holders : Holders = {h}
=============================================================================
