---------------------------- MODULE DriversProofs ----------------------------
(***************************************************************************)
(* The drivers, for any number of services, of waiting goroutines and of   *)
(* reloads: what the SCM is told, that a reload never brings back an old   *)
(* configuration, and that every Wait of a test gets the result.           *)
(***************************************************************************)
EXTENDS Drivers, TLAPS

-----------------------------------------------------------------------------
(* What the SCM is told.                                                   *)

\* The OnStarted hooks run with every service up, and the result is in the
\* channel, or with a goroutine that took it, only once it is made.
HostInv ==
  /\ phase = "running" => up = N
  /\ hooked => up = N /\ phase # "starting"
  /\ waiter \in [Waiters -> {"idle", "waiting", "holding", "returned", "timeout"}]
  /\ runDone \/ pc = "holding" \/ (\E w \in Waiters : waiter[w] = "holding") => phase = "stopped"

LEMMA HostInvInit == Init => HostInv
  BY DEF Init, HostInv, Contract!ContractInit

LEMMA HostInvStep == HostInv /\ [Next]_vars => HostInv'
<1> SUFFICES ASSUME HostInv, [Next]_vars PROVE HostInv'
  OBVIOUS
<1> USE DEF HostInv, scmVars, reloadVars
<1>1. CASE HostWorks
  BY <1>1 DEF HostWorks, hostFrame, Contract!Start, Contract!Serve, Contract!Ask,
          Contract!Expire, Contract!Finish, Contract!Resolve
<1>2. CASE RunOnStarted
  BY <1>2 DEF RunOnStarted, hostFrame, hostVars
<1>3. CASE HostStops
  BY <1>3 DEF HostStops, hostFrame, Contract!Stop
<1>4. CASE HostReturns
  BY <1>4 DEF HostReturns, hostFrame, Contract!Return
<1>5. CASE ReloadStep
  BY <1>5 DEF ReloadStep, AppReloads, BeginReload, EndReload, CallReload, reloadFrame, hostVars
<1>6. CASE ConsoleStep
  <2> USE DEF consoleFrame, hostVars
  <2>1. CASE RunConsole
    BY <2>1 DEF RunConsole
  <2>2. CASE RequestShutdown
    BY <2>2 DEF RequestShutdown
  <2>3. CASE Sighup
    BY <2>3 DEF Sighup
  <2>4. CASE TakeHup
    BY <2>4 DEF TakeHup
  <2>5. CASE ConsoleReturns
    BY <2>5 DEF ConsoleReturns
  <2> QED
    BY <1>6, <2>1, <2>2, <2>3, <2>4, <2>5 DEF ConsoleStep
<1>7. CASE ScmStep
  BY <1>7 DEF ScmStep, ExecuteBegins, ReportRunning, ScmRequests, InControl, Answer, ParamChange,
          StopControl, Checkpoint, ExecuteExits, RunIsDone, Exit, Send, TellHost, CallReload,
          scmFrame, hostVars
<1>8. CASE TestStep
  <2> USE DEF consoleFrame, testFrame, hostVars
  <2>1. ASSUME NEW w \in Waiters, WaitCalled(w) PROVE HostInv'
    BY <2>1 DEF WaitCalled
  <2>2. ASSUME NEW w \in Waiters, TakeResult(w) PROVE HostInv'
    BY <2>2 DEF TakeResult
  <2>3. ASSUME NEW w \in Waiters, PutBack(w) PROVE HostInv'
    BY <2>3 DEF PutBack, ResultPutBack
  <2>4. ASSUME NEW w \in Waiters, WaitTimeout(w) PROVE HostInv'
    BY <2>4 DEF WaitTimeout
  <2>5. CASE TestStarts \/ TestStarted \/ Cleanup
    BY <2>5 DEF TestStarts, TestStarted, Cleanup, TellHost
  <2>6. CASE CleanupTakes \/ CleanupPutsBack \/ CleanupTimeout
    BY <2>6 DEF CleanupTakes, CleanupPutsBack, CleanupTimeout, ResultPutBack
  <2> QED
    BY <1>8, <2>1, <2>2, <2>3, <2>4, <2>5, <2>6 DEF TestStep
<1>9. CASE UNCHANGED vars
  BY <1>9 DEF vars, hostVars
<1> QED
  BY <1>1, <1>2, <1>3, <1>4, <1>5, <1>6, <1>7, <1>8, <1>9 DEF Next, HostStep

\* Where Execute is, the SCM knows.
PcStatus == [ begin |-> "none", starting |-> "start_pending", control |-> "running",
              waitStop |-> "stop_pending", end |-> "stopped" ]

ScmInv ==
  IF driver = "scm"
  THEN /\ pc \in {"begin", "starting", "control", "waitStop", "end"}
       /\ status.state = PcStatus[pc]
       /\ status.checkpoint \in Nat
       /\ pc = "control" => hooked
       /\ \A w \in Waiters : waiter[w] = "idle"
       /\ phase = "stopped" => (runDone <=> pc # "end")
       /\ pc = "end" => phase = "stopped" /\ (exitCode = 1 <=> result = "error")
  ELSE status.state = "none"

LEMMA ScmInvInit == Init => ScmInv
  BY DEF Init, ScmInv, PcStatus, Contract!ContractInit

LEMMA ScmInvStep == HostInv /\ ScmInv /\ [Next]_vars => ScmInv'
<1> SUFFICES ASSUME HostInv, ScmInv, [Next]_vars PROVE ScmInv'
  OBVIOUS
<1> USE DEF HostInv, ScmInv, PcStatus, scmVars, reloadVars
<1>1. CASE HostWorks
  BY <1>1 DEF HostWorks, hostFrame, Contract!Start, Contract!Serve, Contract!Ask,
          Contract!Expire, Contract!Finish, Contract!Resolve
<1>2. CASE RunOnStarted
  BY <1>2 DEF RunOnStarted, hostFrame, hostVars
<1>3. CASE HostStops
  BY <1>3 DEF HostStops, hostFrame, Contract!Stop
<1>4. CASE HostReturns
  BY <1>4 DEF HostReturns, hostFrame, Contract!Return
<1>5. CASE ReloadStep
  BY <1>5 DEF ReloadStep, AppReloads, BeginReload, EndReload, CallReload, reloadFrame, hostVars
<1>6. CASE ConsoleStep
  <2> USE DEF consoleFrame, hostVars
  <2>1. CASE RunConsole
    BY <2>1 DEF RunConsole
  <2>2. CASE RequestShutdown
    BY <2>2 DEF RequestShutdown
  <2>3. CASE Sighup
    BY <2>3 DEF Sighup
  <2>4. CASE TakeHup
    BY <2>4 DEF TakeHup
  <2>5. CASE ConsoleReturns
    BY <2>5 DEF ConsoleReturns
  <2> QED
    BY <1>6, <2>1, <2>2, <2>3, <2>4, <2>5 DEF ConsoleStep
<1>7. CASE ScmStep
  BY <1>7 DEF ScmStep, ExecuteBegins, ReportRunning, ScmRequests, InControl, Answer, ParamChange,
          StopControl, Checkpoint, ExecuteExits, RunIsDone, Exit, Send, TellHost, CallReload,
          scmFrame, hostVars
<1>8. CASE TestStep
  <2> USE DEF consoleFrame, testFrame, hostVars
  <2>1. ASSUME NEW w \in Waiters, WaitCalled(w) PROVE ScmInv'
    BY <2>1 DEF WaitCalled
  <2>2. ASSUME NEW w \in Waiters, TakeResult(w) PROVE ScmInv'
    BY <2>2 DEF TakeResult
  <2>3. ASSUME NEW w \in Waiters, PutBack(w) PROVE ScmInv'
    BY <2>3 DEF PutBack
  <2>4. ASSUME NEW w \in Waiters, WaitTimeout(w) PROVE ScmInv'
    BY <2>4 DEF WaitTimeout
  <2>5. CASE TestStarts \/ TestStarted \/ Cleanup
    BY <2>5 DEF TestStarts, TestStarted, Cleanup
  <2>6. CASE CleanupTakes \/ CleanupPutsBack \/ CleanupTimeout
    BY <2>6 DEF CleanupTakes, CleanupPutsBack, CleanupTimeout
  <2> QED
    BY <1>8, <2>1, <2>2, <2>3, <2>4, <2>5, <2>6 DEF TestStep
<1>9. CASE UNCHANGED vars
  BY <1>9 DEF vars, hostVars
<1> QED
  BY <1>1, <1>2, <1>3, <1>4, <1>5, <1>6, <1>7, <1>8, <1>9 DEF Next, HostStep

LEMMA ScmKept == Spec => [](HostInv /\ ScmInv)
  BY HostInvInit, HostInvStep, ScmInvInit, ScmInvStep, PTL DEF Spec

\* The SCM is told RUNNING only of a host whose services had all come up, and
\* STOPPED only when RunContext has returned, with the exit code of its
\* result; and while a host that has returned passes for anything else, its
\* result waits for Execute (winsvc/winsvc_windows.go:78-145).
THEOREM ScmTold == Spec => []ScmIsToldTheTruth
<1>1. HostInv /\ ScmInv => ScmIsToldTheTruth
  BY DEF HostInv, ScmInv, PcStatus, ScmIsToldTheTruth
<1> QED
  BY <1>1, ScmKept, PTL

\* The SCM sees the statuses in their order, with growing checkpoints while
\* the stop is pending (winsvc/winsvc_windows.go:78-145).
THEOREM ScmAdvances == Spec => StatusAdvances
<1> DEFINE Advance(i, j) ==
      /\ status.state = StatusOrder[i] /\ status'.state = StatusOrder[j]
      /\ i < j \/ (i = j /\ i = 4 /\ status'.checkpoint > status.checkpoint)
      /\ i = 1 => j = 2
<1>1. ScmInv /\ [Next]_vars => [status' # status => \E i, j \in 1..5 : Advance(i, j)]_vars
  <2> SUFFICES ASSUME ScmInv, Next, status' # status
               PROVE  \E i, j \in 1..5 : Advance(i, j)
    BY DEF vars, scmVars
  <2> USE DEF ScmInv, PcStatus, StatusOrder, Send
  <2>1. CASE ExecuteBegins
    <3>1. Advance(1, 2)
      BY <2>1 DEF ExecuteBegins
    <3> QED
      BY <3>1
  <2>2. CASE ReportRunning
    <3>1. Advance(2, 3)
      BY <2>2 DEF ReportRunning
    <3> QED
      BY <3>1
  <2>3. CASE StopControl
    <3>1. Advance(3, 4)
      BY <2>3 DEF StopControl, InControl
    <3> QED
      BY <3>1
  <2>4. CASE Checkpoint
    <3>1. Advance(4, 4)
      BY <2>4 DEF Checkpoint
    <3> QED
      BY <3>1
  <2>5. CASE ExecuteExits
    <3>1. Advance(2, 5) \/ Advance(3, 5) \/ Advance(4, 5)
      BY <2>5 DEF ExecuteExits, InControl
    <3> QED
      BY <3>1
  <2>6. ExecuteBegins \/ ReportRunning \/ StopControl \/ Checkpoint \/ ExecuteExits
    <3>1. CASE HostStep
      BY <3>1 DEF HostStep, HostWorks, RunOnStarted, HostStops, HostReturns, hostFrame, scmVars
    <3>2. CASE ReloadStep
      BY <3>2 DEF ReloadStep, AppReloads, BeginReload, EndReload, reloadFrame, scmVars
    <3>3. CASE ConsoleStep
      BY <3>3 DEF ConsoleStep, RunConsole, RequestShutdown, Sighup, TakeHup, ConsoleReturns,
                  consoleFrame, scmVars
    <3>4. CASE ScmStep
      BY <3>4 DEF ScmStep, ScmRequests, Answer, ParamChange
    <3>5. CASE TestStep
      BY <3>5 DEF TestStep, TestStarts, TestStarted, WaitCalled, TakeResult, PutBack, WaitTimeout,
                  Cleanup, CleanupTakes, CleanupPutsBack, CleanupTimeout, consoleFrame, testFrame,
                  scmVars
    <3> QED
      BY <3>1, <3>2, <3>3, <3>4, <3>5 DEF Next
  <2> QED
    BY <2>1, <2>2, <2>3, <2>4, <2>5, <2>6
<1>2. Spec => [][status' # status => \E i, j \in 1..5 : Advance(i, j)]_vars
  BY <1>1, ScmKept, PTL DEF Spec
<1> QED
  BY <1>2 DEF StatusAdvances

-----------------------------------------------------------------------------
(* Host.Reload.                                                            *)

\* One caller at a time runs the hooks, and what it has read is no older
\* than what was loaded before it.
ReloadInv ==
  /\ config \in Nat /\ loaded \in Nat /\ loaded <= config
  /\ reload \in [Callers -> {"none", "wait", "hooks"}] /\ read \in [Callers -> Nat]
  /\ \A c \in Callers : reload[c] = "hooks" =>
       /\ loaded <= read[c] /\ read[c] <= config
       /\ \A d \in Callers : reload[d] = "hooks" => d = c

LEMMA ReloadInvInit == Init => ReloadInv
  BY DEF Init, ReloadInv, Callers

\* The callers and the configuration as most steps leave them.
LEMMA ReloadAlone ==
  ASSUME ReloadInv, UNCHANGED <<loaded, read>>,
         config' = config \/ config' = config + 1,
         reload' = reload \/ \E c \in Callers : CallReload(c)
  PROVE  ReloadInv'
<1>1. config' \in Nat /\ config' >= config
  BY DEF ReloadInv
<1>2. reload' \in [Callers -> {"none", "wait", "hooks"}]
  BY DEF ReloadInv, CallReload
<1>3. \A c \in Callers : reload'[c] = "hooks" => reload[c] = "hooks"
  BY DEF ReloadInv, CallReload
<1>4. loaded \in Nat /\ loaded <= config /\ config \in Nat
  BY DEF ReloadInv
<1>5. ASSUME NEW c \in Callers, reload'[c] = "hooks"
      PROVE  /\ loaded <= read[c] /\ read[c] <= config'
             /\ \A d \in Callers : reload'[d] = "hooks" => d = c
  <2>1. reload[c] = "hooks"
    BY <1>3, <1>5
  <2>2. \A d \in Callers : reload'[d] = "hooks" => d = c
    BY <1>3, <1>5, <2>1 DEF ReloadInv
  <2>3. loaded <= read[c] /\ read[c] <= config /\ read[c] \in Nat
    BY <2>1 DEF ReloadInv
  <2> QED
    BY <1>1, <1>4, <2>2, <2>3
<1>6. read' \in [Callers -> Nat]
  BY DEF ReloadInv
<1>7. loaded' \in Nat /\ loaded' <= config'
  BY <1>1, <1>4
<1> QED
  BY <1>1, <1>2, <1>5, <1>6, <1>7 DEF ReloadInv

LEMMA ReloadInvStep == ReloadInv /\ [Next]_vars => ReloadInv'
<1> SUFFICES ASSUME ReloadInv, [Next]_vars PROVE ReloadInv'
  OBVIOUS
<1>1. ASSUME NEW c \in Callers, BeginReload(c) PROVE ReloadInv'
  <2>1. reload' = [reload EXCEPT ![c] = "hooks"] /\ read' = [read EXCEPT ![c] = config]
        /\ config' = config /\ loaded' = loaded
    BY <1>1 DEF BeginReload
  <2>2. \A d \in Callers : reload[d] # "hooks"
    BY <1>1 DEF BeginReload, ReloadFree
  <2> QED
    BY <2>1, <2>2 DEF ReloadInv
<1>2. ASSUME NEW c \in Callers, EndReload(c) PROVE ReloadInv'
  <2>1. reload[c] = "hooks" /\ reload' = [reload EXCEPT ![c] = "none"] /\ loaded' = read[c]
        /\ config' = config /\ read' = read
    BY <1>2 DEF EndReload
  <2>2. \A d \in Callers : reload'[d] # "hooks"
    BY <2>1 DEF ReloadInv
  <2> QED
    BY <2>1, <2>2 DEF ReloadInv
<1>3. /\ UNCHANGED <<loaded, read>>
      /\ config' = config \/ config' = config + 1
      /\ reload' = reload \/ \E c \in Callers : CallReload(c)
      \/ \E c \in Callers : BeginReload(c) \/ EndReload(c)
  <2> USE DEF Callers, reloadVars
  <2>1. CASE HostStep
    BY <2>1 DEF HostStep, HostWorks, RunOnStarted, HostStops, HostReturns, hostFrame
  <2>2. CASE ReloadStep
    BY <2>2 DEF ReloadStep, AppReloads
  <2>3. CASE ConsoleStep
    BY <2>3 DEF ConsoleStep, RunConsole, RequestShutdown, Sighup, TakeHup, ConsoleReturns
  <2>4. CASE ScmStep
    BY <2>4 DEF ScmStep, ExecuteBegins, ReportRunning, ScmRequests, Answer, ParamChange,
                StopControl, Checkpoint, ExecuteExits
  <2>5. CASE TestStep
    BY <2>5 DEF TestStep, TestStarts, TestStarted, WaitCalled, TakeResult, PutBack, WaitTimeout,
                Cleanup, CleanupTakes, CleanupPutsBack, CleanupTimeout, testFrame
  <2>6. CASE UNCHANGED vars
    BY <2>6 DEF vars
  <2> QED
    BY <2>1, <2>2, <2>3, <2>4, <2>5, <2>6 DEF Next
<1> QED
  BY <1>1, <1>2, <1>3, ReloadAlone

\* A reload never puts an older configuration in the place of a newer one,
\* whoever calls Reload (host.go:183-195).
THEOREM ReloadIsFresh == Spec => NoStaleReload
<1>1. ReloadInv /\ [Next]_vars => [loaded' >= loaded]_vars
  <2> SUFFICES ASSUME ReloadInv, Next PROVE loaded' >= loaded
    BY DEF ReloadInv
  <2>1. ASSUME NEW c \in Callers, EndReload(c) PROVE loaded' >= loaded
    BY <2>1 DEF EndReload, ReloadInv
  <2>2. CASE loaded' = loaded
    BY <2>2 DEF ReloadInv
  <2>3. loaded' = loaded \/ \E c \in Callers : EndReload(c)
    <3> USE DEF reloadVars
    <3>1. CASE HostStep
      BY <3>1 DEF HostStep, HostWorks, RunOnStarted, HostStops, HostReturns, hostFrame
    <3>2. CASE ReloadStep
      BY <3>2 DEF ReloadStep, AppReloads, BeginReload
    <3>3. CASE ConsoleStep
      BY <3>3 DEF ConsoleStep, RunConsole, RequestShutdown, Sighup, TakeHup, ConsoleReturns
    <3>4. CASE ScmStep
      BY <3>4 DEF ScmStep, ExecuteBegins, ReportRunning, ScmRequests, Answer, ParamChange,
                  StopControl, Checkpoint, ExecuteExits
    <3>5. CASE TestStep
      BY <3>5 DEF TestStep, TestStarts, TestStarted, WaitCalled, TakeResult, PutBack, WaitTimeout,
                  Cleanup, CleanupTakes, CleanupPutsBack, CleanupTimeout, testFrame
    <3> QED
      BY <3>1, <3>2, <3>3, <3>4, <3>5 DEF Next
  <2> QED
    BY <2>1, <2>2, <2>3
<1> QED
  BY <1>1, ReloadInvInit, ReloadInvStep, PTL DEF Spec, NoStaleReload

-----------------------------------------------------------------------------
(* The result of a test's host.                                            *)

\* ResultNotLost, and: before RunContext has returned nobody holds a result.
ResultInv ==
  driver = "test" =>
    /\ waiter \in [Waiters -> {"idle", "waiting", "holding", "returned", "timeout"}]
    /\ phase # "stopped" => ~runDone /\ Holders = {}
    /\ phase = "stopped" => IF runDone THEN Holders = {} ELSE \E h \in Holders : Holders = {h}

LEMMA ResultInvInit == Init => ResultInv
  BY DEF Init, ResultInv, Holders, Contract!ContractInit

\* The steps that neither take the result nor put it back.
LEMMA ResultAlone ==
  ASSUME ResultInv, driver' = driver, runDone' = runDone, Holders' = Holders,
         phase' = "stopped" <=> phase = "stopped",
         waiter' = waiter \/ waiter' \in [Waiters -> {"idle", "waiting", "holding", "returned", "timeout"}]
  PROVE  ResultInv'
<1> SUFFICES ASSUME driver = "test" PROVE ResultInv'
  BY DEF ResultInv
<1>1. waiter' \in [Waiters -> {"idle", "waiting", "holding", "returned", "timeout"}]
  BY DEF ResultInv
<1>2. phase' # "stopped" => ~runDone' /\ Holders' = {}
  BY DEF ResultInv
<1>3. phase' = "stopped" /\ runDone' => Holders' = {}
  BY DEF ResultInv
<1>4. ASSUME phase' = "stopped", ~runDone' PROVE \E h \in Holders' : Holders' = {h}
  <2>1. phase = "stopped" /\ ~runDone
    BY <1>4, Zenon
  <2>2. \E h \in Holders : Holders = {h}
    BY <2>1, Zenon DEF ResultInv
  <2> QED
    BY <2>2
<1> QED
  BY <1>1, <1>2, <1>3, <1>4 DEF ResultInv

\* A goroutine of the test that begins or gives up its wait.
LEMMA HoldersAlone ==
  ASSUME NEW w \in Waiters, NEW s \in {"waiting", "timeout"},
         waiter \in [Waiters -> {"idle", "waiting", "holding", "returned", "timeout"}],
         waiter[w] # "holding", waiter' = [waiter EXCEPT ![w] = s], pc' = pc
  PROVE  Holders' = Holders
  BY DEF Holders

LEMMA DriverKept == [Next]_vars => driver' = driver
<1> SUFFICES ASSUME [Next]_vars PROVE driver' = driver
  OBVIOUS
<1>1. CASE HostStep
  BY <1>1 DEF HostStep, HostWorks, RunOnStarted, HostStops, HostReturns, hostFrame
<1>2. CASE ReloadStep
  BY <1>2 DEF ReloadStep, AppReloads, BeginReload, EndReload, reloadFrame
<1>3. CASE ConsoleStep
  BY <1>3 DEF ConsoleStep, RunConsole, RequestShutdown, Sighup, TakeHup, ConsoleReturns, consoleFrame
<1>4. CASE ScmStep
  BY <1>4 DEF ScmStep, ExecuteBegins, ReportRunning, ScmRequests, Answer, ParamChange,
              StopControl, Checkpoint, ExecuteExits, scmFrame
<1>5. CASE TestStep
  BY <1>5 DEF TestStep, TestStarts, TestStarted, WaitCalled, TakeResult, PutBack, WaitTimeout,
              Cleanup, CleanupTakes, CleanupPutsBack, CleanupTimeout, consoleFrame, testFrame
<1>6. CASE UNCHANGED vars
  BY <1>6 DEF vars
<1> QED
  BY <1>1, <1>2, <1>3, <1>4, <1>5, <1>6 DEF Next

LEMMA ResultInvStep == ResultInv /\ [Next]_vars => ResultInv'
<1> SUFFICES ASSUME ResultInv, [Next]_vars, driver = "test", driver' = "test" PROVE ResultInv'
  BY DriverKept DEF ResultInv
<1>1. waiter \in [Waiters -> {"idle", "waiting", "holding", "returned", "timeout"}]
  BY DEF ResultInv
<1>2. CASE HostWorks \/ RunOnStarted \/ HostStops
  <2>1. phase' = "stopped" <=> phase = "stopped"
    BY <1>2 DEF HostWorks, RunOnStarted, HostStops, hostVars, Contract!Start, Contract!Serve,
                Contract!Ask, Contract!Expire, Contract!Finish, Contract!Resolve, Contract!Stop
  <2>2. waiter' = waiter /\ pc' = pc /\ runDone' = runDone /\ driver' = driver
    BY <1>2 DEF HostWorks, RunOnStarted, HostStops, hostFrame
  <2> QED
    BY <2>1, <2>2, ResultAlone DEF Holders
<1>3. CASE HostReturns
  <2>1. phase # "stopped" /\ phase' = "stopped" /\ runDone' = TRUE /\ waiter' = waiter /\ pc' = pc
    BY <1>3 DEF HostReturns, hostFrame, Contract!Return
  <2> QED
    BY <2>1 DEF ResultInv, Holders
<1>4. CASE ReloadStep
  <2>1. phase' = phase /\ waiter' = waiter /\ pc' = pc /\ runDone' = runDone /\ driver' = driver
    BY <1>4 DEF ReloadStep, AppReloads, BeginReload, EndReload, reloadFrame, hostVars
  <2> QED
    BY <2>1, ResultAlone DEF Holders
<1>5. CASE ConsoleStep
  <2>1. phase' = phase /\ waiter' = waiter /\ pc' = pc /\ runDone' = runDone /\ driver' = driver
    <3> USE DEF consoleFrame, hostVars
    <3>1. CASE RequestShutdown
      BY <3>1 DEF RequestShutdown
    <3>2. CASE TakeHup
      BY <3>2 DEF TakeHup
    <3>3. ~RunConsole /\ ~Sighup /\ ~ConsoleReturns
      BY DEF RunConsole, Sighup, ConsoleReturns
    <3> QED
      BY <1>5, <3>1, <3>2, <3>3 DEF ConsoleStep
  <2> QED
    BY <2>1, ResultAlone DEF Holders
<1>6. ~ScmStep
  BY DEF ScmStep, ExecuteBegins, ReportRunning, ScmRequests, InControl, Answer, ParamChange,
         StopControl, Checkpoint, ExecuteExits
<1>7. ASSUME NEW w \in Waiters, TakeResult(w) PROVE ResultInv'
  <2>1. /\ runDone /\ ~runDone' /\ phase' = phase /\ pc' = pc
        /\ waiter' = [waiter EXCEPT ![w] = "holding"]
    BY <1>7 DEF TakeResult, testFrame, hostVars
  <2>2. phase = "stopped" /\ Holders = {}
    BY <2>1 DEF ResultInv
  <2>3. Holders' = {w}
    BY <1>1, <2>1, <2>2 DEF Holders
  <2>4. waiter' \in [Waiters -> {"idle", "waiting", "holding", "returned", "timeout"}]
    BY <1>1, <2>1
  <2> QED
    BY <2>1, <2>2, <2>3, <2>4 DEF ResultInv
<1>8. ASSUME NEW w \in Waiters, PutBack(w) PROVE ResultInv'
  <2>1. /\ waiter[w] = "holding" /\ ~runDone /\ runDone' = TRUE /\ phase' = phase /\ pc' = pc
        /\ waiter' = [waiter EXCEPT ![w] = "returned"]
    BY <1>8 DEF PutBack, ResultPutBack, testFrame, hostVars
  <2>2. w \in Holders
    BY <2>1 DEF Holders
  <2>3. phase = "stopped" /\ Holders = {w}
    BY <2>1, <2>2 DEF ResultInv
  <2>4. pc # "holding"
    BY <2>3, DriversAssumption DEF Holders
  <2>5. Holders' = {}
    BY <1>1, <2>1, <2>3, <2>4 DEF Holders
  <2>6. waiter' \in [Waiters -> {"idle", "waiting", "holding", "returned", "timeout"}]
    BY <1>1, <2>1
  <2> QED
    BY <2>1, <2>3, <2>5, <2>6 DEF ResultInv
<1>9. ASSUME NEW w \in Waiters, WaitCalled(w) \/ WaitTimeout(w) PROVE ResultInv'
  <2>1. runDone' = runDone /\ phase' = phase /\ pc' = pc /\ driver' = driver
    BY <1>9 DEF WaitCalled, WaitTimeout, testFrame, hostVars
  <2>2. PICK s \in {"waiting", "timeout"} : waiter' = [waiter EXCEPT ![w] = s] /\ waiter[w] # "holding"
    BY <1>9 DEF WaitCalled, WaitTimeout
  <2>3. Holders' = Holders
    BY <1>1, <2>1, <2>2, HoldersAlone
  <2>4. waiter' \in [Waiters -> {"idle", "waiting", "holding", "returned", "timeout"}]
    BY <1>1, <2>2
  <2> QED
    BY <2>1, <2>3, <2>4, ResultAlone
<1>10. CASE TestStarts \/ TestStarted \/ Cleanup \/ CleanupTimeout
  <2>1. /\ runDone' = runDone /\ phase' = phase /\ waiter' = waiter /\ driver' = driver
        /\ pc # "holding" /\ pc' # "holding"
    BY <1>10 DEF TestStarts, TestStarted, Cleanup, CleanupTimeout, consoleFrame, testFrame, hostVars
  <2> QED
    BY <2>1, ResultAlone DEF Holders
<1>11. CASE CleanupTakes
  <2>1. runDone /\ ~runDone' /\ phase' = phase /\ pc' = "holding" /\ waiter' = waiter
    BY <1>11 DEF CleanupTakes, testFrame, hostVars
  <2>2. phase = "stopped" /\ Holders = {}
    BY <2>1 DEF ResultInv
  <2>3. Holders' = {"cleanup"}
    BY <2>1, <2>2 DEF Holders
  <2> QED
    BY <1>1, <2>1, <2>2, <2>3 DEF ResultInv
<1>12. CASE CleanupPutsBack
  <2>1. pc = "holding" /\ ~runDone /\ runDone' = TRUE /\ phase' = phase /\ pc' = "end" /\ waiter' = waiter
    BY <1>12 DEF CleanupPutsBack, ResultPutBack, testFrame, hostVars
  <2>2. "cleanup" \in Holders
    BY <2>1 DEF Holders
  <2>3. phase = "stopped" /\ Holders = {"cleanup"}
    BY <2>1, <2>2 DEF ResultInv
  <2>4. Holders' = {}
    BY <2>1, <2>3, DriversAssumption DEF Holders
  <2> QED
    BY <1>1, <2>1, <2>3, <2>4 DEF ResultInv
<1>13. CASE UNCHANGED vars
  <2>1. runDone' = runDone /\ phase' = phase /\ waiter' = waiter /\ driver' = driver /\ pc' = pc
    BY <1>13 DEF vars, hostVars
  <2> QED
    BY <2>1, ResultAlone DEF Holders
<1> QED
  BY <1>2, <1>3, <1>4, <1>5, <1>6, <1>7, <1>8, <1>9, <1>10, <1>11, <1>12, <1>13
  DEF Next, HostStep, TestStep

\* The result of RunContext is in the channel, or with the one goroutine that
\* puts it back: no Wait, and no cleanup, waits for a result that is lost
\* (shosttest/shosttest.go:38-104).
THEOREM ResultKeptForAll == Spec => []ResultNotLost
<1>1. ResultInv => ResultNotLost
  BY DEF ResultInv, ResultNotLost
<1> QED
  BY <1>1, ResultInvInit, ResultInvStep, PTL DEF Spec

-----------------------------------------------------------------------------
(* Types.                                                                  *)

PlaceTypes ==
  /\ driver \in DriverKinds
  /\ pc \in {"begin", "starting", "control", "running", "waitStop", "body", "cleanup",
            "holding", "end"}
  /\ request \in {"none", "interrogate", "paramchange", "stop"}
  /\ exitCode \in {0, 1}

FlagTypes ==
  /\ requested \in BOOLEAN /\ hooked \in BOOLEAN /\ runDone \in BOOLEAN /\ hup \in BOOLEAN
  /\ pc = "waitStop" => requested = TRUE

NumberTypes == status \in Status /\ appReloads \in Nat

LEMMA DriverTypesInit == Init => PlaceTypes /\ FlagTypes /\ NumberTypes
<1> SUFFICES ASSUME Init PROVE PlaceTypes /\ FlagTypes /\ NumberTypes
  OBVIOUS
<1>1. PlaceTypes
  BY DEF Init, PlaceTypes
<1>2. FlagTypes
  BY DEF Init, FlagTypes
<1>3. NumberTypes
  BY DEF Init, NumberTypes, Status
<1> QED
  BY <1>1, <1>2, <1>3

LEMMA PlaceTypesStep == PlaceTypes /\ [Next]_vars => PlaceTypes'
<1> SUFFICES ASSUME PlaceTypes, [Next]_vars PROVE PlaceTypes'
  OBVIOUS
<1> USE DEF PlaceTypes, scmVars, reloadVars
<1>1. CASE HostWorks
  BY <1>1 DEF HostWorks, hostFrame, Contract!Start, Contract!Serve, Contract!Ask,
          Contract!Expire, Contract!Finish, Contract!Resolve
<1>2. CASE RunOnStarted
  BY <1>2 DEF RunOnStarted, hostFrame, hostVars
<1>3. CASE HostStops
  BY <1>3 DEF HostStops, hostFrame, Contract!Stop
<1>4. CASE HostReturns
  BY <1>4 DEF HostReturns, hostFrame, Contract!Return
<1>5. CASE ReloadStep
  BY <1>5 DEF ReloadStep, AppReloads, BeginReload, EndReload, CallReload, reloadFrame, hostVars
<1>6. CASE ConsoleStep
  <2> USE DEF consoleFrame, hostVars
  <2>1. CASE RunConsole
    BY <2>1 DEF RunConsole
  <2>2. CASE RequestShutdown
    BY <2>2 DEF RequestShutdown
  <2>3. CASE Sighup
    BY <2>3 DEF Sighup
  <2>4. CASE TakeHup
    BY <2>4 DEF TakeHup
  <2>5. CASE ConsoleReturns
    BY <2>5 DEF ConsoleReturns
  <2> QED
    BY <1>6, <2>1, <2>2, <2>3, <2>4, <2>5 DEF ConsoleStep
<1>7. CASE ScmStep
  BY <1>7 DEF ScmStep, ExecuteBegins, ReportRunning, ScmRequests, InControl, Answer, ParamChange,
          StopControl, Checkpoint, ExecuteExits, RunIsDone, Exit, Send, TellHost, CallReload,
          scmFrame, hostVars
<1>8. CASE TestStep
  BY <1>8 DEF TestStep, TestStarts, TestStarted, WaitCalled, TakeResult, PutBack, WaitTimeout,
          Cleanup, CleanupTakes, CleanupPutsBack, CleanupTimeout, ResultPutBack, TellHost,
          consoleFrame, testFrame, hostVars
<1>9. CASE UNCHANGED vars
  BY <1>9 DEF vars, hostVars
<1> QED
  BY <1>1, <1>2, <1>3, <1>4, <1>5, <1>6, <1>7, <1>8, <1>9 DEF Next, HostStep

LEMMA FlagTypesStep == FlagTypes /\ [Next]_vars => FlagTypes'
<1> SUFFICES ASSUME FlagTypes, [Next]_vars PROVE FlagTypes'
  OBVIOUS
<1> USE DEF FlagTypes, scmVars, reloadVars
<1>1. CASE HostWorks
  BY <1>1 DEF HostWorks, hostFrame, Contract!Start, Contract!Serve, Contract!Ask,
          Contract!Expire, Contract!Finish, Contract!Resolve
<1>2. CASE RunOnStarted
  BY <1>2 DEF RunOnStarted, hostFrame, hostVars
<1>3. CASE HostStops
  BY <1>3 DEF HostStops, hostFrame, Contract!Stop
<1>4. CASE HostReturns
  BY <1>4 DEF HostReturns, hostFrame, Contract!Return
<1>5. CASE ReloadStep
  BY <1>5 DEF ReloadStep, AppReloads, BeginReload, EndReload, CallReload, reloadFrame, hostVars
<1>6. CASE ConsoleStep
  <2> USE DEF consoleFrame, hostVars
  <2>1. CASE RunConsole
    BY <2>1 DEF RunConsole
  <2>2. CASE RequestShutdown
    BY <2>2 DEF RequestShutdown
  <2>3. CASE Sighup
    <3>1. hup' \in BOOLEAN
      BY <2>3, Zenon DEF Sighup
    <3>2. UNCHANGED <<requested, hooked, runDone, pc>>
      BY <2>3 DEF Sighup
    <3> QED
      BY <3>1, <3>2
  <2>4. CASE TakeHup
    BY <2>4 DEF TakeHup
  <2>5. CASE ConsoleReturns
    BY <2>5 DEF ConsoleReturns
  <2> QED
    BY <1>6, <2>1, <2>2, <2>3, <2>4, <2>5 DEF ConsoleStep
<1>7. CASE ScmStep
  BY <1>7 DEF ScmStep, ExecuteBegins, ReportRunning, ScmRequests, InControl, Answer, ParamChange,
          StopControl, Checkpoint, ExecuteExits, RunIsDone, Exit, Send, TellHost, CallReload,
          scmFrame, hostVars
<1>8. CASE TestStep
  BY <1>8 DEF TestStep, TestStarts, TestStarted, WaitCalled, TakeResult, PutBack, WaitTimeout,
          Cleanup, CleanupTakes, CleanupPutsBack, CleanupTimeout, ResultPutBack, TellHost,
          consoleFrame, testFrame, hostVars
<1>9. CASE UNCHANGED vars
  BY <1>9 DEF vars, hostVars
<1> QED
  BY <1>1, <1>2, <1>3, <1>4, <1>5, <1>6, <1>7, <1>8, <1>9 DEF Next, HostStep

LEMMA NumberTypesStep == NumberTypes /\ [Next]_vars => NumberTypes'
<1> SUFFICES ASSUME NumberTypes, [Next]_vars PROVE NumberTypes'
  OBVIOUS
<1> USE DEF NumberTypes, Status, scmVars, reloadVars
<1>1. CASE HostWorks
  BY <1>1 DEF HostWorks, hostFrame, Contract!Start, Contract!Serve, Contract!Ask,
          Contract!Expire, Contract!Finish, Contract!Resolve
<1>2. CASE RunOnStarted
  BY <1>2 DEF RunOnStarted, hostFrame, hostVars
<1>3. CASE HostStops
  BY <1>3 DEF HostStops, hostFrame, Contract!Stop
<1>4. CASE HostReturns
  BY <1>4 DEF HostReturns, hostFrame, Contract!Return
<1>5. CASE ReloadStep
  BY <1>5 DEF ReloadStep, AppReloads, BeginReload, EndReload, CallReload, reloadFrame, hostVars
<1>6. CASE ConsoleStep
  <2> USE DEF consoleFrame, hostVars
  <2>1. CASE RunConsole
    BY <2>1 DEF RunConsole
  <2>2. CASE RequestShutdown
    BY <2>2 DEF RequestShutdown
  <2>3. CASE Sighup
    BY <2>3 DEF Sighup
  <2>4. CASE TakeHup
    BY <2>4 DEF TakeHup
  <2>5. CASE ConsoleReturns
    BY <2>5 DEF ConsoleReturns
  <2> QED
    BY <1>6, <2>1, <2>2, <2>3, <2>4, <2>5 DEF ConsoleStep
<1>7. CASE ScmStep
  BY <1>7 DEF ScmStep, ExecuteBegins, ReportRunning, ScmRequests, InControl, Answer, ParamChange,
          StopControl, Checkpoint, ExecuteExits, RunIsDone, Exit, Send, TellHost, CallReload,
          scmFrame, hostVars
<1>8. CASE TestStep
  BY <1>8 DEF TestStep, TestStarts, TestStarted, WaitCalled, TakeResult, PutBack, WaitTimeout,
          Cleanup, CleanupTakes, CleanupPutsBack, CleanupTimeout, ResultPutBack, TellHost,
          consoleFrame, testFrame, hostVars
<1>9. CASE UNCHANGED vars
  BY <1>9 DEF vars, hostVars
<1> QED
  BY <1>1, <1>2, <1>3, <1>4, <1>5, <1>6, <1>7, <1>8, <1>9 DEF Next, HostStep

\* The state of the drivers keeps its types, and STOP_PENDING is reported for
\* a host that was told to stop (winsvc/winsvc_windows.go:110-111).
THEOREM DriversTyped == Spec => []DriversTypeOK
<1>1. PlaceTypes /\ FlagTypes /\ NumberTypes /\ HostInv /\ ReloadInv => DriversTypeOK
  BY DEF PlaceTypes, FlagTypes, NumberTypes, HostInv, ReloadInv, DriversTypeOK
<1> QED
  BY <1>1, DriverTypesInit, PlaceTypesStep, FlagTypesStep, NumberTypesStep, HostInvInit, HostInvStep,
     ReloadInvInit, ReloadInvStep, PTL DEF Spec

-----------------------------------------------------------------------------
(* The host of the drivers keeps its contract, and what that gives them.   *)

LEMMA ContractStep == Next => [Contract!ContractNext]_(Contract!contractVars)
<1> SUFFICES ASSUME Next PROVE Contract!ContractNext \/ UNCHANGED Contract!contractVars
  OBVIOUS
<1> USE DEF Contract!contractVars, hostVars
<1>1. CASE HostWorks \/ HostStops \/ HostReturns
  BY <1>1, Zenon DEF HostWorks, HostStops, HostReturns, Contract!ContractNext
<1>2. CASE RunOnStarted
  BY <1>2 DEF RunOnStarted
<1>3. CASE ReloadStep
  BY <1>3 DEF ReloadStep, AppReloads, BeginReload, EndReload, reloadFrame
<1>4. CASE ConsoleStep
  BY <1>4 DEF ConsoleStep, RunConsole, RequestShutdown, Sighup, TakeHup, ConsoleReturns, consoleFrame
<1>5. CASE ScmStep
  BY <1>5 DEF ScmStep, ExecuteBegins, ReportRunning, ScmRequests, InControl, Answer, ParamChange,
              StopControl, Checkpoint, ExecuteExits, scmFrame
<1>6. CASE TestStep
  BY <1>6 DEF TestStep, TestStarts, TestStarted, WaitCalled, TakeResult, PutBack, WaitTimeout,
              Cleanup, CleanupTakes, CleanupPutsBack, CleanupTimeout, consoleFrame, testFrame
<1> QED
  BY <1>1, <1>2, <1>3, <1>4, <1>5, <1>6 DEF Next, HostStep

\* By construction, the host of Drivers takes the steps of HostContract and no
\* other, so the invariants of the contract hold in Drivers.
LEMMA DriversRunContract == Spec => Contract!ContractSpec
<1>1. Init => Contract!ContractInit
  BY DEF Init
<1>2. [Next]_vars => [Contract!ContractNext]_(Contract!contractVars)
  BY ContractStep DEF vars, hostVars, Contract!contractVars
<1> QED
  BY <1>1, <1>2, PTL DEF Spec, Contract!ContractSpec

\* What the contract keeps: nothing is asked before the stop, the services
\* behind the one asked last have an outcome, and only a finished one has a
\* clean one.
ContractInv ==
  /\ up \in 0..N /\ asked \in 0..up
  /\ active \subseteq 1..up
  /\ phase \in {"starting", "running"} => asked = 0
  /\ result \in {"pending", "nil", "error"}
  /\ phase = "stopped" <=> result # "pending"
  /\ outcome \in [1..N -> Contract!Outcomes]
  /\ \A i \in 1..N : /\ outcome[i] # "none" => i \in (up + 1 - asked)..up
                     /\ i \in (up + 2 - asked)..up => outcome[i] # "none"
                     /\ outcome[i] = "clean" => i \notin active
  /\ result = "nil" => ~faulty /\ \A i \in 1..up : outcome[i] = "clean"

LEMMA ContractInvInit == Contract!ContractInit => ContractInv
  BY DriversAssumption DEF Contract!ContractInit, ContractInv, Contract!Outcomes

LEMMA ContractInvStep ==
  ContractInv /\ [Contract!ContractNext]_(Contract!contractVars) => ContractInv'
<1> SUFFICES ASSUME ContractInv, [Contract!ContractNext]_(Contract!contractVars)
             PROVE  ContractInv'
  OBVIOUS
<1> N \in Nat
  BY DriversAssumption
<1> USE DEF ContractInv, Contract!Outcomes
<1>1. CASE Contract!Start
  BY <1>1 DEF Contract!Start
<1>2. CASE Contract!Serve \/ Contract!Stop \/ Contract!Expire
  BY <1>2 DEF Contract!Serve, Contract!Stop, Contract!Expire
<1>3. CASE Contract!Ask
  BY <1>3 DEF Contract!Ask, Contract!Resolved, Contract!Current
<1>4. ASSUME NEW i \in 1..N, Contract!Finish(i) PROVE ContractInv'
  BY <1>4 DEF Contract!Finish
<1>5. ASSUME NEW o \in Contract!Outcomes \ {"none"}, Contract!Resolve(o) PROVE ContractInv'
  BY <1>5 DEF Contract!Resolve, Contract!Resolved, Contract!Current
<1>6. CASE Contract!Return
  BY <1>6 DEF Contract!Return
<1>7. CASE UNCHANGED Contract!contractVars
  BY <1>7 DEF Contract!contractVars
<1> QED
  BY <1>1, <1>2, <1>3, <1>4, <1>5, <1>6, <1>7 DEF Contract!ContractNext

\* A service that exits with code 0 has stopped for good: no service of its
\* host is left running, and nothing had failed
\* (winsvc/winsvc_windows.go:138-145).
THEOREM CleanExitLeavesNothing ==
  Spec => [](status.state = "stopped" /\ exitCode = 0 => active = {} /\ ~faulty)
<1>1. Spec => []ContractInv
  BY DriversRunContract, ContractInvInit, ContractInvStep, PTL DEF Contract!ContractSpec
<1>2. HostInv /\ ScmInv /\ ContractInv
        => (status.state = "stopped" /\ exitCode = 0 => active = {} /\ ~faulty)
  <2> SUFFICES ASSUME ScmInv, ContractInv, status.state = "stopped", exitCode = 0
               PROVE  active = {} /\ ~faulty
    OBVIOUS
  <2>1. phase = "stopped" /\ result # "error"
    BY DEF ScmInv, PcStatus
  <2>2. result = "nil"
    BY <2>1 DEF ContractInv
  <2>3. \A i \in 1..up : i \in 1..N /\ i \notin active
    BY <2>2, DriversAssumption DEF ContractInv
  <2> QED
    BY <2>2, <2>3 DEF ContractInv
<1> QED
  BY <1>1, <1>2, ScmKept, PTL
=============================================================================
