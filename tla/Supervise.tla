------------------------------ MODULE Supervise ------------------------------
(***************************************************************************)
(* The supervisor goroutines of a shost Host (host.go, supervise).         *)
(*                                                                         *)
(* Each launched service has one goroutine that calls the service's Start, *)
(* decides what a return means (graceful exit, restart, or the end of the  *)
(* host), and talks to the host over two buffered channels: done[i], which *)
(* gets the final Start error, and exits, which gets the exits that must   *)
(* stop the host.  The host talks back by cancelling the service's context *)
(* and by closing stoppingCh.                                              *)
(*                                                                         *)
(* The module is a specification of its own, in which the host is any      *)
(* environment that launches, closes stoppingCh, cancels and receives; the *)
(* module Host EXTENDS it and puts the real host loop in that place.       *)
(*                                                                         *)
(* Abstractions.  An error is one of the three values the code tells       *)
(* apart: nil, an error that errors.Is context.Canceled, any other error   *)
(* (a recovered panic among them).  Time is nondeterminism: a timer may    *)
(* fire at any moment after it was set.  Log calls are left out.           *)
(***************************************************************************)
EXTENDS Naturals, Sequences, FiniteSets

CONSTANTS
  N,            \* number of registered services, in registration order
  Readiers,     \* the services that implement Readier
  Supervised,   \* the services registered WithRestart
  MaxAttempts,  \* RestartPolicy.MaxAttempts of each service, 0 = unlimited
  LateCap       \* how far the history variable lateStarts counts

Services == 1..N

ASSUME ServicesAssumption ==
  /\ N \in Nat
  /\ Readiers \subseteq Services
  /\ Supervised \subseteq Services
  /\ MaxAttempts \in [Services -> Nat]
  /\ LateCap \in Nat

VARIABLES
  svcCtx,     \* the services whose Start context is cancelled
  stopping,   \* stoppingCh is closed
  sup,        \* where each supervisor goroutine is
  ret,        \* the error its last Start call returned
  attempts,   \* its count of consecutive restarts
  done,       \* what was sent to done[i], "empty" before
  exits,      \* the channel of exits that must stop the host
  ready,      \* the services whose Ready channel is closed
  lateStarts  \* history: Start calls made after stoppingCh was closed; no
              \* step depends on it

supVars == <<svcCtx, stopping, sup, ret, attempts, done, exits, ready, lateStarts>>

Results == {"nil", "canceled", "err"}

\* serviceExit: which service, and the error its last Start returned.
Exit == [svc : Services, err : Results]

\* "begin": about to call Start; "run": in Start; "check": Start returned;
\* "giveUp" and "exitSend": about to send to done and to exits;
\* "backoff": waiting before a restart; "end": the goroutine has returned.
SupStates == {"none", "begin", "run", "check", "giveUp", "exitSend", "backoff", "end"}

\* Mutant: one buffer slot, as if the host always took the exit.
OneSlot == 1

\* Capacity of the exits channel: one slot per registered service.
ExitsCap == N

SupTypeOK ==
  /\ svcCtx \subseteq Services
  /\ stopping \in BOOLEAN
  /\ sup \in [Services -> SupStates]
  /\ ret \in [Services -> Results]
  /\ attempts \in [Services -> Nat]
  /\ done \in [Services -> Results \cup {"empty"}]
  /\ exits \in Seq(Exit)
  /\ ready \subseteq Readiers
  /\ lateStarts \in [Services -> Nat]

SupInit ==
  /\ svcCtx = {}
  /\ stopping = FALSE
  /\ sup = [i \in Services |-> "none"]
  /\ ret = [i \in Services |-> "nil"]
  /\ attempts = [i \in Services |-> 0]
  /\ done = [i \in Services |-> "empty"]
  /\ exits = <<>>
  /\ ready = {}
  /\ lateStarts = [i \in Services |-> 0]

\* Supervisor i goes on.
Goto(i, from, to) == sup[i] = from /\ sup' = [sup EXCEPT ![i] = to]

-----------------------------------------------------------------------------
(* The service: what Start may do once it is called.                       *)

\* safeStart is entered.
BeginStart(i) ==
  /\ Goto(i, "begin", "run")
  /\ lateStarts' = IF stopping /\ lateStarts[i] < LateCap
                   THEN [lateStarts EXCEPT ![i] = @ + 1] ELSE lateStarts
  /\ UNCHANGED <<svcCtx, stopping, ret, attempts, done, exits, ready>>

\* Start closes the Ready channel; it stays closed across restarts.
BecomeReady(i) ==
  /\ sup[i] = "run"
  /\ i \in Readiers \ ready
  /\ ready' = ready \cup {i}
  /\ UNCHANGED <<svcCtx, stopping, sup, ret, attempts, done, exits, lateStarts>>

\* Start returns or panics, cancelled or not, with any result.
ReturnFromStart(i) ==
  /\ Goto(i, "run", "check")
  /\ \E r \in Results : ret' = [ret EXCEPT ![i] = r]
  /\ UNCHANGED <<svcCtx, stopping, attempts, done, exits, ready, lateStarts>>

-----------------------------------------------------------------------------
(* The supervisor's own steps.                                             *)

\* Mutant: the selects have no shutdown case at all.
NeverAsked(i) == FALSE

\* Mutant: the selects leave out the stoppingCh case.
OnlyCancelled(i) == i \in svcCtx

\* Shutdown is visible to supervisor i: ctx.Done() or stoppingCh is ready.
AskedToStop(i) == i \in svcCtx \/ stopping

\* done <- r, a send to a channel of capacity one.
SendDone(i, r) ==
  /\ done[i] = "empty"
  /\ done' = [done EXCEPT ![i] = r]

\* Start returned and shutdown is in progress: the result is final.
StopAfterReturn(i) ==
  /\ Goto(i, "check", "end")
  /\ AskedToStop(i)
  /\ SendDone(i, ret[i])
  /\ UNCHANGED <<svcCtx, stopping, ret, attempts, exits, ready, lateStarts>>

\* A premature exit of a service without a restart policy.
ExitUnsupervised(i) ==
  /\ Goto(i, "check", "giveUp")
  /\ ~AskedToStop(i)
  /\ i \notin Supervised
  /\ UNCHANGED <<svcCtx, stopping, ret, attempts, done, exits, ready, lateStarts>>

\* The attempt counter after a premature exit.  longRun: the service ran at
\* least ResetAfter, so the count starts afresh.  The counter of a policy
\* without MaxAttempts is only logged, so it is left at 0.
NextAttempt(i, longRun) ==
  IF MaxAttempts[i] = 0 THEN 0 ELSE (IF longRun THEN 0 ELSE attempts[i]) + 1

\* Mutant: the comparison off by one.
ExhaustedEarly(i, attempt) == MaxAttempts[i] > 0 /\ attempt >= MaxAttempts[i]

\* The policy has a limit and this attempt is beyond it.
Exhausted(i, attempt) == MaxAttempts[i] > 0 /\ attempt > MaxAttempts[i]

\* A premature exit that the policy still covers: back off, then restart.
Retry(i) ==
  /\ Goto(i, "check", "backoff")
  /\ ~AskedToStop(i)
  /\ i \in Supervised
  /\ \E longRun \in BOOLEAN :
       /\ ~Exhausted(i, NextAttempt(i, longRun))
       /\ attempts' = [attempts EXCEPT ![i] = NextAttempt(i, longRun)]
  /\ UNCHANGED <<svcCtx, stopping, ret, done, exits, ready, lateStarts>>

\* A premature exit that exhausts the policy.
Exhaust(i) ==
  /\ Goto(i, "check", "giveUp")
  /\ ~AskedToStop(i)
  /\ i \in Supervised
  /\ \E longRun \in BOOLEAN :
       /\ Exhausted(i, NextAttempt(i, longRun))
       /\ attempts' = [attempts EXCEPT ![i] = NextAttempt(i, longRun)]
  /\ UNCHANGED <<svcCtx, stopping, ret, done, exits, ready, lateStarts>>

\* Mutant: the failure counts as dealt with, as in the backoff.
DeliverNil(i) ==
  /\ Goto(i, "giveUp", "exitSend")
  /\ SendDone(i, "nil")
  /\ UNCHANGED <<svcCtx, stopping, ret, attempts, exits, ready, lateStarts>>

\* done <- err, before the exit is reported.
DeliverGiveUp(i) ==
  /\ Goto(i, "giveUp", "exitSend")
  /\ SendDone(i, ret[i])
  /\ UNCHANGED <<svcCtx, stopping, ret, attempts, exits, ready, lateStarts>>

\* exits <- serviceExit{index: i, err: err}; blocks while the buffer is full.
ReportExit(i) ==
  /\ Goto(i, "exitSend", "end")
  /\ Len(exits) < ExitsCap
  /\ exits' = Append(exits, [svc |-> i, err |-> ret[i]])
  /\ UNCHANGED <<svcCtx, stopping, ret, attempts, done, ready, lateStarts>>

\* Mutant: the wait ends without a result for stopAll.
QuitBackoffSilently(i) ==
  /\ Goto(i, "backoff", "end")
  /\ AskedToStop(i)
  /\ UNCHANGED <<svcCtx, stopping, ret, attempts, done, exits, ready, lateStarts>>

\* Shutdown ends the wait; the failure before it was the policy's business.
QuitBackoff(i) ==
  /\ Goto(i, "backoff", "end")
  /\ AskedToStop(i)
  /\ SendDone(i, "nil")
  /\ UNCHANGED <<svcCtx, stopping, ret, attempts, exits, ready, lateStarts>>

\* The delay is over.  The select may take this case with ctx.Done() or
\* stoppingCh ready as well, so there is no guard on them.
BackoffElapsed(i) ==
  /\ Goto(i, "backoff", "begin")
  /\ UNCHANGED <<svcCtx, stopping, ret, attempts, done, exits, ready, lateStarts>>

-----------------------------------------------------------------------------
(* The host, as the supervisors see it.                                    *)

\* go h.supervise(i, ...): the host launches each service once.
Launch(i) ==
  /\ Goto(i, "none", "begin")
  /\ UNCHANGED <<svcCtx, stopping, ret, attempts, done, exits, ready, lateStarts>>

\* close(h.stoppingCh)
CloseStopping ==
  /\ ~stopping
  /\ stopping' = TRUE
  /\ UNCHANGED <<svcCtx, sup, ret, attempts, done, exits, ready, lateStarts>>

\* cancels[i]()
Cancel(i) ==
  /\ svcCtx' = svcCtx \cup {i}
  /\ UNCHANGED <<stopping, sup, ret, attempts, done, exits, ready, lateStarts>>

\* <-exits
TakeExit ==
  /\ exits # <<>>
  /\ exits' = Tail(exits)
  /\ UNCHANGED <<svcCtx, stopping, sup, ret, attempts, done, ready, lateStarts>>

-----------------------------------------------------------------------------
Service(i) == BeginStart(i) \/ BecomeReady(i) \/ ReturnFromStart(i)

Supervisor(i) ==
  \/ StopAfterReturn(i)
  \/ ExitUnsupervised(i)
  \/ Retry(i)
  \/ Exhaust(i)
  \/ DeliverGiveUp(i)
  \/ ReportExit(i)
  \/ QuitBackoff(i)
  \/ BackoffElapsed(i)

AnyHost ==
  \/ \E i \in Services : Launch(i) \/ Cancel(i)
  \/ CloseStopping
  \/ TakeExit

SupNext == AnyHost \/ \E i \in Services : Service(i) \/ Supervisor(i)

SupSpec == SupInit /\ [][SupNext]_supVars

\* A goroutine that can run is scheduled; Start is entered once it is called.
\* Nothing says that Start returns, except once its context is cancelled.
SupFairness ==
  \A i \in Services :
    /\ WF_supVars(BeginStart(i) \/ Supervisor(i))
    /\ WF_supVars(i \in svcCtx /\ ReturnFromStart(i))

SupLiveSpec == SupSpec /\ SupFairness

-----------------------------------------------------------------------------
(* Properties.                                                             *)

\* A supervisor that reports an exit never blocks on the exits channel, even
\* if the host received its cause and no longer reads: the buffer of
\* len(h.services) always has room (host.go:60).  Otherwise the goroutine
\* would outlive the host.
ExitsNeverBlock == \A i \in Services : sup[i] = "exitSend" => Len(exits) < ExitsCap

\* supervise "sends the final Start error to done exactly once": done holds a
\* result exactly when the goroutine will not call Start again.  stopAll waits
\* on done; a missing result would cost it the whole shutdown timeout.
DoneIsFinal ==
  \A i \in Services : done[i] # "empty" <=> sup[i] \in {"exitSend", "end"}

\* The two channels agree: an exit that waits in exits is the final result its
\* supervisor has already sent to done, and each supervisor reports one.  The
\* host may take either first, or never read exits again (host.go:286-287).
ExitsMatchDone ==
  \A k \in 1..Len(exits) :
    /\ done[exits[k].svc] = exits[k].err
    /\ \A l \in 1..Len(exits) : exits[l].svc = exits[k].svc => l = k

\* Shutdown stops the supervisors from restarting: once stoppingCh is closed a
\* service is started at most one more time, by the backoff timer or the first
\* launch that was already under way.
AtMostOneLateStart == \A i \in Services : lateStarts[i] <= 1

\* The policy of a supervised service is used up: it has a limit, and exactly
\* that many consecutive restarts were made.
UsedUp(i) == MaxAttempts[i] > 0 /\ attempts[i] = MaxAttempts[i] + 1

\* A supervised service gives up, and stops the host, only when its policy is
\* used up (builder.go:72-74).
OnlyExhaustedGiveUp ==
  \A i \in Supervised : sup[i] \in {"giveUp", "exitSend"} => UsedUp(i)

\* A launched supervisor whose service was cancelled always ends, provided
\* Start returns once cancelled: no restart loop or channel keeps it.
CancelledSupervisorEnds ==
  \A i \in Services :
    (sup[i] # "none" /\ i \in svcCtx) ~> sup[i] = "end"

\* host.go:35 says of stoppingCh that it "stops supervisors from restarting":
\* no backoff ends in another start once it is closed.
NoRestartWhileStopping ==
  [][\A i \in Services : sup[i] = "backoff" /\ sup'[i] = "begin" => ~stopping]_supVars
=============================================================================
