-------------------------------- MODULE Cron --------------------------------
(***************************************************************************)
(* A periodic service of the package cron (cron.go): the goroutine that    *)
(* calls Service.Start of an Every or an At service, with the job and the  *)
(* error handler it calls, its ticker or timer, and the search of the      *)
(* schedule (CronExpr) it makes before every wait.                         *)
(*                                                                         *)
(* Abstractions.  The clock counts minutes and moves only while the        *)
(* goroutine waits or runs the job; a jitter delay, and the job's own run  *)
(* timeout, may end at any moment.  An error is "canceled", "err" or       *)
(* "panic".  The job is any function that may do as it likes with its      *)
(* context.                                                                *)
(***************************************************************************)
EXTENDS CronExpr

CONSTANTS
  Setups,     \* the services: options, expression and the host's location
  Interval,   \* of an Every service, in minutes
  StartTime,  \* when Start is called
  EndTime     \* bound on the clock

Confs == [ kind : {"every", "at"}, immediate : BOOLEAN, jitter : BOOLEAN, timeout : BOOLEAN,
           stopOnError : BOOLEAN, handler : BOOLEAN ]

ASSUME CronAssumption ==
  /\ \A x \in Setups : /\ x.conf \in Confs /\ x.expr \in Exprs /\ x.zone \in Zones
  /\ Interval \in Nat \ {0}
  /\ StartTime \in Nat /\ EndTime \in Nat

VARIABLES
  conf,       \* the options of the service
  expr,       \* its expression
  sched,      \* what Expr made of it
  zone,       \* the host's location
  now,        \* the clock
  cancelled,  \* ctx.Done() of Start is closed
  pc,         \* where Start is
  looping,    \* the loop of Start has begun (the immediate run is over)
  base,       \* when the ticker was made
  tick,       \* the ticker's channel, one slot
  after,      \* the time of the last time.Now() given to Next
  cand,       \* t, the candidate of the search
  due,        \* the time the timer was set to
  expired,    \* the run's context ended by WithRunTimeout
  outcome,    \* what the last job returned
  handled,    \* history: calls of the error handler for the last run
  runEnd,     \* history: when the last run was over
  runs,       \* history: runs made by the loop
  ret         \* what Start returned

service == <<conf, expr, sched, zone>>
search == <<after, cand, due>>
history == <<handled, runEnd, runs>>
vars == <<service, search, history, now, cancelled, pc, looping, base, tick,
          expired, outcome, ret>>

PCs == {"start", "jitter", "job", "defer", "enter", "select", "next", "search", "never", "done"}
Outcomes == {"nil", "err", "panic"}

Init ==
  /\ \E x \in Setups :
       /\ ExprParses(x.expr)
       /\ conf = x.conf /\ expr = x.expr /\ zone = x.zone
  /\ sched = Parse(expr)
  /\ now = StartTime
  /\ cancelled = FALSE
  /\ pc = "start"
  /\ looping = FALSE
  /\ base = 0 /\ tick = FALSE
  /\ after = 0 /\ cand = 0 /\ due = 0
  /\ expired = FALSE
  /\ outcome = "nil"
  /\ handled = 0 /\ runEnd = -1 /\ runs = 0
  /\ ret = "none"

-----------------------------------------------------------------------------
(* One run of the job (Service.run).                                       *)

\* s.run(ctx) is called: the jitter delay comes first, then the job.
CallRun == pc' = IF conf.jitter THEN "jitter" ELSE "job"

\* The run is over, with an error or not.  Start returns, or goes on to its
\* loop, or to the next wait of the loop.
RunReturns(err) ==
  /\ runEnd' = now
  /\ IF err # "nil" /\ conf.stopOnError
     THEN pc' = "done" /\ ret' = err
     ELSE /\ pc' = IF ~looping THEN "enter" ELSE IF conf.kind = "every" THEN "select" ELSE "next"
          /\ UNCHANGED ret

JitterPasses ==
  /\ pc = "jitter"
  /\ pc' = "job"
  /\ UNCHANGED <<service, search, history, now, cancelled, looping, base, tick, expired, outcome, ret>>

\* The select of the delay takes ctx.Done(): no job, and no handler.
JitterCancelled ==
  /\ pc = "jitter" /\ cancelled
  /\ RunReturns("canceled")
  /\ outcome' = "nil" /\ handled' = 0
  /\ UNCHANGED <<service, search, runs, now, cancelled, looping, base, tick, expired>>

\* Mutant: the context of a run always has a deadline.
RunTimeoutAlways ==
  /\ pc = "job" /\ ~expired
  /\ expired' = TRUE
  /\ UNCHANGED <<service, search, history, now, cancelled, pc, looping, base, tick, outcome, ret>>

\* The deadline of the run's context passes.
RunTimeout ==
  /\ pc = "job" /\ conf.timeout /\ ~expired
  /\ expired' = TRUE
  /\ UNCHANGED <<service, search, history, now, cancelled, pc, looping, base, tick, outcome, ret>>

JobReturns ==
  /\ pc = "job"
  /\ outcome' \in Outcomes
  /\ pc' = "defer"
  /\ expired' = FALSE
  /\ handled' = 0
  /\ UNCHANGED <<service, search, runEnd, runs, now, cancelled, looping, base, tick, ret>>

\* Mutant: the handler is called before the panic is recovered.
FailedWithError == outcome = "err"

\* What the deferred function sees as a failed run.
Failed == outcome # "nil"

\* The deferred function: a panic became an error; a failed run goes to the
\* handler, whose own panic leaves run, and Start with it.
Deferred ==
  /\ pc = "defer"
  /\ IF Failed /\ conf.handler
     THEN /\ handled' = handled + 1
          /\ \/ RunReturns(outcome)
             \/ /\ pc' = "done" /\ ret' = "panic"
                /\ runEnd' = now
     ELSE RunReturns(outcome) /\ UNCHANGED handled
  /\ UNCHANGED <<service, search, runs, now, cancelled, looping, base, tick, expired, outcome>>

-----------------------------------------------------------------------------
(* Service.Start and Service.runSchedule.                                  *)

CallStart ==
  /\ pc = "start"
  /\ IF conf.immediate THEN CallRun ELSE pc' = "enter"
  /\ UNCHANGED <<service, search, history, now, cancelled, looping, base, tick, expired, outcome, ret>>

\* The loop begins: NewTicker, or the timer of runSchedule.
EnterLoop ==
  /\ pc = "enter"
  /\ looping' = TRUE
  /\ IF conf.kind = "every" THEN pc' = "select" /\ base' = now
                            ELSE pc' = "next" /\ UNCHANGED base
  /\ UNCHANGED <<service, search, history, now, cancelled, tick, expired, outcome, ret>>

\* Mutant: the search goes on from the last run's time.
NextFrom == IF due = 0 THEN now ELSE due

\* time.Now(), as the argument of Next.
NowForNext == now

CallNext ==
  /\ pc = "next"
  /\ after' = NowForNext
  /\ cand' = SearchStart(NowForNext)
  /\ pc' = "search"
  /\ UNCHANGED <<service, history, due, now, cancelled, looping, base, tick, expired, outcome, ret>>

InLimit == cand < SearchLimit(zone, after)
Found == Matches(sched, Wall(zone, cand))

\* One iteration of Next.
SearchOn ==
  /\ pc = "search" /\ InLimit /\ ~Found
  /\ cand' = Advance(zone, sched, cand)
  /\ UNCHANGED <<service, history, after, due, now, cancelled, pc, looping, base, tick, expired,
                 outcome, ret>>

\* Next returns a time, and the timer is set to it.
SetTimer ==
  /\ pc = "search" /\ InLimit /\ Found
  /\ due' = cand
  /\ pc' = "select"
  /\ UNCHANGED <<service, history, after, cand, now, cancelled, looping, base, tick, expired,
                 outcome, ret>>

\* Next returns the zero time.
NextIsZero ==
  /\ pc = "search" /\ ~InLimit
  /\ pc' = "never"
  /\ UNCHANGED <<service, search, history, now, cancelled, looping, base, tick, expired, outcome, ret>>

StartReturns(err) == pc' = "done" /\ ret' = err

\* Mutant: the service ends when there is nothing left to run.
NeverEnds == TRUE

\* Mutant: it blocks without a look at its context.
NeverWakes == FALSE

\* The wait of a schedule that does not fire again.
NeverWaits == cancelled

\* <-ctx.Done() after a zero time.
LeaveNever ==
  /\ pc = "never" /\ NeverWaits
  /\ StartReturns("canceled")
  /\ UNCHANGED <<service, search, history, now, cancelled, looping, base, tick, expired, outcome>>

\* The select of either loop takes ctx.Done().
LeaveLoop ==
  /\ pc = "select" /\ cancelled
  /\ StartReturns("canceled")
  /\ UNCHANGED <<service, search, history, now, cancelled, looping, base, tick, expired, outcome>>

\* Mutant: the tick stays in the channel.
TickPeeked == tick' = tick

\* <-ticker.C
TickTaken == tick' = FALSE

OnTick ==
  /\ pc = "select" /\ conf.kind = "every" /\ tick
  /\ TickTaken
  /\ runs' = runs + 1
  /\ CallRun
  /\ UNCHANGED <<service, search, handled, runEnd, now, cancelled, looping, base, expired, outcome, ret>>

OnTimer ==
  /\ pc = "select" /\ conf.kind = "at" /\ now >= due
  /\ runs' = runs + 1
  /\ CallRun
  /\ UNCHANGED <<service, search, handled, runEnd, now, cancelled, looping, base, tick, expired,
                 outcome, ret>>

-----------------------------------------------------------------------------
(* The environment: the clock, with its ticker, and the host.              *)

\* A tick that finds the channel full is dropped.
Ticks(t) == looping /\ conf.kind = "every" /\ (t - base) % Interval = 0

Minutes ==
  /\ pc \in {"jitter", "job", "defer", "select", "never"}
  /\ now < EndTime
  /\ now' = now + 1
  /\ tick' = (tick \/ Ticks(now'))
  /\ UNCHANGED <<service, search, history, cancelled, pc, looping, base, expired, outcome, ret>>

Cancel ==
  /\ ~cancelled
  /\ cancelled' = TRUE
  /\ UNCHANGED <<service, search, history, now, pc, looping, base, tick, expired, outcome, ret>>

RunStep == JitterPasses \/ JitterCancelled \/ RunTimeout \/ JobReturns \/ Deferred
LoopStep == CallStart \/ EnterLoop \/ CallNext \/ SearchOn \/ SetTimer \/ NextIsZero
            \/ LeaveNever \/ LeaveLoop \/ OnTick \/ OnTimer

Next == RunStep \/ LoopStep \/ Minutes \/ Cancel

Spec == Init /\ [][Next]_vars

\* The goroutine is scheduled; the job returns once its context has ended
\* (the contract of Job); a select does not for ever pass over ctx.Done(),
\* since it draws among the ready cases.
Fairness ==
  /\ WF_vars(CallStart \/ EnterLoop \/ CallNext \/ SearchOn \/ SetTimer \/ NextIsZero)
  /\ WF_vars(Deferred) /\ WF_vars(JitterPasses \/ JitterCancelled) /\ WF_vars(LeaveNever)
  /\ WF_vars(JobReturns /\ (cancelled \/ expired))
  /\ SF_vars(LeaveLoop)

FairSpec == Spec /\ Fairness

-----------------------------------------------------------------------------
(* Properties.                                                             *)

CronTypeOK ==
  /\ conf \in Confs
  /\ now \in Nat /\ base \in Nat /\ after \in Nat /\ due \in Int /\ cand \in Int
  /\ cancelled \in BOOLEAN /\ looping \in BOOLEAN /\ tick \in BOOLEAN /\ expired \in BOOLEAN
  /\ pc \in PCs
  /\ outcome \in Outcomes
  /\ expired => conf.timeout
  /\ handled \in 0..1 /\ runEnd \in Nat \cup {-1} /\ runs \in Nat
  /\ ret \in {"none", "canceled", "err", "panic"}

\* Conditions on the constants.  No service is at a location whose change of
\* the clock the search is not made for, or has a step close to the largest
\* int in its expression; and none is where the search may come to rest.
Searchable ==
  \A x \in Setups : ExprParses(x.expr) => WholeHour(x.zone) /\ StepsFit(x.expr)

Terminating == \A x \in Setups : ExprParses(x.expr) => Regular(x.zone)

\* Next returns the first run time strictly after the given moment, in the
\* meaning the expression has as a text, across a change of the clock too;
\* and it gives up only when there is none within the years it searches.
NextIsFirst ==
  /\ pc = "select" /\ conf.kind = "at" =>
       /\ after < due /\ IsRunTime(expr, Wall(zone, due))
       /\ \A u \in (after + 1)..(due - 1) : ~IsRunTime(expr, Wall(zone, u))
  /\ pc = "never" =>
       \A u \in (after + 1)..(SearchLimit(zone, after) - 1) : ~IsRunTime(expr, Wall(zone, u))

\* A run of a schedule starts no earlier than its time, and a time that
\* passed while another run was under way is skipped, never run late.
PassedRunsAreSkipped ==
  pc = "job" /\ looping /\ conf.kind = "at" => runEnd < due /\ due <= now

\* A ticker owes each run: there are never more runs, the one the channel
\* holds included, than intervals since the ticker was made.
OneRunPerTick ==
  looping /\ conf.kind = "every" =>
    runs + (IF tick THEN 1 ELSE 0) <= (now - base) \div Interval

\* Between two runs, the last one has been handed to the error handler just
\* once if it failed, by error or by panic, and not at all if it did not.
FailureHandledOnce ==
  pc \in {"enter", "select", "next", "search", "never"} =>
    handled = IF conf.handler /\ outcome # "nil" THEN 1 ELSE 0

\* A periodic service does not end the host by itself: Start returns only
\* when cancelled, after a failed run under StopOnError, or when the error
\* handler panicked.  Above all not when its schedule has no further run.
EndsOnlyForCause ==
  pc = "done" => \/ cancelled
                 \/ conf.stopOnError /\ outcome # "nil"
                 \/ conf.handler /\ outcome # "nil" /\ ret = "panic"

\* The search for the next run time ends.
NextReturns == pc = "search" ~> pc # "search"

\* Start returns after the host cancelled it, in whatever it was.
CancelEndsStart == cancelled ~> pc = "done"
=============================================================================
