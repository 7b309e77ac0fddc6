----------------------------- MODULE CronProofs -----------------------------
(***************************************************************************)
(* The periodic service, whatever the calendar, the expression, the        *)
(* location and the interval: why it ends, what the error handler is told, *)
(* how many runs a ticker gives, and which runs a schedule gives.  Only    *)
(* the last looks into the calendar, by the lemmas of CronExprProofs.      *)
(***************************************************************************)
EXTENDS Cron, CronExprProofs

-----------------------------------------------------------------------------
(* Why Start returns.                                                      *)

LEMMA EndsInit == Init => EndsOnlyForCause
  BY DEF Init, EndsOnlyForCause

LEMMA EndsStep == EndsOnlyForCause /\ [Next]_vars => EndsOnlyForCause'
<1> SUFFICES ASSUME EndsOnlyForCause, [Next]_vars PROVE EndsOnlyForCause'
  OBVIOUS
<1> USE DEF EndsOnlyForCause, service
<1>1. CASE RunStep
  <2>1. CASE JitterPasses \/ RunTimeout \/ JobReturns
    BY <2>1 DEF JitterPasses, RunTimeout, JobReturns
  <2>2. CASE JitterCancelled
    BY <2>2 DEF JitterCancelled
  <2>3. CASE Deferred
    BY <2>3 DEF Deferred, RunReturns, Failed
  <2> QED
    BY <1>1, <2>1, <2>2, <2>3 DEF RunStep
<1>2. CASE LoopStep
  BY <1>2 DEF LoopStep, CallStart, CallRun, EnterLoop, CallNext, SearchOn, SetTimer, NextIsZero,
              LeaveNever, LeaveLoop, StartReturns, NeverWaits, OnTick, OnTimer
<1>3. CASE Minutes
  BY <1>3 DEF Minutes
<1>4. CASE Cancel
  BY <1>4 DEF Cancel
<1>5. CASE UNCHANGED vars
  BY <1>5 DEF vars
<1> QED
  BY <1>1, <1>2, <1>3, <1>4, <1>5 DEF Next

\* A periodic service ends only when it is cancelled, after a failed run
\* under StopOnError, or by a panic of the error handler: in particular not
\* when its schedule has no further run (cron.go:164-166).
THEOREM EndsForCause == Spec => []EndsOnlyForCause
  BY EndsInit, EndsStep, PTL DEF Spec

-----------------------------------------------------------------------------
(* What the error handler is told.                                         *)

\* FailureHandledOnce, and: before the deferred function has run, the
\* handler has not been called for this run.
HandledInv ==
  /\ FailureHandledOnce
  /\ pc = "start" => handled = 0 /\ outcome = "nil"
  /\ pc = "defer" => handled = 0

LEMMA HandledInit == Init => HandledInv
  BY DEF Init, HandledInv, FailureHandledOnce

LEMMA HandledStep == HandledInv /\ [Next]_vars => HandledInv'
<1> SUFFICES ASSUME HandledInv, [Next]_vars PROVE HandledInv'
  OBVIOUS
<1> USE DEF HandledInv, FailureHandledOnce, service, history
<1>1. CASE RunStep
  <2>1. CASE JitterPasses \/ RunTimeout \/ JobReturns
    BY <2>1 DEF JitterPasses, RunTimeout, JobReturns
  <2>2. CASE JitterCancelled
    BY <2>2 DEF JitterCancelled, RunReturns
  <2>3. CASE Deferred
    BY <2>3 DEF Deferred, RunReturns, Failed
  <2> QED
    BY <1>1, <2>1, <2>2, <2>3 DEF RunStep
<1>2. CASE LoopStep
  BY <1>2 DEF LoopStep, CallStart, CallRun, EnterLoop, CallNext, SearchOn, SetTimer, NextIsZero,
              LeaveNever, LeaveLoop, StartReturns, OnTick, OnTimer
<1>3. CASE Minutes
  BY <1>3 DEF Minutes
<1>4. CASE Cancel
  BY <1>4 DEF Cancel
<1>5. CASE UNCHANGED vars
  BY <1>5 DEF vars
<1> QED
  BY <1>1, <1>2, <1>3, <1>4, <1>5 DEF Next

\* Between two runs the last one has been given to the error handler exactly
\* once if it failed, by error or by panic, and not at all otherwise
\* (cron.go:177-190).
THEOREM FailuresHandled == Spec => []FailureHandledOnce
<1>1. HandledInv => FailureHandledOnce
  BY DEF HandledInv
<1> QED
  BY <1>1, HandledInit, HandledStep, PTL DEF Spec

-----------------------------------------------------------------------------
(* The runs a ticker gives.                                                *)

\* The tick in the channel, as a number.
Pending == IF tick THEN 1 ELSE 0

\* Before the loop there is no ticker, and so no tick and no run of the loop.
LoopShape ==
  /\ tick \in BOOLEAN /\ looping \in BOOLEAN
  /\ pc \in {"start", "enter"} => ~looping
  /\ pc \in {"select", "next", "search", "never"} => looping
  /\ tick => looping

LoopCounts ==
  /\ now \in Nat /\ base \in Nat /\ runs \in Nat /\ base <= now
  /\ ~looping => runs = 0

\* A clock that moves on by one reaches a multiple of the interval: one more
\* interval is over than before.
LEMMA NextMultiple ==
  ASSUME NEW k \in Nat \ {0}, NEW d \in Nat
  PROVE  /\ d \div k \in Nat /\ (d + 1) \div k \in Nat
         /\ d \div k <= (d + 1) \div k
         /\ (d + 1) % k = 0 => d \div k < (d + 1) \div k
<1> DEFINE p == d \div k
           q == (d + 1) \div k
<1>1. p \in Int /\ q \in Int
  OBVIOUS
<1>2. d = k * p + (d % k) /\ d % k \in 0..(k - 1)
  OBVIOUS
<1>3. d + 1 = k * q + ((d + 1) % k) /\ (d + 1) % k \in 0..(k - 1)
  OBVIOUS
<1>4. p >= 0 /\ q >= 0
  <2>1. p < 0 => k * p <= -k
    OBVIOUS
  <2>2. q < 0 => k * q <= -k
    OBVIOUS
  <2> QED
    BY <1>1, <1>2, <1>3, <2>1, <2>2
<1>5. q < p => k * q <= k * p - k
  OBVIOUS
<1>6. p <= q
  BY <1>1, <1>2, <1>3, <1>5
<1>7. (d + 1) % k = 0 => p # q
  BY <1>1, <1>2, <1>3
<1> QED
  BY <1>1, <1>4, <1>6, <1>7

LEMMA LoopInit == Init => LoopShape /\ LoopCounts /\ OneRunPerTick
<1> SUFFICES ASSUME Init PROVE LoopShape /\ LoopCounts /\ OneRunPerTick
  OBVIOUS
<1>1. LoopShape
  BY DEF Init, LoopShape
<1>2. LoopCounts
  BY CronAssumption DEF Init, LoopCounts
<1>3. OneRunPerTick
  BY DEF Init, OneRunPerTick
<1> QED
  BY <1>1, <1>2, <1>3

LEMMA LoopShapeKept == LoopShape /\ [Next]_vars => LoopShape'
<1> SUFFICES ASSUME LoopShape, [Next]_vars PROVE LoopShape'
  OBVIOUS
<1> USE DEF LoopShape, service, search, history
<1>1. CASE RunStep
  BY <1>1 DEF RunStep, JitterPasses, JitterCancelled, RunTimeout, JobReturns, Deferred, RunReturns
<1>2. CASE CallStart \/ CallNext \/ SearchOn \/ SetTimer \/ NextIsZero \/ LeaveNever \/ LeaveLoop
  BY <1>2 DEF CallStart, CallRun, CallNext, SearchOn, SetTimer, NextIsZero, LeaveNever, LeaveLoop,
              StartReturns
<1>3. CASE EnterLoop
  BY <1>3 DEF EnterLoop
<1>4. CASE OnTick
  BY <1>4 DEF OnTick, CallRun, TickTaken
<1>5. CASE OnTimer
  BY <1>5 DEF OnTimer, CallRun
<1>6. CASE Minutes
  BY <1>6 DEF Minutes, Ticks
<1>7. CASE Cancel
  BY <1>7 DEF Cancel
<1>8. CASE UNCHANGED vars
  BY <1>8 DEF vars
<1> QED
  BY <1>1, <1>2, <1>3, <1>4, <1>5, <1>6, <1>7, <1>8 DEF Next, LoopStep

LEMMA LoopCountsKept == LoopShape /\ LoopCounts /\ [Next]_vars => LoopCounts'
<1> SUFFICES ASSUME LoopShape, LoopCounts, [Next]_vars PROVE LoopCounts'
  OBVIOUS
<1> USE DEF LoopShape, LoopCounts, service, search, history
<1>1. CASE RunStep
  BY <1>1 DEF RunStep, JitterPasses, JitterCancelled, RunTimeout, JobReturns, Deferred, RunReturns
<1>2. CASE CallStart \/ CallNext \/ SearchOn \/ SetTimer \/ NextIsZero \/ LeaveNever \/ LeaveLoop
  BY <1>2 DEF CallStart, CallRun, CallNext, SearchOn, SetTimer, NextIsZero, LeaveNever, LeaveLoop,
              StartReturns
<1>3. CASE EnterLoop
  BY <1>3 DEF EnterLoop
<1>4. CASE OnTick
  BY <1>4 DEF OnTick, CallRun, TickTaken
<1>5. CASE OnTimer
  BY <1>5 DEF OnTimer, CallRun
<1>6. CASE Minutes
  BY <1>6 DEF Minutes
<1>7. CASE Cancel
  BY <1>7 DEF Cancel
<1>8. CASE UNCHANGED vars
  BY <1>8 DEF vars
<1> QED
  BY <1>1, <1>2, <1>3, <1>4, <1>5, <1>6, <1>7, <1>8 DEF Next, LoopStep

LEMMA TickStep == LoopShape /\ LoopCounts /\ OneRunPerTick /\ [Next]_vars => OneRunPerTick'
<1> SUFFICES ASSUME LoopShape, LoopCounts, OneRunPerTick, [Next]_vars,
                    looping', conf'.kind = "every"
             PROVE  runs' + Pending' <= (now' - base') \div Interval
  BY DEF OneRunPerTick, Pending
<1> USE CronAssumption
<1>1. ASSUME UNCHANGED <<conf, looping, runs, tick, now, base>>
      PROVE  runs' + Pending' <= (now' - base') \div Interval
  BY <1>1 DEF OneRunPerTick, Pending
<1>2. CASE EnterLoop
  <2>1. runs' = 0 /\ Pending' = 0 /\ base' = now /\ now' = now
    BY <1>2 DEF EnterLoop, LoopShape, LoopCounts, Pending, service, history
  <2>2. (now - now) \div Interval = 0
    BY DEF LoopCounts
  <2> QED
    BY <2>1, <2>2
<1>3. CASE OnTick
  BY <1>3 DEF OnTick, TickTaken, LoopCounts, OneRunPerTick, Pending, service
<1>4. CASE RunStep \/ CallStart \/ CallNext \/ SearchOn \/ SetTimer \/ NextIsZero \/ LeaveNever
           \/ LeaveLoop
  BY <1>1, <1>4 DEF RunStep, JitterPasses, JitterCancelled, RunTimeout, JobReturns, Deferred,
              CallStart, CallNext, SearchOn, SetTimer, NextIsZero, LeaveNever, LeaveLoop,
              service, search, history
<1>5. CASE Minutes
  <2> DEFINE d == now - base
  <2>1. d \in Nat /\ now' - base' = d + 1 /\ runs' = runs /\ looping /\ conf.kind = "every"
    BY <1>5 DEF Minutes, LoopCounts, service, history
  <2>2. runs + Pending <= d \div Interval
    BY <2>1 DEF OneRunPerTick, Pending
  <2>3. tick' => tick \/ (d + 1) % Interval = 0
    <3>1. tick' => tick \/ Ticks(now')
      BY <1>5, Zenon DEF Minutes
    <3>2. now' - base = d + 1
      BY <1>5 DEF Minutes, LoopCounts
    <3> QED
      BY <3>1, <3>2 DEF Ticks
  <2>4. /\ d \div Interval \in Nat /\ (d + 1) \div Interval \in Nat
        /\ d \div Interval <= (d + 1) \div Interval
        /\ (d + 1) % Interval = 0 => d \div Interval < (d + 1) \div Interval
    BY <2>1, NextMultiple
  <2>5. runs \in Nat /\ Pending' \in 0..1 /\ Pending \in 0..1
    BY DEF LoopCounts, Pending
  <2>6. Pending' = 0 \/ Pending = 1 \/ (d + 1) % Interval = 0
    BY <2>3 DEF Pending
  <2>7. runs + Pending' <= (d + 1) \div Interval
    <3> HIDE DEF d, Pending
    <3> QED
      BY <2>2, <2>4, <2>5, <2>6
  <2> QED
    BY <2>1, <2>7
<1>6. CASE Cancel
  BY <1>1, <1>6 DEF Cancel, service, history
<1>7. CASE UNCHANGED vars
  BY <1>1, <1>7 DEF vars, service, history
<1>8. CASE OnTimer
  BY <1>8 DEF OnTimer, service
<1> QED
  BY <1>2, <1>3, <1>4, <1>5, <1>6, <1>7, <1>8 DEF Next, LoopStep

\* However long the runs are, an Every service has not run more often than
\* intervals have passed since its ticker was made (cron.go:117-139).
THEOREM RunsAreTicked == Spec => []OneRunPerTick
  BY LoopInit, LoopShapeKept, LoopCountsKept, TickStep, PTL DEF Spec

-----------------------------------------------------------------------------
(* Types.                                                                  *)

\* The service is one of the given ones, and its expression was accepted.
SetupInv ==
  /\ \E x \in Setups : conf = x.conf /\ expr = x.expr /\ zone = x.zone
  /\ ExprParses(expr)
  /\ sched = Parse(expr)

LEMMA SetupTypes == SetupInv => conf \in Confs /\ expr \in Exprs /\ zone \in Zones
  BY CronAssumption DEF SetupInv

LEMMA ServiceKept == [Next]_vars => UNCHANGED service
<1> SUFFICES ASSUME [Next]_vars PROVE UNCHANGED service
  OBVIOUS
<1>1. CASE RunStep
  BY <1>1 DEF RunStep, JitterPasses, JitterCancelled, RunTimeout, JobReturns, Deferred
<1>2. CASE LoopStep
  BY <1>2 DEF LoopStep, CallStart, EnterLoop, CallNext, SearchOn, SetTimer, NextIsZero,
              LeaveNever, LeaveLoop, OnTick, OnTimer
<1> QED
  BY <1>1, <1>2 DEF Next, Minutes, Cancel, vars

LEMMA SetupInit == Init => SetupInv
  BY DEF Init, SetupInv

LEMMA SetupStep == SetupInv /\ [Next]_vars => SetupInv'
  BY ServiceKept DEF SetupInv, service

LEMMA CronTypesInit == Init => CronTypeOK
<1> SUFFICES ASSUME Init PROVE CronTypeOK
  OBVIOUS
<1>1. conf \in Confs /\ now \in Nat
  BY SetupInit, SetupTypes, CronAssumption DEF Init
<1>2. /\ base \in Nat /\ after \in Nat /\ due \in Int /\ cand \in Int
      /\ handled \in 0..1 /\ runEnd \in Nat \cup {-1} /\ runs \in Nat
  BY DEF Init
<1>3. /\ cancelled \in BOOLEAN /\ looping \in BOOLEAN /\ tick \in BOOLEAN
      /\ expired \in BOOLEAN /\ ~expired
      /\ pc \in PCs /\ outcome \in Outcomes /\ ret \in {"none", "canceled", "err", "panic"}
  BY DEF Init, PCs, Outcomes
<1> QED
  BY <1>1, <1>2, <1>3 DEF CronTypeOK

LEMMA CronTypesStep == SetupInv /\ HandledInv /\ CronTypeOK /\ [Next]_vars => CronTypeOK'
<1> SUFFICES ASSUME SetupInv, HandledInv, CronTypeOK, [Next]_vars PROVE CronTypeOK'
  OBVIOUS
<1> USE DEF CronTypeOK, PCs, Outcomes, service, search, history
<1>1. CASE JitterPasses \/ JitterCancelled
  BY <1>1 DEF JitterPasses, JitterCancelled, RunReturns
<1>2. CASE RunTimeout \/ JobReturns
  <2>1. CASE RunTimeout
    <3>1. expired' \in BOOLEAN /\ conf'.timeout
      BY <2>1 DEF RunTimeout
    <3> QED
      BY <2>1, <3>1 DEF RunTimeout
  <2>2. CASE JobReturns
    <3>1. expired' \in BOOLEAN /\ ~expired'
      BY <2>2 DEF JobReturns
    <3> QED
      BY <2>2, <3>1 DEF JobReturns
  <2> QED
    BY <1>2, <2>1, <2>2
<1>3. CASE Deferred
  <2>1. handled = 0
    BY <1>3 DEF Deferred, HandledInv
  <2> QED
    BY <1>3, <2>1 DEF Deferred, RunReturns, Failed
<1>4. CASE CallStart \/ NextIsZero \/ LeaveNever \/ LeaveLoop
  BY <1>4 DEF CallStart, CallRun, NextIsZero, LeaveNever, LeaveLoop, StartReturns
<1>5. CASE EnterLoop
  BY <1>5 DEF EnterLoop
<1>6. CASE CallNext
  BY <1>6 DEF CallNext, SearchStart, NowForNext
<1>7. CASE SearchOn
  <2>1. Advance(zone, sched, cand) \in Int
    BY SetupTypes, AdvanceInt
  <2> QED
    BY <1>7, <2>1 DEF SearchOn
<1>8. CASE SetTimer
  BY <1>8 DEF SetTimer
<1>9. CASE OnTick \/ OnTimer
  <2>1. CASE OnTick
    <3>1. tick' \in BOOLEAN
      BY <2>1 DEF OnTick, TickTaken
    <3> QED
      BY <2>1, <3>1 DEF OnTick, CallRun
  <2>2. CASE OnTimer
    BY <2>2 DEF OnTimer, CallRun
  <2> QED
    BY <1>9, <2>1, <2>2
<1>10. CASE Minutes
  <2>1. tick' = (tick \/ Ticks(now'))
    BY <1>10 DEF Minutes
  <2>2. tick' \in BOOLEAN
    BY <2>1
  <2> QED
    BY <1>10, <2>2 DEF Minutes
<1>11. CASE Cancel
  BY <1>11 DEF Cancel
<1>12. CASE UNCHANGED vars
  BY <1>12 DEF vars
<1> QED
  BY <1>1, <1>2, <1>3, <1>4, <1>5, <1>6, <1>7, <1>8, <1>9, <1>10, <1>11, <1>12
     DEF Next, RunStep, LoopStep

\* The type invariant, in every location: the candidates of the search are
\* instants, however the clock changes there.
THEOREM CronTyped == Spec => []CronTypeOK
  BY SetupInit, SetupStep, HandledInit, HandledStep, CronTypesInit, CronTypesStep, PTL DEF Spec

-----------------------------------------------------------------------------
(* What Next returns.                                                      *)

NoRunTime(from, to) == \A u \in from..to : ~IsRunTime(expr, Wall(zone, u))

\* The search has passed over no run time, and is past the given moment
\* unless it does not end.
SearchInv ==
  pc = "search" => /\ NoRunTime(after + 1, cand - 1)
                   /\ after < cand \/ Stuck(zone, sched, cand)

\* A match of the parsed schedule is a run time.
LEMMA FoundIsRunTime ==
  ASSUME Searchable, SetupInv, NEW u \in Int
  PROVE  /\ WholeHour(zone)
         /\ Wall(zone, u) \in Int
         /\ Matches(sched, Wall(zone, u)) <=> IsRunTime(expr, Wall(zone, u))
<1>1. WholeHour(zone) /\ StepsFit(expr)
  BY DEF Searchable, SetupInv
<1>2. Wall(zone, u) \in Int
  BY SetupTypes, TimeTypes
<1> QED
  BY <1>1, <1>2, SetupTypes, ParsedMatches DEF SetupInv

LEMMA LimitInt ==
  ASSUME NEW z \in Zones, NEW u \in Int
  PROVE  SearchLimit(z, u) \in Int
<1>1. SearchYears * YearDays \in Int /\ DayLength \in Int
  BY CalendarAssumption, CalendarTypes
<1>2. (SearchYears * YearDays) * DayLength \in Int
  BY <1>1
<1> QED
  BY <1>2, TimeTypes DEF SearchLimit, AddYears, AddDays

LEMMA SearchOnStep ==
  ASSUME Searchable, SetupInv, CronTypeOK, SearchInv, SearchOn
  PROVE  /\ cand < cand' \/ (~Regular(zone) /\ Stuck(zone, sched, cand'))
         /\ SearchInv'
<1>1. cand \in Int /\ after \in Int /\ pc = "search" /\ ~Matches(sched, Wall(zone, cand))
  BY DEF CronTypeOK, SearchOn, Found
<1>2. cand' = Advance(zone, sched, cand) /\ UNCHANGED <<service, after, pc>>
  BY DEF SearchOn
<1>3. /\ cand' \in Int
      /\ cand < cand' \/ (~Regular(zone) /\ Stuck(zone, sched, cand'))
      /\ \A u \in Int : cand <= u /\ u < cand' => ~Matches(sched, Wall(zone, u))
  BY <1>1, <1>2, SetupTypes, FoundIsRunTime, AdvanceSkipsNoMatch
<1>4. ASSUME NEW u \in Int, after < u, u < cand'
      PROVE  ~IsRunTime(expr, Wall(zone, u))
  <2>1. CASE u < cand
    BY <1>1, <1>4, <2>1 DEF SearchInv, NoRunTime
  <2>2. CASE cand <= u
    BY <1>3, <1>4, <2>2, FoundIsRunTime
  <2> QED
    BY <1>1, <2>1, <2>2
<1>5. after < cand' \/ Stuck(zone, sched, cand')
  <2>1. CASE Stuck(zone, sched, cand)
    BY <1>2, <2>1 DEF Stuck
  <2>2. CASE after < cand
    BY <1>1, <1>3, <2>2
  <2> QED
    BY <1>1, <2>1, <2>2 DEF SearchInv
<1>6. NoRunTime(after + 1, cand' - 1)
  <2>1. \A u \in Int : after < u /\ u < cand' => ~IsRunTime(expr, Wall(zone, u))
    BY <1>4
  <2>2. \A a, b \in Int : \A u \in (a + 1)..(b - 1) : u \in Int /\ a < u /\ u < b
    OBVIOUS
  <2> QED
    BY <1>1, <1>3, <2>1, <2>2, Zenon DEF NoRunTime
<1> QED
  BY <1>2, <1>3, <1>5, <1>6 DEF SearchInv, NoRunTime, service

LEMMA SearchInit == Init => SearchInv /\ NextIsFirst
  BY DEF Init, SearchInv, NextIsFirst

LEMMA SearchStep ==
  ASSUME Searchable, SetupInv, CronTypeOK, SearchInv, NextIsFirst, [Next]_vars
  PROVE  SearchInv' /\ NextIsFirst'
<1> DEFINE Quiet == /\ UNCHANGED <<service, after, cand, due>>
                    /\ pc' \in {"search", "never"} => pc = pc'
                    /\ pc' = "select" /\ conf.kind = "at" => pc = pc'
<1>1. ASSUME Quiet PROVE SearchInv' /\ NextIsFirst'
  BY <1>1 DEF SearchInv, NextIsFirst, NoRunTime, service
<1> USE DEF service, search, history
<1>2. CASE RunStep
  <2>1. Quiet
    BY <1>2 DEF RunStep, JitterPasses, JitterCancelled, RunTimeout, JobReturns, Deferred, RunReturns
  <2> QED
    BY <1>1, <2>1
<1>3. CASE CallStart \/ EnterLoop \/ LeaveNever \/ LeaveLoop \/ OnTick \/ OnTimer
  <2>1. Quiet
    BY <1>3 DEF CallStart, CallRun, EnterLoop, LeaveNever, LeaveLoop, StartReturns, OnTick, OnTimer
  <2> QED
    BY <1>1, <2>1
<1>4. CASE Minutes \/ Cancel \/ UNCHANGED vars
  <2>1. Quiet
    BY <1>4 DEF Minutes, Cancel, vars
  <2> QED
    BY <1>1, <2>1
<1>5. CASE CallNext
  <2>1. /\ after' = now /\ cand' = now + 1 /\ pc' = "search" /\ now \in Nat
    BY <1>5 DEF CallNext, NowForNext, SearchStart, CronTypeOK
  <2>2. (after' + 1)..(cand' - 1) = {}
    BY <2>1
  <2> QED
    BY <2>1, <2>2 DEF SearchInv, NextIsFirst, NoRunTime
<1>6. CASE SearchOn
  <2>1. pc' = "search"
    BY <1>6 DEF SearchOn
  <2> QED
    BY <1>6, <2>1, SearchOnStep DEF NextIsFirst
<1>7. CASE SetTimer
  <2>1. /\ pc = "search" /\ pc' = "select" /\ due' = cand
        /\ UNCHANGED <<service, after>> /\ Matches(sched, Wall(zone, cand)) /\ cand \in Int
    BY <1>7 DEF SetTimer, Found, CronTypeOK
  <2>2. IsRunTime(expr, Wall(zone, cand)) /\ ~Stuck(zone, sched, cand)
    BY <2>1, FoundIsRunTime DEF Stuck
  <2> QED
    BY <2>1, <2>2 DEF SearchInv, NextIsFirst, NoRunTime
<1>8. CASE NextIsZero
  <2>1. /\ pc = "search" /\ pc' = "never" /\ UNCHANGED <<service, after>>
        /\ ~(cand < SearchLimit(zone, after)) /\ cand \in Int /\ after \in Int
    BY <1>8 DEF NextIsZero, InLimit, CronTypeOK
  <2>2. SearchLimit(zone, after) \in Int
    BY <2>1, SetupTypes, LimitInt
  <2>3. NoRunTime(after + 1, SearchLimit(zone, after) - 1)
    BY <2>1, <2>2 DEF SearchInv, NoRunTime
  <2> QED
    BY <2>1, <2>3 DEF SearchInv, NextIsFirst, NoRunTime
<1> QED
  BY <1>2, <1>3, <1>4, <1>5, <1>6, <1>7, <1>8 DEF Next, LoopStep

LEMMA SearchSound ==
  ASSUME Searchable
  PROVE  Spec => [](SetupInv /\ CronTypeOK /\ SearchInv /\ NextIsFirst)
<1>1. SetupInv /\ CronTypeOK /\ SearchInv /\ NextIsFirst /\ [Next]_vars
        => SearchInv' /\ NextIsFirst'
  BY SearchStep
<1> QED
  BY <1>1, SetupInit, SetupStep, CronTyped, SearchInit, PTL DEF Spec

\* Next returns the first run time after the given moment, in the meaning
\* of the expression's text, and the zero time only when there is none
\* within its limit (expr.go:177-212), over every change of the clock the
\* search is made for.
THEOREM FirstRunTime == ASSUME Searchable PROVE Spec => []NextIsFirst
  BY SearchSound, PTL

\* Where no hour is repeated west of Greenwich, every iteration of the search
\* moves on, and none starts past the limit: so Next returns after at most
\* as many iterations as its limit is away.
THEOREM SearchMovesOn ==
  ASSUME Searchable, Terminating
  PROVE  Spec => [][SearchOn => cand < cand' /\ cand < SearchLimit(zone, after)]_vars
<1>1. SetupInv /\ CronTypeOK /\ SearchInv /\ NextIsFirst
        => (SearchOn => cand < cand' /\ cand < SearchLimit(zone, after))
  BY SearchOnStep DEF SearchOn, InLimit, Terminating, SetupInv
<1> QED
  BY <1>1, SearchSound, PTL DEF Spec

-----------------------------------------------------------------------------
(* The runs of a schedule.                                                 *)

AtRun == looping /\ conf.kind = "at"

\* Next is asked after the last run, and the timer fires after what Next
\* was asked for.
SkipInv ==
  /\ runEnd <= now
  /\ pc \in {"search", "select"} /\ conf.kind = "at" => runEnd <= after
  /\ pc \in {"jitter", "job"} /\ AtRun => runEnd < due /\ due <= now

LEMMA SkipInit == Init => SkipInv
<1> SUFFICES ASSUME Init PROVE SkipInv
  OBVIOUS
<1>1. now \in Nat /\ runEnd = -1 /\ ~looping /\ pc = "start"
  BY CronAssumption DEF Init
<1> QED
  BY <1>1 DEF SkipInv, AtRun

LEMMA SkipStep == LoopShape /\ CronTypeOK /\ NextIsFirst /\ SkipInv /\ [Next]_vars => SkipInv'
<1> SUFFICES ASSUME LoopShape, CronTypeOK, NextIsFirst, SkipInv, [Next]_vars PROVE SkipInv'
  OBVIOUS
<1>0. /\ now \in Int /\ runEnd \in Int /\ after \in Int /\ due \in Int
      /\ pc = "select" /\ conf.kind = "at" => after < due
  BY DEF CronTypeOK, NextIsFirst
<1> USE <1>0 DEF SkipInv, AtRun, service, search, history
<1>1. CASE RunStep
  BY <1>1 DEF RunStep, JitterPasses, JitterCancelled, RunTimeout, JobReturns, Deferred, RunReturns
<1>2. CASE CallStart \/ EnterLoop
  <2>1. CASE CallStart
    <3>1. ~looping
      BY <2>1 DEF CallStart, LoopShape
    <3> QED
      BY <2>1, <3>1 DEF CallStart, CallRun
  <2>2. CASE EnterLoop
    BY <2>2 DEF EnterLoop
  <2> QED
    BY <1>2, <2>1, <2>2
<1>3. CASE CallNext
  BY <1>3 DEF CallNext, NowForNext
<1>4. CASE SearchOn \/ SetTimer \/ NextIsZero
  BY <1>4 DEF SearchOn, SetTimer, NextIsZero
<1>5. CASE LeaveNever \/ LeaveLoop
  BY <1>5 DEF LeaveNever, LeaveLoop, StartReturns
<1>6. CASE OnTick
  BY <1>6 DEF OnTick, CallRun
<1>7. CASE OnTimer
  BY <1>7 DEF OnTimer, CallRun
<1>8. CASE Minutes
  BY <1>8 DEF Minutes
<1>9. CASE Cancel \/ UNCHANGED vars
  BY <1>9 DEF Cancel, vars
<1> QED
  BY <1>1, <1>2, <1>3, <1>4, <1>5, <1>6, <1>7, <1>8, <1>9 DEF Next, LoopStep

\* A run of a schedule is never early, and never for a time that passed
\* before the previous run was over (cron.go:93-94).
THEOREM PassedRunsSkipped == ASSUME Searchable PROVE Spec => []PassedRunsAreSkipped
<1>1. SkipInv => PassedRunsAreSkipped
  BY DEF SkipInv, AtRun, PassedRunsAreSkipped
<1> QED
  BY <1>1, SearchSound, LoopInit, LoopShapeKept, SkipInit, SkipStep, PTL DEF Spec
=============================================================================
